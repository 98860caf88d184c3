----------------------------- MODULE BlockFetch -----------------------------
(***************************************************************************)
(* The block-fetch client (src/src/protocols/blockfetch.rs) run by the     *)
(* driver, against a server that follows the protocol: it answers a        *)
(* RequestRange with NoBlocks, or with StartBatch, blocks and BatchDone.   *)
(*                                                                         *)
(* The program calls run, which yields a BlockStream, then next on the     *)
(* stream as often as it likes, drops the stream whenever it likes, runs   *)
(* again, and ends with done, which consumes the client.  It may give up   *)
(* any call that is waiting by dropping its future.                        *)
(***************************************************************************)
EXTENDS Naturals, Sequences, SequencesExt, Selection

CONSTANTS
  MaxRuns,     \* bound: calls of run
  MaxBlocks,   \* bound: blocks in a batch
  MaxAbandons  \* bound: calls the program gives up

ASSUME BlockFetchAssumption == {MaxRuns, MaxBlocks, MaxAbandons} \subseteq Nat

VARIABLES
  proto, exec, sending, taken, bytes, hurt, inbox, outbox,
  call,      \* the call in progress, "closed" after done
  stream,    \* a BlockStream is alive
  yielded,   \* blocks next has returned
  runs,      \* calls of run so far
  abandons,  \* calls given up so far
  srv,       \* state of the server
  read       \* requests the server has read

clientVars == <<proto, exec, sending, taken, bytes, hurt>>
userVars == <<call, stream, yielded, runs, abandons>>
serverVars == <<srv, read>>
vars == <<clientVars, inbox, outbox, userVars, serverVars>>

(* A block is known by the request it answers and its place in the batch.  *)
Plain(type) == [type |-> type, block |-> <<0, 0>>]
Block(b) == [type |-> "Block", block |-> b]
Blocks == (1..MaxRuns) \X (1..MaxBlocks)
BlockMessages == { Block(b) : b \in Blocks }
ServerMessages ==
  { Plain(type) : type \in {"NoBlocks", "StartBatch", "BatchDone"} }
    \cup BlockMessages

-----------------------------------------------------------------------------
(***************************************************************************)
(* The protocol: agency, send and recv of the client.                      *)
(***************************************************************************)
Agency(p) ==
  CASE ~p.running \/ p.state = "Done" -> "None"
    [] OTHER -> IF p.state = "Idle" THEN "Client" ELSE "Server"

CanSend(p) == p.state = "Idle"

AfterSend(p) == [p EXCEPT !.state = IF p.done THEN "Done" ELSE "Busy"]

ToSend(p) == IF p.done THEN "ClientDone" ELSE "RequestRange"

Accepts(p, m) ==
  \/ p.state = "Busy" /\ m.type \in {"NoBlocks", "StartBatch"}
  \/ p.state = "Streaming" /\ m.type \in {"Block", "BatchDone"}

(* The messages that end the server's turn.  The mutants (bugs the code    *)
(* could have; none is part of Spec) take a block for the end of its       *)
(* batch, or only a refusal for an end.                                    *)
EndsAtBlock(m) == m.type # "StartBatch"
EndsIfRefused(m) == m.type = "NoBlocks"
Ends(m) == m.type \in {"NoBlocks", "BatchDone"}

(* Every message but StartBatch lets execute return.                       *)
AfterRecv(p, m) ==
  [p EXCEPT !.running = @ /\ m.type = "StartBatch",
            !.state = IF Ends(m) THEN "Idle" ELSE "Streaming",
            !.result = IF m.type = "Block" THEN Append(@, m.block) ELSE @]

INSTANCE Driver WITH Role <- "Client", Messages <- ServerMessages

Init ==
  /\ DriverInit
  /\ proto = [state |-> "Idle", running |-> FALSE, done |-> FALSE,
              result |-> << >>]
  /\ call = "none"
  /\ stream = FALSE
  /\ yielded = << >>
  /\ runs = 0
  /\ abandons = 0
  /\ srv = "Idle"
  /\ read = 0

-----------------------------------------------------------------------------
(***************************************************************************)
(* The program's calls.                                                    *)
(***************************************************************************)
Run ==
  /\ call = "none" /\ ~stream
  /\ runs < MaxRuns
  /\ Execute([proto EXCEPT !.running = TRUE])
  /\ call' = "run"
  /\ runs' = runs + 1
  /\ UNCHANGED <<stream, yielded, abandons, serverVars>>

RunReturns ==
  /\ call = "run" /\ Executed
  /\ exec' = "idle"
  /\ call' = "none"
  /\ stream' = TRUE
  /\ UNCHANGED <<proto, sending, taken, bytes, hurt, inbox, outbox, yielded,
                 runs, abandons, serverVars>>

(* Mutant: the newest block first.                                         *)
PopBack ==
  /\ yielded' = Append(yielded, Last(proto.result))
  /\ proto' = [proto EXCEPT !.result = Front(@)]

(* next has a block.                                                       *)
Pop ==
  /\ yielded' = Append(yielded, Head(proto.result))
  /\ proto' = [proto EXCEPT !.result = Tail(@)]

NextQueued ==
  /\ call = "none" /\ stream
  /\ proto.result # << >>
  /\ Pop
  /\ UNCHANGED <<exec, sending, taken, bytes, hurt, inbox, outbox, call,
                 stream, runs, abandons, serverVars>>

(* next waits for the server, ends the stream, or meets a state that it    *)
(* holds for impossible.                                                   *)
NextEmpty ==
  /\ call = "none" /\ stream
  /\ proto.result = << >>
  /\ IF proto.state = "Streaming"
       THEN Execute([proto EXCEPT !.running = TRUE]) /\ call' = "next"
       ELSE /\ exec' = IF proto.state = "Idle" THEN exec ELSE "panicked"
            /\ UNCHANGED <<proto, sending, taken, bytes, hurt, inbox, outbox,
                           call>>
  /\ UNCHANGED <<stream, yielded, runs, abandons, serverVars>>

NextReturns ==
  /\ call = "next" /\ Executed
  /\ exec' = "idle"
  /\ call' = "none"
  /\ IF proto.result = << >> THEN UNCHANGED <<proto, yielded>> ELSE Pop
  /\ UNCHANGED <<sending, taken, bytes, hurt, inbox, outbox, stream, runs,
                 abandons, serverVars>>

DropStream ==
  /\ call = "none" /\ stream
  /\ exec # "panicked"
  /\ stream' = FALSE
  /\ UNCHANGED <<clientVars, inbox, outbox, call, yielded, runs, abandons,
                 serverVars>>

Done ==
  /\ call = "none" /\ ~stream
  /\ Execute([proto EXCEPT !.running = TRUE, !.done = TRUE])
  /\ call' = "done"
  /\ UNCHANGED <<stream, yielded, runs, abandons, serverVars>>

DoneReturns ==
  /\ call = "done" /\ Executed
  /\ exec' = "idle"
  /\ call' = "closed"
  /\ UNCHANGED <<proto, sending, taken, bytes, hurt, inbox, outbox, stream,
                 yielded, runs, abandons, serverVars>>

GiveUp ==
  /\ abandons < MaxAbandons
  /\ Abandon
  /\ call' = IF call = "done" THEN "closed" ELSE "none"
  /\ abandons' = abandons + 1
  /\ UNCHANGED <<stream, yielded, runs, serverVars>>

Client == Drive /\ UNCHANGED <<userVars, serverVars>>

-----------------------------------------------------------------------------
(***************************************************************************)
(* The server.                                                             *)
(***************************************************************************)
Write(m) ==
  /\ inbox' = Append(inbox, m)
  /\ UNCHANGED <<clientVars, outbox, userVars>>

Requests == Len(AmongFirst(read, outbox, {"RequestRange"}))
Batch == { Block(<<Requests, k>>) : k \in 1..MaxBlocks }
InBatch == Len(Among(inbox, Batch))

ServerRead ==
  /\ srv = "Idle"
  /\ read < Len(outbox)
  /\ read' = read + 1
  /\ srv' = IF outbox[read'] = "RequestRange" THEN "Busy" ELSE "Done"
  /\ UNCHANGED <<clientVars, inbox, outbox, userVars>>

ServerRefuses ==
  /\ srv = "Busy"
  /\ srv' = "Idle"
  /\ Write(Plain("NoBlocks"))
  /\ UNCHANGED read

ServerStarts ==
  /\ srv = "Busy"
  /\ srv' = "Streaming"
  /\ Write(Plain("StartBatch"))
  /\ UNCHANGED read

ServerSendsBlock ==
  /\ srv = "Streaming"
  /\ InBatch < MaxBlocks
  /\ Write(Block(<<Requests, InBatch + 1>>))
  /\ UNCHANGED serverVars

ServerEnds ==
  /\ srv = "Streaming"
  /\ srv' = "Idle"
  /\ Write(Plain("BatchDone"))
  /\ UNCHANGED read

-----------------------------------------------------------------------------
Next ==
  \/ Run \/ RunReturns
  \/ NextQueued \/ NextEmpty \/ NextReturns
  \/ DropStream
  \/ Done \/ DoneReturns
  \/ GiveUp
  \/ Client
  \/ ServerRead \/ ServerRefuses \/ ServerStarts \/ ServerSendsBlock
  \/ ServerEnds

Spec == Init /\ [][Next]_vars

(***************************************************************************)
(* A polled future goes on while it can, and the server answers what it    *)
(* has read and ends its batches.  The program may stop calling.           *)
(***************************************************************************)
Fairness ==
  /\ WF_vars(Client)
  /\ WF_vars(RunReturns) /\ WF_vars(NextReturns) /\ WF_vars(DoneReturns)
  /\ WF_vars(ServerRead)
  /\ WF_vars(ServerRefuses \/ ServerStarts)
  /\ WF_vars(ServerEnds)

FairSpec == Spec /\ Fairness

-----------------------------------------------------------------------------
TypeOK ==
  /\ proto \in [state : {"Idle", "Busy", "Streaming", "Done"},
                running : BOOLEAN, done : BOOLEAN, result : Seq(Blocks)]
  /\ exec \in {"idle", "loop", "sending", "await", "parse", "panicked"}
  /\ sending \in {<< >>, <<"RequestRange">>, <<"ClientDone">>}
  /\ taken \in 0..(Pieces * Len(inbox))
  /\ bytes \in 0..taken
  /\ hurt \in BOOLEAN
  /\ inbox \in Seq(ServerMessages)
  /\ outbox \in Seq({"RequestRange", "ClientDone"})
  /\ call \in {"none", "run", "next", "done", "closed"}
  /\ stream \in BOOLEAN
  /\ yielded \in Seq(Blocks)
  /\ runs \in 0..MaxRuns
  /\ abandons \in 0..MaxAbandons
  /\ srv \in {"Idle", "Busy", "Streaming", "Done"}
  /\ read \in 0..Len(outbox)

BlocksOf(messages) == [ k \in 1..Len(messages) |-> messages[k].block ]
BlocksWritten == BlocksOf(Among(inbox, BlockMessages))

(***************************************************************************)
(* None of the client's panics is reachable (blockfetch.rs:157, 236, and   *)
(* the unwraps of protocols.rs:71, 92), however the server's messages are  *)
(* cut into frames, whatever streams are dropped half-read and whichever   *)
(* calls are given up -- unless giving up lost a part of a message.        *)
(***************************************************************************)
NoPanic == ~hurt => exec # "panicked"

(***************************************************************************)
(* The blocks that next returns, followed by those still queued, are the   *)
(* first blocks the server wrote, in order, none lost and none twice, over *)
(* any number of streams and given-up calls (blockfetch.rs:150-164, 229).  *)
(***************************************************************************)
BlocksInOrder == ~hurt => IsPrefix(yielded \o proto.result, BlocksWritten)

(***************************************************************************)
(* The client writes to the server only when the server waits for it:      *)
(* what it takes for its own agency is the server's view too               *)
(* (blockfetch.rs:180-190, 219-238).                                       *)
(***************************************************************************)
WritesOnlyToIdle == ~hurt /\ read < Len(outbox) => srv = "Idle"

(***************************************************************************)
(* next returns None only when the server has ended the batch and all its  *)
(* blocks have been returned (blockfetch.rs:150-164).  It does so from a   *)
(* state, without a step or with one: at once where the client is Idle, on *)
(* whichever call of next that is, and when execute has come back to it    *)
(* with nothing.                                                           *)
(***************************************************************************)
NoneAtOnce == call = "none" /\ stream /\ proto.state = "Idle"
NoneAfterExecute == call = "next" /\ Executed
ReturnsNone == proto.result = << >> /\ (NoneAtOnce \/ NoneAfterExecute)

NoneMeansEnd == ~hurt /\ ReturnsNone => srv = "Idle" /\ yielded = BlocksWritten

(***************************************************************************)
(* A call that is not given up ends, once the server has answered          *)
(* (blockfetch.rs:127-165, protocols.rs:110-133).                          *)
(***************************************************************************)
Calling == call \in {"run", "next", "done"}

CallsReturn == Calling ~> ~Calling \/ hurt

(***************************************************************************)
(* A statement of the repository's test that the code does not meet.       *)
(*                                                                         *)
(* "Client closes the channel." (blockfetch.rs:346): a done that returned  *)
(* has told the server.                                                    *)
(***************************************************************************)
DoneTellsServer ==
  call = "closed" /\ abandons = 0 =>
    outbox # << >> /\ Last(outbox) = "ClientDone"
=============================================================================
