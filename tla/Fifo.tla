-------------------------------- MODULE Fifo --------------------------------
(***************************************************************************)
(* What the receiving half of a connection promises, without tasks, locks, *)
(* queues or bytes: the frames that the peer wrote are taken one by one,   *)
(* and each goes to the Channel that is open at that moment, if it is one  *)
(* for that frame.  Once broken, which nothing repairs, the open Channel   *)
(* may be given anything; what was delivered stays as it is.               *)
(*                                                                         *)
(* This is what a user of Connection::channel and Channel::recv            *)
(* (src/src/mux.rs) relies on; Mux is shown to implement it.               *)
(***************************************************************************)
LOCAL INSTANCE Naturals
LOCAL INSTANCE Sequences

CONSTANTS
  Frames,    \* what the peer can write, with the index it is for as `id`
  Ids,       \* indices a Channel can be opened with
  Flip(_),   \* the index a frame is delivered to
  Channels,  \* numbers of Channels
  NoIndex    \* index of a Channel that was not opened yet

VARIABLES
  sent,    \* frames the peer wrote
  cursor,  \* how many of them were taken
  opened,  \* Channels opened so far
  open,    \* the last of them is still open
  index,   \* what each was opened with
  log,     \* frames delivered to each, as places in `sent`
  broken   \* frames are no longer told apart

vars == <<sent, cursor, opened, open, index, log, broken>>

Init ==
  /\ sent = << >>
  /\ cursor = 0
  /\ opened = 0
  /\ open = FALSE
  /\ index = [c \in Channels |-> NoIndex]
  /\ log = [c \in Channels |-> << >>]
  /\ broken = FALSE

Write(frame) ==
  /\ sent' = Append(sent, frame)
  /\ UNCHANGED <<cursor, opened, open, index, log, broken>>

Open(i) ==
  /\ ~open
  /\ open' = TRUE
  /\ opened' = opened + 1
  /\ index' = [index EXCEPT ![opened'] = i]
  /\ UNCHANGED <<sent, cursor, log, broken>>

Close ==
  /\ open
  /\ open' = FALSE
  /\ UNCHANGED <<sent, cursor, opened, index, log, broken>>

(* The next frame goes to the open Channel or to nobody. *)
ForOpen(n) == open /\ Flip(sent[n].id) = index[opened]

Take ==
  /\ ~broken
  /\ cursor < Len(sent)
  /\ cursor' = cursor + 1
  /\ log' = IF ForOpen(cursor')
              THEN [log EXCEPT ![opened] = Append(@, cursor')]
              ELSE log
  /\ UNCHANGED <<sent, opened, open, index, broken>>

(* Broken now or before: the open Channel, and no other, may be given some *)
(* frame once more or something that is no frame, known as 0.              *)
Break ==
  /\ broken'
  /\ \/ log' = log
     \/ /\ open
        /\ \E x \in 0..Len(sent) :
             log' = [log EXCEPT ![opened] = Append(@, x)]
  /\ UNCHANGED <<sent, opened, open, index>>

Next ==
  \/ \E frame \in Frames : Write(frame)
  \/ \E i \in Ids : Open(i)
  \/ Close
  \/ Take
  \/ Break

Spec == Init /\ [][Next]_vars
=============================================================================
