----------------------------- MODULE EgressProof -----------------------------
(***************************************************************************)
(* The sending half for all lengths, header sizes and moduli, and any      *)
(* number of calls, given up or not: the types, and that the peer reads    *)
(* what was sent.                                                          *)
(*                                                                         *)
(* The invariant names the places `at` at which the frames of the calls    *)
(* that returned intact begin on the wire, one behind the other, and what  *)
(* stands behind the last of them.  What the peer reads from these places  *)
(* follows by an induction over the frames.                                *)
(***************************************************************************)
EXTENDS Egress, SelectionProof

Typed ==
  /\ TypeOK
  /\ Calls <= MaxSends
  /\ Sending => Calls > 0
  /\ send = "header" => off < HeaderLen
  /\ send = "payload" => off = HeaderLen
  /\ wire \in Seq((1..Calls) \X Nat)

Open == send \in {"header", "payload"}
OpenBytes == IF Open THEN off ELSE 0

(* The bytes of frame n, header and payload, stand at place i.             *)
FrameAt(i, n) ==
  \A j \in 0..(HeaderLen + lens[n] - 1) : wire[i + j] = <<n, j>>

(* The intact frames, none of which was announced too short.               *)
Frames(at) ==
  /\ at \in [1..(intact + 1) -> 1..(Len(wire) + 1)]
  /\ at[1] = 1
  /\ \A k \in 1..intact :
       /\ lens[finished[k]] < Modulus
       /\ at[k + 1] = at[k] + HeaderLen + lens[finished[k]]
       /\ FrameAt(at[k], finished[k])

(* Until a frame is spoilt there is nothing else than the frame being      *)
(* written.                                                                *)
LastFrame(end) ==
  /\ intact = Len(finished)
  /\ send # "panicked" => Len(wire) + 1 = end + OpenBytes
  /\ Open => \A j \in 0..(off - 1) : wire[end + j] = <<Calls, j>>

EInv ==
  /\ Typed
  /\ \E at : Frames(at) /\ (~spoilt => LastFrame(at[intact + 1]))

-----------------------------------------------------------------------------
(***************************************************************************)
(* Sequences and places.                                                   *)
(***************************************************************************)
LEMMA OfSequence ==
  ASSUME NEW S, NEW s \in Seq(S)
  PROVE  /\ Len(s) \in Nat /\ s = [k \in 1..Len(s) |-> s[k]]
         /\ \A k \in 1..Len(s) : s[k] \in S
OBVIOUS

LEMMA ToSequence ==
  ASSUME NEW S, NEW n \in Nat, NEW s, s = [k \in 1..n |-> s[k]],
         \A k \in 1..n : s[k] \in S
  PROVE  s \in Seq(S) /\ Len(s) = n
OBVIOUS

LEMMA Joined ==
  ASSUME NEW S, NEW s \in Seq(S), NEW t \in Seq(S)
  PROVE  /\ s \o t \in Seq(S) /\ Len(s \o t) = Len(s) + Len(t)
         /\ \A k \in 1..Len(s) : (s \o t)[k] = s[k]
         /\ \A k \in 1..Len(t) : (s \o t)[Len(s) + k] = t[k]
OBVIOUS

LEMMA Regrouped ==
  ASSUME NEW S, NEW s \in Seq(S), NEW x \in S, NEW r \in Seq(S)
  PROVE  s \o (<<x>> \o r) = Append(s, x) \o r
OBVIOUS

LEMMA PrefixOfJoined ==
  ASSUME NEW S, NEW s \in Seq(S), NEW t \in Seq(S)
  PROVE  IsPrefix(s, s \o t)
  <1>1. /\ s \o t \in Seq(S) /\ Len(s) \in Nat /\ Len(s \o t) \in Nat
        /\ Len(s) <= Len(s \o t)
        /\ \A k \in 1..Len(s) : (s \o t)[k] = s[k]
    OBVIOUS
  <1> DEFINE u == s \o t
  <1>2. u \in Seq(S) /\ Len(s) <= Len(u) /\ \A k \in 1..Len(s) : u[k] = s[k]
    BY <1>1
  <1> HIDE DEF u
  <1>3. SubSeq(s, 1, Len(s)) = SubSeq(u, 1, Len(s))
    BY <1>1, <1>2
  <1> QED
    BY <1>2, <1>3 DEF IsPrefix, u

(* Places on a wire of top bytes, and behind it.                           *)
LEMMA Places ==
  ASSUME NEW top \in Nat, NEW i \in 1..(top + 1)
  PROVE  i \in Nat /\ i >= 1 /\ i <= top + 1
OBVIOUS

LEMMA MorePlaces ==
  ASSUME NEW a \in Nat, NEW b \in Nat, a <= b
  PROVE  1..(a + 1) \subseteq 1..(b + 1)
OBVIOUS

(* Places inside a frame of h + l bytes that begins at a.                  *)
LEMMA InFrame ==
  ASSUME NEW a \in Nat, NEW b \in Nat, NEW h \in Nat, NEW l \in Nat, NEW top \in Nat,
         a >= 1, b = a + h + l, b <= top + 1
  PROVE  \A j \in 0..(h + l - 1) : a + j \in 1..top
OBVIOUS

LEMMA InPayload ==
  ASSUME NEW a \in Nat, NEW h \in Nat, NEW l \in Nat, NEW top \in Nat,
         top + 1 = a + h, NEW j \in 0..(h + l - 1), j >= h
  PROVE  /\ j - h + 1 \in 1..l /\ a + j = top + (j - h + 1)
         /\ h + (j - h + 1) - 1 = j
OBVIOUS

LEMMA InHeader ==
  ASSUME NEW a \in Nat, NEW o \in Nat, NEW top \in Nat, a >= 1, top + 1 = a + o
  PROVE  /\ \A j \in 0..((o + 1) - 1) : j = o \/ (j \in 0..(o - 1) /\ a + j \in 1..top)
         /\ a + o = top + 1
         /\ (top + 1) + 1 = a + (o + 1)
OBVIOUS

(* A length below the modulus is announced as it is.                       *)
LEMMA Remainder ==
  ASSUME NEW x \in Nat, NEW m \in Nat, m >= 1
  PROVE  x % m \in Nat /\ (x < m => x % m = x)
OBVIOUS

LEMMA Elements ==
  ASSUME Typed
  PROVE  /\ Calls \in Nat /\ Len(finished) \in Nat
         /\ \A n \in 1..Calls : lens[n] \in Nat /\ lens[n] \in Lens
         /\ \A k \in 1..Len(finished) : finished[k] \in 1..Calls
         /\ \A k \in 1..intact : finished[k] \in 1..Calls
  <1>1. /\ lens \in Seq(Lens) /\ finished \in Seq(1..Calls)
        /\ intact \in 0..Len(finished)
    BY DEF Typed, TypeOK
  <1>2. Calls \in Nat /\ \A n \in 1..Calls : lens[n] \in Lens
    BY <1>1 DEF Calls
  <1>3. Len(finished) \in Nat /\ \A k \in 1..Len(finished) : finished[k] \in 1..Calls
    BY <1>1, OfSequence
  <1>4. \A k \in 1..intact : k \in 1..Len(finished)
    BY <1>1, <1>3
  <1>5. Lens \subseteq Nat
    BY EgressAssumption
  <1> QED
    BY <1>2, <1>3, <1>4, <1>5

LEMMA Numbers ==
  ASSUME Typed
  PROVE  /\ Calls \in Nat /\ Len(wire) \in Nat /\ Len(finished) \in Nat
         /\ intact \in Nat /\ intact <= Len(finished) /\ off \in Nat
         /\ HeaderLen \in Nat /\ HeaderLen >= 1
         /\ Modulus \in Nat /\ Modulus >= 1
  <1>1. /\ wire \in Seq((1..Calls) \X Nat)
        /\ intact \in 0..Len(finished) /\ off \in 0..HeaderLen
    BY DEF Typed, TypeOK
  <1>2. HeaderLen \in Nat /\ HeaderLen >= 1 /\ Modulus \in Nat /\ Modulus >= 1
    BY EgressAssumption
  <1>3. Len(wire) \in Nat /\ Calls \in Nat /\ Len(finished) \in Nat
    BY <1>1, Elements
  <1> QED
    BY <1>1, <1>2, <1>3

(* The bytes a write adds to the wire.                                     *)
LEMMA PayloadBytes ==
  ASSUME NEW n, NEW count \in Nat
  PROVE  /\ Payload(n, count) \in Seq({n} \X Nat)
         /\ Len(Payload(n, count)) = count
         /\ \A k \in 1..count : Payload(n, count)[k] = <<n, HeaderLen + k - 1>>
  <1>1. HeaderLen \in Nat
    BY EgressAssumption
  <1>2. (HeaderLen + count - 1) + 1 - HeaderLen = count
    BY <1>1
  <1>3. Payload(n, count) = [k \in 1..count |-> <<n, HeaderLen + k - 1>>]
    BY <1>2 DEF Payload, Bytes
  <1>4. \A k \in 1..count : HeaderLen + k - 1 \in Nat
    BY <1>1
  <1> QED
    BY <1>3, <1>4

(* Numbers of calls stay numbers of calls.                                 *)
LEMMA MoreCalls ==
  ASSUME NEW m \in Nat, NEW n \in Nat, m <= n
  PROVE  /\ Seq(1..m) \subseteq Seq(1..n)
         /\ Seq((1..m) \X Nat) \subseteq Seq((1..n) \X Nat)
  <1>1. 1..m \subseteq 1..n
    OBVIOUS
  <1>2. \A S, T : S \subseteq T => Seq(S) \subseteq Seq(T)
    <2> SUFFICES ASSUME NEW S, NEW T, S \subseteq T, NEW s \in Seq(S)
                 PROVE  s \in Seq(T)
      OBVIOUS
    <2>1. Len(s) \in Nat /\ s = [k \in 1..Len(s) |-> s[k]]
          /\ \A k \in 1..Len(s) : s[k] \in T
      OBVIOUS
    <2> QED
      BY <2>1
  <1>3. (1..m) \X Nat \subseteq (1..n) \X Nat
    BY <1>1
  <1> QED
    BY <1>1, <1>2, <1>3

LEMMA TypedStarts == Init => Typed
  <1> SUFFICES ASSUME Init PROVE Typed
    OBVIOUS
  <1>1. /\ lens = << >> /\ wire = << >> /\ finished = << >>
        /\ Calls = 0
    BY DEF Init, Calls
  <1>2. /\ 0 \in 0..HeaderLen /\ 0 \in 0..Len(finished) /\ 0 \in 0..MaxAbandons
        /\ 0 <= MaxSends
    BY <1>1, EgressAssumption
  <1>3. /\ lens \in Seq(Lens) /\ finished \in Seq(1..Calls)
        /\ wire \in Seq((1..Calls) \X Nat) /\ wire \in Seq((1..MaxSends) \X Nat)
    BY <1>1
  <1>4. TypeOK
    BY <1>2, <1>3 DEF Init, TypeOK
  <1> QED
    BY <1>1, <1>2, <1>3, <1>4 DEF Init, Typed, Sending

LEMMA TypedSend ==
  ASSUME Typed, NEW len \in Lens, Send(len)
  PROVE  /\ Typed' /\ Calls' = Calls + 1
         /\ \A n \in 1..Calls : lens'[n] = lens[n]
  <1> USE Numbers
  <1>1. /\ Calls < MaxSends /\ send' = "locking" /\ lens' = Append(lens, len)
        /\ UNCHANGED <<lock, off, wire, gone, finished, intact, spoilt, abandons>>
    BY DEF Send
  <1>2. /\ lens' \in Seq(Lens) /\ Calls' = Calls + 1
        /\ \A n \in 1..Calls : lens'[n] = lens[n]
    BY <1>1 DEF Typed, TypeOK, Calls
  <1>3. Calls \in Nat /\ Calls + 1 \in Nat /\ Calls <= Calls + 1
    OBVIOUS
  <1>4. /\ finished \in Seq(1..(Calls + 1)) /\ wire \in Seq((1..(Calls + 1)) \X Nat)
    BY <1>3, MoreCalls DEF Typed, TypeOK
  <1>5. Calls' <= MaxSends /\ Calls' > 0
    BY <1>1, <1>2, EgressAssumption
  <1> QED
    BY <1>1, <1>2, <1>4, <1>5 DEF Typed, TypeOK

(* A byte of a header.                                                     *)
LEMMA HeaderByte ==
  ASSUME Typed, WriteHeader
  PROVE  /\ Typed' /\ Calls' = Calls
         /\ Len(wire') = Len(wire) + 1 /\ wire'[Len(wire) + 1] = <<Calls, off>>
         /\ \A i \in 1..Len(wire) : wire'[i] = wire[i]
         /\ send' \in {"header", "payload"} /\ off' = off + 1
  <1> USE Numbers
  <1>1. /\ send = "header" /\ wire' = Append(wire, <<Calls, off>>) /\ off' = off + 1
        /\ send' = IF off + 1 = HeaderLen THEN "payload" ELSE "header"
        /\ UNCHANGED <<lock, lens, gone, finished, intact, spoilt, abandons>>
    BY DEF WriteHeader
  <1>2. Calls \in 1..Calls /\ off < HeaderLen
    BY <1>1 DEF Typed, Sending
  <1>3. <<Calls, off>> \in (1..Calls) \X Nat
    BY <1>2
  <1>4. /\ wire' \in Seq((1..Calls) \X Nat)
        /\ Len(wire') = Len(wire) + 1 /\ wire'[Len(wire) + 1] = <<Calls, off>>
        /\ \A i \in 1..Len(wire) : wire'[i] = wire[i]
    BY <1>1, <1>3 DEF Typed
  <1>5. Calls' = Calls
    BY <1>1 DEF Calls
  <1>6. /\ off' \in 0..HeaderLen
        /\ send' = "header" => off' < HeaderLen
        /\ send' = "payload" => off' = HeaderLen
    BY <1>1, <1>2
  <1>7. wire' \in Seq((1..MaxSends) \X Nat)
    <2>1. Calls <= MaxSends /\ MaxSends \in Nat
      BY EgressAssumption DEF Typed
    <2> QED
      BY <1>4, <2>1, MoreCalls
  <1>8. Typed'
    BY <1>1, <1>2, <1>4, <1>5, <1>6, <1>7 DEF Typed, TypeOK
  <1> QED
    BY <1>1, <1>4, <1>5, <1>8

(* ... and the bytes of the payload that the socket takes.                 *)
LEMMA PayloadWritten ==
  ASSUME Typed, WritePayload
  PROVE  /\ Typed' /\ Calls' = Calls /\ Calls \in 1..Calls /\ off = HeaderLen
         /\ lens' = lens /\ finished' = Append(finished, Calls) /\ send' = "idle"
         /\ intact' = IF spoilt' THEN intact ELSE intact + 1
         /\ \E count \in 0..lens[Calls] :
              /\ spoilt' = (spoilt \/ count # lens[Calls] \/ lens[Calls] >= Modulus)
              /\ Len(wire') = Len(wire) + count
              /\ \A k \in 1..count :
                   wire'[Len(wire) + k] = <<Calls, HeaderLen + k - 1>>
         /\ \A i \in 1..Len(wire) : wire'[i] = wire[i]
  <1> USE Numbers
  <1>1. /\ send = "payload" /\ finished' = Append(finished, Calls)
        /\ intact' = IF spoilt' THEN intact ELSE intact + 1
        /\ send' = "idle" /\ lock' = FALSE
        /\ UNCHANGED <<off, lens, gone, abandons>>
    BY DEF WritePayload
  <1>2. PICK count \in 0..lens[Calls] :
          /\ wire' = wire \o Payload(Calls, count)
          /\ spoilt' = (spoilt \/ count # lens[Calls] \/ lens[Calls] >= Modulus)
    BY DEF WritePayload
  <1>3. Calls \in 1..Calls /\ off = HeaderLen /\ Calls' = Calls
    BY <1>1 DEF Typed, Sending, Calls
  <1>4. lens[Calls] \in Nat /\ count \in Nat
    <2>1. lens[Calls] \in Nat
      BY <1>3, Elements
    <2> QED
      BY <2>1
  <1>5. /\ Payload(Calls, count) \in Seq((1..Calls) \X Nat)
        /\ Len(Payload(Calls, count)) = count
        /\ \A k \in 1..count : Payload(Calls, count)[k] = <<Calls, HeaderLen + k - 1>>
    <2> DEFINE p == Payload(Calls, count)
    <2>1. /\ p \in Seq({Calls} \X Nat) /\ Len(p) = count
          /\ \A k \in 1..count : p[k] = <<Calls, HeaderLen + k - 1>>
      BY <1>4, PayloadBytes
    <2>2. \A k \in 1..count : <<Calls, HeaderLen + k - 1>> \in (1..Calls) \X Nat
      BY <1>3
    <2> HIDE DEF p
    <2>3. p = [k \in 1..count |-> p[k]] /\ \A k \in 1..count : p[k] \in (1..Calls) \X Nat
      BY <2>1, <2>2
    <2>4. p \in Seq((1..Calls) \X Nat)
      BY <1>4, <2>3, ToSequence
    <2> QED
      BY <2>1, <2>4 DEF p
  <1>6. /\ wire' \in Seq((1..Calls) \X Nat) /\ Len(wire') = Len(wire) + count
        /\ \A k \in 1..count : wire'[Len(wire) + k] = <<Calls, HeaderLen + k - 1>>
        /\ \A i \in 1..Len(wire) : wire'[i] = wire[i]
    <2> DEFINE p == Payload(Calls, count)
               B == (1..Calls) \X Nat
    <2>1. wire \in Seq(B) /\ p \in Seq(B) /\ wire' = wire \o p /\ Len(p) = count
      BY <1>2, <1>5 DEF Typed
    <2> HIDE DEF p, B
    <2>2. /\ wire \o p \in Seq(B) /\ Len(wire \o p) = Len(wire) + Len(p)
          /\ \A k \in 1..Len(p) : (wire \o p)[Len(wire) + k] = p[k]
          /\ \A i \in 1..Len(wire) : (wire \o p)[i] = wire[i]
      <3>1. \A s, t \in Seq(B) :
              /\ s \o t \in Seq(B) /\ Len(s \o t) = Len(s) + Len(t)
              /\ \A k \in 1..Len(s) : (s \o t)[k] = s[k]
              /\ \A k \in 1..Len(t) : (s \o t)[Len(s) + k] = t[k]
        BY Joined
      <3> QED
        BY <2>1, <3>1, Zenon
    <2> QED
      BY <1>5, <2>1, <2>2 DEF p, B
  <1>7. wire' \in Seq((1..MaxSends) \X Nat)
    <2>1. Calls <= MaxSends /\ MaxSends \in Nat
      BY EgressAssumption DEF Typed
    <2> QED
      BY <1>6, <2>1, MoreCalls
  <1>8. finished' \in Seq(1..Calls) /\ Len(finished') = Len(finished) + 1
    BY <1>1, <1>3 DEF Typed, TypeOK
  <1>9. intact' \in 0..Len(finished') /\ spoilt' \in BOOLEAN
    <2>1. spoilt' \in BOOLEAN
      BY <1>2
    <2>2. intact' \in {intact, intact + 1}
      BY <1>1
    <2> QED
      BY <1>8, <2>1, <2>2
  <1>10. Typed'
    BY <1>1, <1>3, <1>6, <1>7, <1>8, <1>9 DEF Typed, TypeOK, Sending
  <1> QED
    BY <1>1, <1>2, <1>3, <1>6, <1>10

LEMMA TypedRest ==
  ASSUME Typed, Lock \/ WriteFails \/ GiveUp \/ PeerLeaves
  PROVE  /\ Typed' /\ Calls' = Calls
         /\ UNCHANGED <<lens, wire, finished, intact>>
  <1>1. /\ UNCHANGED <<lens, wire, finished, intact>>
        /\ send' \in {"idle", "header", "panicked"} \cup {send}
        /\ send' = "header" => Sending
        /\ off' \in {off, 0} /\ lock' \in BOOLEAN /\ gone' \in BOOLEAN
        /\ spoilt' \in BOOLEAN
    BY DEF Lock, WriteFails, GiveUp, PeerLeaves, Sending, Typed, TypeOK
  <1>2. abandons' \in 0..MaxAbandons
    <2>1. \/ abandons' = abandons
          \/ abandons < MaxAbandons /\ abandons' = abandons + 1
      <3>1. Lock \/ WriteFails \/ PeerLeaves => abandons' = abandons
        BY DEF Lock, WriteFails, PeerLeaves
      <3>2. GiveUp => abandons < MaxAbandons /\ abandons' = abandons + 1
        BY DEF GiveUp
      <3> QED
        BY <3>1, <3>2
    <2>2. abandons \in 0..MaxAbandons
      BY DEF Typed, TypeOK
    <2> QED
      BY <2>1, <2>2, EgressAssumption
  <1>3. /\ off' \in 0..HeaderLen /\ Calls' = Calls
        /\ send' = "header" => off' < HeaderLen
        /\ send' = "payload" => off' = HeaderLen
    <2>1. CASE Lock
      BY <2>1, Numbers DEF Lock, Calls
    <2>2. CASE WriteFails \/ GiveUp
      BY <2>2 DEF WriteFails, GiveUp, Calls, Typed, TypeOK
    <2>3. CASE PeerLeaves
      BY <2>3 DEF PeerLeaves, Calls, Typed, TypeOK
    <2> QED
      BY <2>1, <2>2, <2>3
  <1>4. Sending' => Calls > 0
    BY <1>1 DEF Typed, Sending
  <1> QED
    BY <1>1, <1>2, <1>3, <1>4 DEF Typed, TypeOK

LEMMA TypedStep == Typed /\ [Next]_vars => Typed'
  <1> SUFFICES ASSUME Typed, [Next]_vars PROVE Typed'
    OBVIOUS
  <1>1. CASE UNCHANGED vars
    BY <1>1 DEF Typed, TypeOK, vars, Sending, Calls
  <1> QED
    BY <1>1, TypedSend, HeaderByte, PayloadWritten, TypedRest DEF Next

-----------------------------------------------------------------------------
(***************************************************************************)
(* The frames on the wire.                                                 *)
(***************************************************************************)
(* Frames stay where they are when the wire and the calls go on.           *)
LEMMA FramesStay ==
  ASSUME Typed, NEW at, Frames(at), intact' = intact,
         Len(wire') \in Nat, Len(wire') >= Len(wire),
         \A i \in 1..Len(wire) : wire'[i] = wire[i],
         \A n \in 1..Calls : lens'[n] = lens[n],
         \A k \in 1..intact : finished'[k] = finished[k]
  PROVE  Frames(at)'
  <1> USE Numbers
  <1>1. /\ at \in [1..(intact + 1) -> 1..(Len(wire) + 1)] /\ at[1] = 1
        /\ \A k \in 1..intact :
             /\ lens[finished[k]] < Modulus
             /\ at[k + 1] = at[k] + HeaderLen + lens[finished[k]]
             /\ FrameAt(at[k], finished[k])
    BY DEF Frames
  <1>2. at \in [1..(intact + 1) -> 1..(Len(wire') + 1)]
    <2>1. 1..(Len(wire) + 1) \subseteq 1..(Len(wire') + 1)
      OBVIOUS
    <2> QED
      BY <1>1, <2>1
  <1>3. ASSUME NEW k \in 1..intact
        PROVE  /\ lens'[finished'[k]] = lens[finished[k]] /\ finished'[k] = finished[k]
               /\ FrameAt(at[k], finished[k])'
    <2> DEFINE n == finished[k]
    <2>1. n \in 1..Calls /\ lens'[n] = lens[n] /\ lens[n] \in Nat
      BY Elements
    <2>2. /\ at[k] \in 1..(Len(wire) + 1) /\ at[k + 1] \in 1..(Len(wire) + 1)
          /\ at[k + 1] = at[k] + HeaderLen + lens[n]
      <3>1. k \in 1..(intact + 1) /\ k + 1 \in 1..(intact + 1)
        OBVIOUS
      <3> QED
        BY <1>1, <3>1
    <2>3. \A j \in 0..(HeaderLen + lens[n] - 1) : wire'[at[k] + j] = <<n, j>>
      <3>1. /\ at[k] \in Nat /\ at[k + 1] \in Nat /\ at[k] >= 1
            /\ at[k + 1] <= Len(wire) + 1
        BY <2>2, Places
      <3>2. \A j \in 0..(HeaderLen + lens[n] - 1) : at[k] + j \in 1..Len(wire)
        BY <2>1, <2>2, <3>1, InFrame
      <3>3. \A j \in 0..(HeaderLen + lens[n] - 1) : wire[at[k] + j] = <<n, j>>
        BY <1>1 DEF FrameAt
      <3> QED
        BY <3>2, <3>3
    <2> QED
      BY <2>1, <2>3 DEF FrameAt
  <1> QED
    BY <1>1, <1>2, <1>3 DEF Frames, FrameAt

(* A frame written to its last byte stands behind the others.              *)
LEMMA FrameAdded ==
  ASSUME Typed, NEW at, Frames(at), LastFrame(at[intact + 1]),
         WritePayload, ~spoilt'
  PROVE  \E to : Frames(to)' /\ LastFrame(to[intact + 1])'
  <1> USE Numbers
  <1> DEFINE end == at[intact + 1]
             next == Len(wire') + 1
  <1>0. PICK to :
          to = [k \in 1..(intact + 2) |-> IF k <= intact + 1 THEN at[k] ELSE next]
    OBVIOUS
  <1>1. PICK count \in 0..lens[Calls] :
          /\ spoilt' = (spoilt \/ count # lens[Calls] \/ lens[Calls] >= Modulus)
          /\ Len(wire') = Len(wire) + count
          /\ \A k \in 1..count : wire'[Len(wire) + k] = <<Calls, HeaderLen + k - 1>>
    BY PayloadWritten
  <1>2. /\ Typed' /\ Calls' = Calls /\ Calls \in 1..Calls /\ off = HeaderLen
        /\ lens' = lens /\ finished' = Append(finished, Calls) /\ send' = "idle"
        /\ intact' = intact + 1 /\ \A i \in 1..Len(wire) : wire'[i] = wire[i]
    BY PayloadWritten
  <1>3. /\ count = lens[Calls] /\ lens[Calls] < Modulus /\ lens[Calls] \in Nat
        /\ Len(wire') = Len(wire) + lens[Calls]
    <2>1. ~(count # lens[Calls]) /\ ~(lens[Calls] >= Modulus)
      BY <1>1, Zenon
    <2>2. lens[Calls] \in Nat /\ Modulus \in Nat
      BY <1>2, Elements
    <2> QED
      BY <1>1, <2>1, <2>2
  <1>4. /\ intact = Len(finished) /\ send = "payload"
        /\ Len(wire) + 1 = end + HeaderLen
        /\ \A j \in 0..(HeaderLen - 1) : wire[end + j] = <<Calls, j>>
    BY <1>2 DEF WritePayload, LastFrame, OpenBytes, Open
  <1>5. /\ at \in [1..(intact + 1) -> 1..(Len(wire) + 1)] /\ at[1] = 1
        /\ \A k \in 1..intact :
             /\ lens[finished[k]] < Modulus
             /\ at[k + 1] = at[k] + HeaderLen + lens[finished[k]]
             /\ FrameAt(at[k], finished[k])
        /\ end \in 1..(Len(wire) + 1)
    BY DEF Frames
  <1>6. /\ \A k \in 1..intact : finished'[k] = finished[k]
        /\ finished'[intact + 1] = Calls /\ Len(finished') = intact + 1
    BY <1>2, <1>4 DEF Typed, TypeOK
  <1>7. \A j \in 0..(HeaderLen + lens[Calls] - 1) : wire'[end + j] = <<Calls, j>>
    <2> SUFFICES ASSUME NEW j \in 0..(HeaderLen + lens[Calls] - 1)
                 PROVE  wire'[end + j] = <<Calls, j>>
      OBVIOUS
    <2>1. CASE j < HeaderLen
      <3>1. end + j \in 1..Len(wire) /\ j \in 0..(HeaderLen - 1)
        <4> DEFINE e == end
                   top == Len(wire)
        <4>1. /\ e \in Nat /\ e >= 1 /\ top \in Nat /\ HeaderLen \in Nat
              /\ top + 1 = e + HeaderLen /\ j \in Nat /\ j < HeaderLen
          BY <1>4, <1>5, <2>1
        <4> HIDE DEF e, top
        <4>2. e + j \in 1..top /\ j \in 0..(HeaderLen - 1)
          BY <4>1
        <4> QED
          BY <4>2 DEF e, top
      <3> QED
        BY <1>2, <1>4, <3>1
    <2>2. CASE j >= HeaderLen
      <3> DEFINE i == j - HeaderLen + 1
      <3>1. i \in 1..lens[Calls] /\ end + j = Len(wire) + i /\ HeaderLen + i - 1 = j
        <4>1. end \in Nat /\ HeaderLen \in Nat /\ Len(wire) \in Nat
          BY <1>5
        <4>2. lens[Calls] \in Nat /\ Len(wire) + 1 = end + HeaderLen
          BY <1>3, <1>4
        <4> DEFINE l == lens[Calls]
                   top == Len(wire)
        <4>3. l \in Nat /\ top \in Nat /\ top + 1 = end + HeaderLen
              /\ j \in 0..(HeaderLen + l - 1)
          BY <4>1, <4>2
        <4> HIDE DEF end, l, top
        <4>4. /\ j - HeaderLen + 1 \in 1..l /\ end + j = top + (j - HeaderLen + 1)
              /\ HeaderLen + (j - HeaderLen + 1) - 1 = j
          BY <2>2, <4>1, <4>3, InPayload
        <4> QED
          BY <4>4 DEF l, top
      <3>2. wire'[Len(wire) + i] = <<Calls, HeaderLen + i - 1>>
        BY <1>1, <1>3, <3>1
      <3> QED
        BY <3>1, <3>2
    <2> QED
      BY <2>1, <2>2
  <1>8. next = end + HeaderLen + lens[Calls]
    <2>1. end \in Nat /\ Len(wire) \in Nat /\ lens[Calls] \in Nat
      BY <1>3, <1>5
    <2>2. Len(wire') = Len(wire) + lens[Calls] /\ Len(wire) + 1 = end + HeaderLen
      BY <1>3, <1>4
    <2> DEFINE l == lens[Calls]
               top == Len(wire)
    <2>3. /\ end \in Nat /\ top \in Nat /\ l \in Nat /\ HeaderLen \in Nat
          /\ next = top + l + 1 /\ top + 1 = end + HeaderLen
      BY <2>1, <2>2
    <2> HIDE DEF end, next, l, top
    <2>4. next = end + HeaderLen + l
      BY <2>3
    <2> QED
      BY <2>4 DEF l
  <1>9. /\ to \in [1..(intact' + 1) -> 1..(Len(wire') + 1)] /\ to[1] = 1
        /\ \A k \in 1..(intact + 1) : to[k] = at[k]
        /\ to[intact + 2] = next
    <2>0. Len(wire') \in Nat /\ Len(wire) \in Nat /\ Len(wire') >= Len(wire)
      BY <1>3
    <2>1. \A k \in 1..(intact + 1) : at[k] \in 1..(Len(wire') + 1)
      <3>1. 1..(Len(wire) + 1) \subseteq 1..(Len(wire') + 1)
        BY <2>0, MorePlaces
      <3> QED
        BY <1>5, <3>1
    <2>2. next \in 1..(Len(wire') + 1) /\ intact' + 1 = intact + 2
      BY <1>2, <2>0
    <2>3. 1 \in 1..(intact + 1) /\ intact + 2 \notin 1..(intact + 1)
      OBVIOUS
    <2>4. \A k \in 1..(intact + 1) : k \in 1..(intact + 2) /\ k <= intact + 1
      OBVIOUS
    <2>5. \A k \in 1..(intact + 1) : to[k] = at[k]
      BY <1>0, <2>4
    <2>6. to[intact + 2] = next
      BY <1>0
    <2>7. \A k \in 1..(intact + 2) : to[k] \in 1..(Len(wire') + 1)
      <3> SUFFICES ASSUME NEW k \in 1..(intact + 2) PROVE to[k] \in 1..(Len(wire') + 1)
        OBVIOUS
      <3>1. k \in 1..(intact + 1) \/ k = intact + 2
        OBVIOUS
      <3> HIDE DEF next
      <3> QED
        BY <2>1, <2>2, <2>5, <2>6, <3>1
    <2>8. to \in [1..(intact + 2) -> 1..(Len(wire') + 1)]
      BY <1>0, <2>7
    <2> HIDE DEF next
    <2> QED
      BY <1>5, <2>2, <2>3, <2>5, <2>6, <2>8
  <1> HIDE DEF next
  <1>10. ASSUME NEW k \in 1..intact'
         PROVE  /\ lens'[finished'[k]] < Modulus
                /\ to[k + 1] = to[k] + HeaderLen + lens'[finished'[k]]
                /\ \A j \in 0..(HeaderLen + lens'[finished'[k]] - 1) :
                     wire'[to[k] + j] = <<finished'[k], j>>
    <2>1. CASE k = intact + 1
      <3>1. /\ finished'[k] = Calls /\ lens'[finished'[k]] = lens[Calls]
            /\ k \in 1..(intact + 1) /\ k + 1 = intact + 2
        BY <1>2, <1>6, <2>1
      <3>2. to[k] = end /\ to[k + 1] = next
        BY <1>9, <2>1, <3>1
      <3> QED
        BY <1>3, <1>7, <1>8, <3>1, <3>2
    <2>2. CASE k # intact + 1
      <3> DEFINE n == finished[k]
      <3>1. k \in 1..intact /\ k + 1 \in 1..(intact + 1) /\ k \in 1..(intact + 1)
        BY <1>2, <2>2
      <3>2. /\ to[k] = at[k] /\ to[k + 1] = at[k + 1] /\ finished'[k] = n
            /\ n \in 1..Calls /\ lens[n] \in Nat
        BY <1>6, <1>9, <3>1, Elements
      <3>3. /\ lens[n] < Modulus /\ at[k + 1] = at[k] + HeaderLen + lens[n]
            /\ FrameAt(at[k], n)
            /\ at[k] \in 1..(Len(wire) + 1) /\ at[k + 1] \in 1..(Len(wire) + 1)
        BY <1>5, <3>1
      <3>4. \A j \in 0..(HeaderLen + lens[n] - 1) : wire'[at[k] + j] = <<n, j>>
        <4>1. /\ at[k] \in Nat /\ at[k + 1] \in Nat /\ at[k] >= 1
              /\ at[k + 1] <= Len(wire) + 1
          BY <3>3, Places
        <4>2. \A j \in 0..(HeaderLen + lens[n] - 1) : at[k] + j \in 1..Len(wire)
          BY <3>2, <3>3, <4>1, InFrame
        <4>3. \A j \in 0..(HeaderLen + lens[n] - 1) : wire[at[k] + j] = <<n, j>>
          BY <3>3 DEF FrameAt
        <4> QED
          BY <1>2, <4>2, <4>3
      <3> QED
        BY <1>2, <3>2, <3>3, <3>4
    <2> QED
      BY <2>1, <2>2
  <1>11. Frames(to)'
    BY <1>9, <1>10 DEF Frames, FrameAt
  <1>12. LastFrame(to[intact + 1])'
    <2>1. intact' = Len(finished') /\ send' = "idle" /\ to[intact' + 1] = next
      <3>1. intact' + 1 = intact + 2
        BY <1>2
      <3> QED
        BY <1>2, <1>6, <1>9, <3>1
    <2>2. next = Len(wire') + 1 /\ next + 0 = next
      BY <1>3 DEF next
    <2> QED
      BY <2>1, <2>2 DEF LastFrame, OpenBytes, Open
  <1> QED
    BY <1>11, <1>12

LEMMA EgressStarts == Init => EInv
  <1> SUFFICES ASSUME Init PROVE EInv
    OBVIOUS
  <1>1. Typed
    BY TypedStarts
  <1>2. /\ intact = 0 /\ wire = << >> /\ finished = << >> /\ send = "idle"
        /\ Len(wire) = 0 /\ Len(finished) = 0
    BY DEF Init
  <1> DEFINE at == [k \in 1..1 |-> 1]
  <1>3. Frames(at)
    BY <1>2 DEF Frames
  <1>4. LastFrame(at[intact + 1])
    BY <1>2 DEF LastFrame, OpenBytes, Open
  <1> QED
    BY <1>1, <1>3, <1>4 DEF EInv

LEMMA EgressStep == EInv /\ [Next]_vars => EInv'
  <1> SUFFICES ASSUME EInv, [Next]_vars PROVE EInv'
    OBVIOUS
  <1> USE Numbers
  <1>1. Typed /\ Typed'
    BY TypedStep DEF EInv
  <1>2. PICK at : Frames(at) /\ (~spoilt => LastFrame(at[intact + 1]))
    BY DEF EInv
  <1> DEFINE end == at[intact + 1]
  <1>3. end \in 1..(Len(wire) + 1)
    BY <1>1, <1>2 DEF Frames
  <1>4. ASSUME intact' = intact, Len(wire') \in Nat, Len(wire') >= Len(wire),
               \A i \in 1..Len(wire) : wire'[i] = wire[i],
               \A n \in 1..Calls : lens'[n] = lens[n],
               \A k \in 1..intact : finished'[k] = finished[k],
               ~spoilt' => LastFrame(end)'
        PROVE  EInv'
    <2>1. Frames(at)'
      BY <1>1, <1>2, <1>4, FramesStay
    <2> QED
      BY <1>1, <1>4, <2>1 DEF EInv
  <1>5. CASE \E len \in Lens : Send(len)
    <2>1. PICK len \in Lens : Send(len)
      BY <1>5
    <2>2. /\ send = "idle" /\ send' = "locking"
          /\ UNCHANGED <<wire, finished, intact, spoilt>>
      BY <2>1 DEF Send
    <2>3. ~spoilt' => LastFrame(end)'
      BY <1>2, <2>2 DEF LastFrame, OpenBytes, Open
    <2>4. \A n \in 1..Calls : lens'[n] = lens[n]
      BY <1>1, <2>1, TypedSend
    <2> QED
      BY <1>1, <1>4, <2>2, <2>3, <2>4
  <1>6. CASE Lock
    <2>1. /\ send = "locking" /\ send' = "header" /\ off' = 0
          /\ UNCHANGED <<lens, wire, finished, intact, spoilt>>
      BY <1>6 DEF Lock
    <2>2. ~spoilt' => LastFrame(end)'
      BY <1>2, <1>3, <2>1 DEF LastFrame, OpenBytes, Open
    <2> QED
      BY <1>1, <1>4, <2>1, <2>2
  <1>7. CASE WriteHeader
    <2>1. /\ send = "header" /\ send' \in {"header", "payload"} /\ off' = off + 1
          /\ UNCHANGED <<lens, finished, intact, spoilt>>
      BY <1>7 DEF WriteHeader
    <2>2. /\ Len(wire') = Len(wire) + 1 /\ wire'[Len(wire) + 1] = <<Calls, off>>
          /\ \A i \in 1..Len(wire) : wire'[i] = wire[i]
          /\ Calls' = Calls
      BY <1>1, <1>7, HeaderByte
    <2>3. ASSUME ~spoilt' PROVE LastFrame(end)'
      <3>1. /\ intact = Len(finished) /\ Len(wire) + 1 = end + off
            /\ \A j \in 0..(off - 1) : wire[end + j] = <<Calls, j>>
        BY <1>2, <2>1, <2>3 DEF LastFrame, OpenBytes, Open
      <3>0. /\ \A j \in 0..((off + 1) - 1) :
                 j = off \/ (j \in 0..(off - 1) /\ end + j \in 1..Len(wire))
            /\ end + off = Len(wire) + 1
            /\ (Len(wire) + 1) + 1 = end + (off + 1)
        <4> DEFINE top == Len(wire)
        <4>1. end \in Nat /\ end >= 1 /\ top \in Nat /\ off \in Nat
              /\ top + 1 = end + off
          BY <1>1, <1>3, <3>1
        <4> HIDE DEF end, top
        <4>2. /\ \A j \in 0..((off + 1) - 1) :
                   j = off \/ (j \in 0..(off - 1) /\ end + j \in 1..top)
              /\ end + off = top + 1
              /\ (top + 1) + 1 = end + (off + 1)
          BY <4>1, InHeader
        <4> QED
          BY <4>2 DEF top
      <3>2. ASSUME NEW j \in 0..(off' - 1) PROVE wire'[end + j] = <<Calls', j>>
        <4>1. CASE j = off
          BY <2>2, <3>0, <4>1
        <4>2. CASE j # off
          <5>1. j \in 0..(off - 1) /\ end + j \in 1..Len(wire)
            BY <2>1, <3>0, <4>2
          <5> QED
            BY <2>2, <3>1, <5>1
        <4> QED
          BY <4>1, <4>2
      <3>3. Len(wire') + 1 = end + off'
        BY <2>1, <2>2, <3>0
      <3> QED
        BY <2>1, <3>1, <3>2, <3>3 DEF LastFrame, OpenBytes, Open
    <2> QED
      BY <1>1, <1>4, <2>1, <2>2, <2>3
  <1>8. CASE WritePayload
    <2>1. CASE spoilt'
      <3>1. /\ intact' = intact /\ lens' = lens
            /\ finished' = Append(finished, Calls)
            /\ \A i \in 1..Len(wire) : wire'[i] = wire[i]
            /\ Calls \in 1..Calls
        BY <1>1, <1>8, <2>1, PayloadWritten
      <3>2. Len(wire') \in Nat /\ Len(wire') >= Len(wire)
        <4>1. PICK count \in 0..lens[Calls] : Len(wire') = Len(wire) + count
          BY <1>1, <1>8, PayloadWritten
        <4> QED
          BY <1>1, <3>1, <4>1
      <3>3. \A k \in 1..intact : finished'[k] = finished[k]
        BY <1>1, <3>1 DEF Typed, TypeOK
      <3> QED
        BY <1>4, <2>1, <3>1, <3>2, <3>3
    <2>2. CASE ~spoilt'
      <3>1. ~spoilt
        BY <1>1, <1>8, <2>2, PayloadWritten
      <3>2. \E to : Frames(to)' /\ LastFrame(to[intact + 1])'
        BY <1>1, <1>2, <1>8, <2>2, <3>1, FrameAdded
      <3> QED
        BY <1>1, <3>2 DEF EInv
    <2> QED
      BY <2>1, <2>2
  <1>9. CASE WriteFails \/ PeerLeaves
    <2>1. /\ UNCHANGED <<lens, wire, finished, intact, spoilt, off>>
          /\ send' = send \/ send' = "panicked"
      BY <1>9 DEF WriteFails, PeerLeaves
    <2>2. ~spoilt' => LastFrame(end)'
      BY <1>2, <2>1 DEF LastFrame, OpenBytes, Open, Calls
    <2> QED
      BY <1>1, <1>4, <2>1, <2>2
  <1>10. CASE GiveUp
    <2>1. /\ UNCHANGED <<lens, wire, finished, intact, off>> /\ send' = "idle"
          /\ Sending
          /\ spoilt' = (spoilt \/ (send # "locking" /\ off > 0))
      BY <1>10 DEF GiveUp
    <2>2. ASSUME ~spoilt' PROVE LastFrame(end)'
      <3>1. /\ ~spoilt /\ (send = "locking" \/ off = 0)
        <4>1. ~spoilt /\ ~(send # "locking" /\ off > 0)
          BY <2>1, <2>2, Zenon
        <4> QED
          BY <1>1, <4>1
      <3>2. send # "panicked" /\ OpenBytes = 0
        BY <2>1, <3>1 DEF OpenBytes, Open, Sending
      <3> QED
        BY <1>2, <2>1, <3>1, <3>2 DEF LastFrame, OpenBytes, Open
    <2> QED
      BY <1>1, <1>4, <2>1, <2>2
  <1>11. CASE UNCHANGED vars
    <2>1. UNCHANGED <<send, off, lens, wire, finished, intact, spoilt>>
      BY <1>11 DEF vars
    <2>2. ~spoilt' => LastFrame(end)'
      BY <1>2, <2>1 DEF LastFrame, OpenBytes, Open, Calls
    <2> QED
      BY <1>1, <1>4, <2>1, <2>2
  <1> QED
    BY <1>5, <1>6, <1>7, <1>8, <1>9, <1>10, <1>11 DEF Next

(* The frames of the calls that returned stand on the wire one behind the  *)
(* other (mux.rs:154-164, 213-215), until one of them is spoilt.           *)
THEOREM EgressInvariant == Spec => []EInv
  <1>1. Init => EInv
    BY EgressStarts
  <1>2. EInv /\ [Next]_vars => EInv'
    BY EgressStep
  <1> QED
    BY <1>1, <1>2, PTL DEF Spec

(* What a call of send works with is what it should be, wherever it stands *)
(* and whatever was given up (mux.rs:154-164).                             *)
THEOREM EgressTyped == Spec => []TypeOK
  <1>1. EInv => TypeOK
    BY DEF EInv, Typed
  <1> QED
    BY <1>1, EgressInvariant, PTL

-----------------------------------------------------------------------------
(***************************************************************************)
(* What the peer reads.                                                    *)
(***************************************************************************)
(* One step of the peer's loop at place i, from what it reads at later     *)
(* ones, and the function that Received is the first value of.             *)
After(i) == i + HeaderLen + Announced(wire[i][1])

ReadAt(from, i) ==
  IF i + HeaderLen - 1 > Len(wire) \/ ~IsHeader(i) THEN << >>
  ELSE IF After(i) - 1 > Len(wire) THEN << >>
  ELSE <<SubSeq(wire, i + HeaderLen, After(i) - 1)>> \o from[After(i)]

ReadFrom == CHOOSE from : from = [i \in 1..(Len(wire) + 1) |-> ReadAt(from, i)]

Pieces == Seq((1..Calls) \X Nat)

LEMMA ReceivedReads == Received = ReadFrom[1]
BY DEF Received, ReadFrom, ReadAt, After

(* The loop goes on at a later place.                                      *)
LEMMA GoesOn ==
  ASSUME Typed, NEW i \in 1..(Len(wire) + 1),
         ~(i + HeaderLen - 1 > Len(wire)), ~(After(i) - 1 > Len(wire))
  PROVE  /\ After(i) \in Nat /\ After(i) > i /\ After(i) <= Len(wire) + 1
         /\ SubSeq(wire, i + HeaderLen, After(i) - 1) \in Pieces
  <1> USE Numbers
  <1>1. i \in 1..Len(wire)
    OBVIOUS
  <1>2. wire[i] \in (1..Calls) \X Nat
    <2>1. wire \in Seq((1..Calls) \X Nat)
      BY DEF Typed
    <2> QED
      BY <1>1, <2>1, OfSequence
  <1>3. wire[i][1] \in 1..Calls
    BY <1>2
  <1>4. Announced(wire[i][1]) \in Nat
    <2>1. lens[wire[i][1]] \in Nat
      BY <1>3, Elements
    <2> QED
      BY <2>1, Remainder DEF Announced
  <1>5. After(i) \in Nat /\ After(i) > i
    <2> DEFINE x == Announced(wire[i][1])
    <2>1. After(i) = i + HeaderLen + x /\ x \in Nat /\ i \in Nat
      BY <1>4, Places DEF After
    <2> HIDE DEF x
    <2> QED
      BY <2>1
  <1>6. After(i) <= Len(wire) + 1 /\ i + HeaderLen >= 1
    BY <1>5
  <1>7. SubSeq(wire, i + HeaderLen, After(i) - 1) \in Pieces
    <2> DEFINE B == (1..Calls) \X Nat
               a == i + HeaderLen
               b == After(i) - 1
    <2>0. wire \in Seq(B)
      BY DEF Typed
    <2>1. wire \in Seq(B) /\ a \in Nat /\ b \in Int /\ a >= 1 /\ b <= Len(wire)
      <3>1. a \in Nat /\ a >= 1 /\ b \in Int
        BY <1>5
      <3>2. b <= Len(wire)
        BY <1>5, <1>6
      <3> HIDE DEF B, a, b
      <3> QED
        BY <2>0, <3>1, <3>2
    <2> HIDE DEF B, a, b
    <2>2. SubSeq(wire, a, b) \in Seq(B)
      BY <2>1
    <2> QED
      BY <2>2 DEF B, a, b, Pieces
  <1> QED
    BY <1>5, <1>6, <1>7

(* There is such a function: built from the end of the wire.               *)
LEMMA ReadFromExists ==
  ASSUME Typed
  PROVE  ReadFrom = [i \in 1..(Len(wire) + 1) |-> ReadAt(ReadFrom, i)]
  <1> DEFINE L == Len(wire)
             Good == { d \in 0..L :
                         \E f : f = [i \in (L + 1 - d)..(L + 1) |-> ReadAt(f, i)] }
  <1>0. L \in Nat /\ HeaderLen \in Nat /\ HeaderLen >= 1
    BY Numbers
  <1>1. 0 \in Good
    <2>1. ASSUME NEW f PROVE ReadAt(f, L + 1) = << >>
      <3>1. (L + 1) + HeaderLen - 1 > L
        BY <1>0
      <3> QED
        BY <3>1 DEF ReadAt
    <2> DEFINE f == [i \in (L + 1 - 0)..(L + 1) |-> << >>]
    <2>2. \A i \in (L + 1 - 0)..(L + 1) : i = L + 1
      BY <1>0
    <2>3. f = [i \in (L + 1 - 0)..(L + 1) |-> ReadAt(f, i)]
      BY <2>1, <2>2
    <2>4. \E h : h = [i \in (L + 1 - 0)..(L + 1) |-> ReadAt(h, i)]
      BY <2>3
    <2>5. 0 \in 0..L
      BY <1>0
    <2> QED
      BY <2>4, <2>5
  <1>2. ASSUME NEW d \in Good, d \in 0..(L - 1) PROVE d + 1 \in Good
    <2>1. PICK f : f = [i \in (L + 1 - d)..(L + 1) |-> ReadAt(f, i)]
      OBVIOUS
    <2> DEFINE D == (L + 1 - (d + 1))..(L + 1)
               g == [i \in D |-> IF i >= L + 1 - d THEN f[i] ELSE ReadAt(f, i)]
    <2>2. ASSUME NEW i \in D PROVE g[i] = ReadAt(g, i)
      <3>1. g[i] = ReadAt(f, i)
        <4>1. i >= L + 1 - d => f[i] = ReadAt(f, i)
          <5>1. i >= L + 1 - d => i \in (L + 1 - d)..(L + 1)
            BY <1>0, <1>2
          <5> QED
            BY <2>1, <5>1
        <4> QED
          BY <4>1
      <3>2. ASSUME ~(i + HeaderLen - 1 > L), ~(After(i) - 1 > L)
            PROVE  g[After(i)] = f[After(i)]
        <4>1. i \in 1..(L + 1)
          BY <1>0, <1>2
        <4>2. After(i) \in Nat /\ After(i) > i /\ After(i) <= L + 1
          BY <3>2, <4>1, GoesOn
        <4>3. After(i) \in D /\ After(i) >= L + 1 - d
          BY <1>0, <1>2, <4>1, <4>2
        <4> QED
          BY <4>3
      <3> HIDE DEF g
      <3> QED
        BY <3>1, <3>2 DEF ReadAt
    <2>3. g = [i \in D |-> ReadAt(g, i)]
      BY <2>2
    <2>4. \E h : h = [i \in D |-> ReadAt(h, i)]
      BY <2>3
    <2>5. d + 1 \in 0..L
      BY <1>0, <1>2
    <2> QED
      BY <2>4, <2>5
  <1>3. L \in Good
    <2> HIDE DEF Good, L
    <2> QED
      BY <1>0, <1>1, <1>2, BoundedInduction
  <1>4. L + 1 - L = 1
    BY <1>0
  <1>5. \E f : f = [i \in 1..(L + 1) |-> ReadAt(f, i)]
    BY <1>3, <1>4
  <1> QED
    BY <1>5 DEF ReadFrom

LEMMA Reads ==
  ASSUME Typed
  PROVE  \A i \in 1..(Len(wire) + 1) : ReadFrom[i] = ReadAt(ReadFrom, i)
  <1> DEFINE F == ReadFrom
  <1>1. F = [i \in 1..(Len(wire) + 1) |-> ReadAt(F, i)]
    BY ReadFromExists
  <1> HIDE DEF F
  <1>2. \A i \in 1..(Len(wire) + 1) : F[i] = ReadAt(F, i)
    BY <1>1
  <1> QED
    BY <1>2 DEF F

(* What it reads from any place on is a list of payloads.                  *)
LEMMA ReadsPieces ==
  ASSUME Typed
  PROVE  \A i \in 1..(Len(wire) + 1) : ReadFrom[i] \in Seq(Pieces)
  <1> DEFINE L == Len(wire)
             Good == { d \in 0..L : \A e \in 0..d : ReadFrom[L + 1 - e] \in Seq(Pieces) }
  <1>0. L \in Nat /\ HeaderLen \in Nat /\ HeaderLen >= 1
    BY Numbers
  <1>1. ASSUME NEW i \in 1..(L + 1), \A k \in (i + 1)..(L + 1) : ReadFrom[k] \in Seq(Pieces)
        PROVE  ReadFrom[i] \in Seq(Pieces)
    <2>1. ReadFrom[i] = ReadAt(ReadFrom, i)
      BY Reads
    <2>2. CASE ReadAt(ReadFrom, i) = << >>
      BY <2>1, <2>2
    <2>3. CASE ReadAt(ReadFrom, i) # << >>
      <3>1. ~(i + HeaderLen - 1 > L) /\ ~(After(i) - 1 > L)
        BY <2>3 DEF ReadAt
      <3>2. /\ After(i) \in (i + 1)..(L + 1)
            /\ SubSeq(wire, i + HeaderLen, After(i) - 1) \in Pieces
        BY <1>0, <3>1, GoesOn
      <3>3. ReadFrom[i] = <<SubSeq(wire, i + HeaderLen, After(i) - 1)>> \o ReadFrom[After(i)]
        BY <2>1, <2>3 DEF ReadAt
      <3> DEFINE x == SubSeq(wire, i + HeaderLen, After(i) - 1)
                 r == ReadFrom[After(i)]
      <3>4. x \in Pieces /\ r \in Seq(Pieces) /\ ReadFrom[i] = <<x>> \o r
        BY <1>1, <3>2, <3>3
      <3> HIDE DEF x, r
      <3> QED
        BY <3>4
    <2> QED
      BY <2>2, <2>3
  <1>2. 0 \in Good
    <2>1. ReadFrom[L + 1] \in Seq(Pieces)
      BY <1>0, <1>1
    <2> QED
      BY <1>0, <2>1
  <1>3. ASSUME NEW d \in Good, d \in 0..(L - 1) PROVE d + 1 \in Good
    <2> DEFINE i == L + 1 - (d + 1)
    <2>1. i \in 1..(L + 1)
      BY <1>0, <1>3
    <2>2. ASSUME NEW k \in (i + 1)..(L + 1) PROVE ReadFrom[k] \in Seq(Pieces)
      <3>1. L + 1 - k \in 0..d /\ L + 1 - (L + 1 - k) = k
        BY <1>0, <1>3
      <3> QED
        BY <3>1
    <2>3. ReadFrom[i] \in Seq(Pieces)
      BY <1>1, <2>1, <2>2
    <2>4. \A e \in 0..(d + 1) : e \in 0..d \/ e = d + 1
      BY <1>3
    <2>5. d + 1 \in 0..L
      BY <1>0, <1>3
    <2> QED
      BY <2>3, <2>4, <2>5
  <1>4. L \in Good
    <2> HIDE DEF Good, L
    <2> QED
      BY <1>0, <1>2, <1>3, BoundedInduction
  <1>5. ASSUME NEW i \in 1..(L + 1) PROVE ReadFrom[i] \in Seq(Pieces)
    <2>1. L + 1 - i \in 0..L /\ L + 1 - (L + 1 - i) = i
      BY <1>0
    <2> QED
      BY <1>4, <2>1
  <1> QED
    BY <1>5

(* A frame that stands at a place is read there, and the loop goes on at   *)
(* the next.                                                               *)
LEMMA FrameRead ==
  ASSUME Typed, NEW i \in 1..(Len(wire) + 1), NEW next \in 1..(Len(wire) + 1),
         NEW n \in 1..Calls, lens[n] < Modulus, FrameAt(i, n),
         next = i + HeaderLen + lens[n]
  PROVE  /\ ReadFrom[i] = <<Whole(n)>> \o ReadFrom[next]
         /\ Whole(n) \in Pieces
  <1> USE Numbers
  <1>1. lens[n] \in Nat
    BY Elements
  <1>2. \A j \in 0..(HeaderLen + lens[n] - 1) : wire[i + j] = <<n, j>>
    BY DEF FrameAt
  <1>3. /\ ~(i + HeaderLen - 1 > Len(wire)) /\ ~(next - 1 > Len(wire))
        /\ 0 \in 0..(HeaderLen + lens[n] - 1) /\ i + 0 = i
        /\ \A k \in 0..(HeaderLen - 1) : k \in 0..(HeaderLen + lens[n] - 1)
    <2> DEFINE l == lens[n]
               top == Len(wire)
    <2>1. /\ l \in Nat /\ top \in Nat /\ HeaderLen \in Nat /\ HeaderLen >= 1
          /\ i \in 1..(top + 1) /\ next \in 1..(top + 1) /\ next = i + HeaderLen + l
      BY <1>1
    <2> HIDE DEF l, top
    <2>2. /\ ~(i + HeaderLen - 1 > top) /\ ~(next - 1 > top)
          /\ 0 \in 0..(HeaderLen + l - 1) /\ i + 0 = i
          /\ \A k \in 0..(HeaderLen - 1) : k \in 0..(HeaderLen + l - 1)
      BY <2>1
    <2> QED
      BY <2>2 DEF l, top
  <1>4. wire[i][1] = n
    <2>1. wire[i] = <<n, 0>>
      BY <1>2, <1>3
    <2> QED
      BY <2>1
  <1>5. IsHeader(i)
    BY <1>2, <1>3, <1>4 DEF IsHeader
  <1>6. After(i) = next
    <2>1. Announced(n) = lens[n]
      BY <1>1, Remainder DEF Announced
    <2> QED
      BY <1>4, <2>1 DEF After
  <1>7. SubSeq(wire, i + HeaderLen, next - 1) = Whole(n) /\ Whole(n) \in Pieces
    <2> DEFINE B == (1..Calls) \X Nat
               a == i + HeaderLen
               b == next - 1
               l == lens[n]
    <2>1. /\ wire \in Seq(B) /\ a \in Nat /\ b \in Int /\ a >= 1 /\ b <= Len(wire)
          /\ l \in Nat /\ b = a + l - 1 /\ HeaderLen \in Nat /\ i \in Nat
      <3>1. wire \in Seq(B)
        BY DEF Typed
      <3>2. /\ i \in Nat /\ i >= 1 /\ next \in Nat /\ next <= Len(wire) + 1
            /\ HeaderLen \in Nat /\ l \in Nat
        BY <1>1
      <3> HIDE DEF B, l
      <3>3. next = i + HeaderLen + l
        BY DEF l
      <3>4. a \in Nat /\ b \in Int /\ a >= 1 /\ b <= Len(wire) /\ b = a + l - 1
        <4> DEFINE top == Len(wire)
        <4>1. top \in Nat /\ next <= top + 1
          BY <3>2
        <4> HIDE DEF top
        <4>2. next - 1 <= top
          BY <3>2, <4>1
        <4>3. /\ i \in Nat /\ i >= 1 /\ next \in Nat /\ HeaderLen \in Nat
              /\ l \in Nat /\ next = i + HeaderLen + l
          BY <3>2, <3>3
        <4>4. a \in Nat /\ a >= 1
          BY <4>3
        <4>5. b \in Int /\ b = a + l - 1
          <5> HIDE DEF a
          <5>1. a \in Nat /\ l \in Nat /\ next = a + l
            BY <4>3, <4>4 DEF a
          <5> QED
            BY <5>1
        <4>6. b <= top
          BY <4>2
        <4> QED
          BY <4>4, <4>5, <4>6 DEF top
      <3> HIDE DEF a, b
      <3> QED
        BY <3>1, <3>2, <3>4
    <2>2. \A k \in 1..l : wire[a + k - 1] = <<n, HeaderLen + k - 1>>
      <3> SUFFICES ASSUME NEW k \in 1..l
                   PROVE  wire[a + k - 1] = <<n, HeaderLen + k - 1>>
        OBVIOUS
      <3> DEFINE j == HeaderLen + k - 1
      <3>1. j \in 0..(HeaderLen + l - 1) /\ i + j = a + k - 1
        <4> HIDE DEF l
        <4> QED
          BY <2>1
      <3> HIDE DEF a, j
      <3>2. wire[i + j] = <<n, j>>
        BY <1>2, <3>1
      <3> QED
        BY <3>1, <3>2 DEF j
    <2>3. Whole(n) = [k \in 1..l |-> <<n, HeaderLen + k - 1>>]
      <3>1. (HeaderLen + l - 1) + 1 - HeaderLen = l
        <4> HIDE DEF l
        <4> QED
          BY <2>1
      <3> QED
        BY <3>1 DEF Whole, Payload, Bytes
    <2> HIDE DEF a, b, l
    <2>4. SubSeq(wire, a, b) = [k \in 1..l |-> wire[a + k - 1]] /\ SubSeq(wire, a, b) \in Seq(B)
      <3>1. b - a + 1 = l
        BY <2>1
      <3> HIDE DEF B
      <3>2. \A k \in 1..Len(wire) : wire[k] \in B
        BY <2>1
      <3>3. /\ Len(SubSeq(wire, a, b)) = l
            /\ SubSeq(wire, a, b) = [k \in 1..l |-> wire[a + k - 1]]
        BY <2>1, <3>1
      <3>4. \A k \in 1..l : wire[a + k - 1] \in B
        BY <2>1, <3>2
      <3> QED
        BY <2>1, <3>3, <3>4
    <2>5. [k \in 1..l |-> wire[a + k - 1]] = [k \in 1..l |-> <<n, HeaderLen + k - 1>>]
      BY <2>2
    <2>6. SubSeq(wire, a, b) = Whole(n) /\ Whole(n) \in Seq(B)
      BY <2>3, <2>4, <2>5
    <2> QED
      BY <2>6 DEF a, b, B, Pieces
  <1>8. ReadFrom[i] = ReadAt(ReadFrom, i)
    BY Reads
  <1>9. ReadAt(ReadFrom, i) = <<Whole(n)>> \o ReadFrom[next]
    BY <1>3, <1>5, <1>6, <1>7 DEF ReadAt
  <1> QED
    BY <1>7, <1>8, <1>9

(* The first n payloads sent intact.                                       *)
Sent(n) == [k \in 1..n |-> Whole(finished[k])]

LEMMA SentNext ==
  ASSUME NEW n \in Nat, \A k \in 1..(n + 1) : Whole(finished[k]) \in Pieces
  PROVE  /\ Sent(n) \in Seq(Pieces) /\ Len(Sent(n)) = n
         /\ Sent(n + 1) = Append(Sent(n), Whole(finished[n + 1]))
  <1>1. Sent(n) \in Seq(Pieces) /\ Len(Sent(n)) = n
        /\ \A k \in 1..n : Sent(n)[k] = Whole(finished[k])
    BY DEF Sent
  <1> DEFINE a == Append(Sent(n), Whole(finished[n + 1]))
             q == Sent(n)
             x == Whole(finished[n + 1])
  <1>2. /\ a \in Seq(Pieces) /\ Len(a) = n + 1 /\ a[n + 1] = x
        /\ \A k \in 1..n : a[k] = q[k]
    <2>1. q \in Seq(Pieces) /\ x \in Pieces /\ Len(q) = n /\ a = Append(q, x)
      BY <1>1
    <2> HIDE DEF a, q, x
    <2> QED
      BY <2>1
  <1>3. \A k \in 1..(n + 1) : a[k] = Whole(finished[k])
    <2>1. \A k \in 1..(n + 1) : k \in 1..n \/ k = n + 1
      OBVIOUS
    <2> HIDE DEF a
    <2> QED
      BY <1>1, <1>2, <2>1
  <1> HIDE DEF a
  <1>4. a = [k \in 1..(n + 1) |-> a[k]]
    BY <1>2
  <1>5. a = Sent(n + 1)
    BY <1>3, <1>4 DEF Sent
  <1> QED
    BY <1>1, <1>5 DEF a

(* The peer reads the first frames, and goes on behind them.               *)
LEMMA FramesRead ==
  ASSUME Typed, NEW at, Frames(at)
  PROVE  /\ \A k \in 1..intact : Whole(finished[k]) \in Pieces
         /\ Received = Sent(intact) \o ReadFrom[at[intact + 1]]
  <1> DEFINE Good == { n \in 0..intact : Received = Sent(n) \o ReadFrom[at[n + 1]] }
  <1>0. /\ intact \in Nat /\ Len(wire) \in Nat
        /\ at \in [1..(intact + 1) -> 1..(Len(wire) + 1)] /\ at[1] = 1
    BY Numbers DEF Frames
  <1>1. \A k \in 1..(intact + 1) : at[k] \in 1..(Len(wire) + 1)
    BY <1>0
  <1>2. ASSUME NEW k \in 1..intact
        PROVE  /\ ReadFrom[at[k]] = <<Whole(finished[k])>> \o ReadFrom[at[k + 1]]
               /\ Whole(finished[k]) \in Pieces
    <2>1. /\ finished[k] \in 1..Calls /\ lens[finished[k]] < Modulus
          /\ FrameAt(at[k], finished[k])
          /\ at[k + 1] = at[k] + HeaderLen + lens[finished[k]]
      BY Elements DEF Frames
    <2>2. at[k] \in 1..(Len(wire) + 1) /\ at[k + 1] \in 1..(Len(wire) + 1)
      <3>1. k \in 1..(intact + 1) /\ k + 1 \in 1..(intact + 1)
        BY <1>0
      <3> QED
        BY <1>1, <3>1
    <2> QED
      BY <2>1, <2>2, FrameRead
  <1>3. \A i \in 1..(Len(wire) + 1) : ReadFrom[i] \in Seq(Pieces)
    BY ReadsPieces
  <1>4. 0 \in Good
    <2>1. ReadFrom[1] \in Seq(Pieces)
      BY <1>0, <1>3
    <2>2. Received = ReadFrom[1]
      BY ReceivedReads
    <2>3. Sent(0) = << >>
      BY DEF Sent
    <2> DEFINE r == ReadFrom[1]
    <2>4. << >> \o r = r
      <3>1. r \in Seq(Pieces)
        BY <2>1
      <3> HIDE DEF r
      <3> QED
        BY <3>1
    <2>5. at[0 + 1] = 1 /\ 0 \in 0..intact
      BY <1>0
    <2> QED
      BY <2>2, <2>3, <2>4, <2>5
  <1>5. ASSUME NEW n \in Good, n \in 0..(intact - 1) PROVE n + 1 \in Good
    <2>1. n \in Nat /\ n + 1 \in 1..intact /\ n + 1 \in 0..intact
      BY <1>0, <1>5
    <2>2. /\ Sent(n) \in Seq(Pieces)
          /\ Sent(n + 1) = Append(Sent(n), Whole(finished[n + 1]))
      <3>1. \A k \in 1..(n + 1) : k \in 1..intact
        BY <1>0, <2>1
      <3> QED
        BY <1>2, <2>1, <3>1, SentNext
    <2>3. (n + 1) + 1 \in 1..(intact + 1)
      BY <1>0, <2>1
    <2> DEFINE s == Sent(n)
               x == Whole(finished[n + 1])
               r == ReadFrom[at[(n + 1) + 1]]
    <2>4. /\ s \in Seq(Pieces) /\ x \in Pieces /\ r \in Seq(Pieces)
          /\ Received = s \o (<<x>> \o r) /\ Sent(n + 1) = Append(s, x)
      BY <1>1, <1>2, <1>3, <2>1, <2>2, <2>3
    <2>5. Received = Sent(n + 1) \o r
      <3> HIDE DEF s, x, r
      <3>1. s \in Seq(Pieces) /\ x \in Pieces /\ r \in Seq(Pieces)
        BY <2>4
      <3>2. s \o (<<x>> \o r) = Append(s, x) \o r
        BY <3>1, Regrouped
      <3> QED
        BY <2>4, <3>2
    <2> QED
      BY <2>1, <2>5
  <1>6. intact \in Good
    <2> HIDE DEF Good
    <2> QED
      BY <1>0, <1>4, <1>5, BoundedInduction
  <1> QED
    BY <1>2, <1>6

(* Until a frame is spoilt the peer has read exactly the payloads whose    *)
(* send returned; and the ones sent before it was are what it reads first, *)
(* whatever comes after them (mux.rs:154-164).                             *)
THEOREM ReceivedAsSentSafe == Spec => []ReceivedAsSent
  <1>1. EInv => ReceivedAsSent
    <2> SUFFICES ASSUME EInv PROVE ReceivedAsSent
      OBVIOUS
    <2>1. Typed
      BY DEF EInv
    <2>2. PICK at : Frames(at) /\ (~spoilt => LastFrame(at[intact + 1]))
      BY DEF EInv
    <2>3. /\ intact \in Nat /\ Len(wire) \in Nat /\ off \in Nat
          /\ HeaderLen \in Nat /\ HeaderLen >= 1
      BY <2>1, Numbers
    <2> DEFINE end == at[intact + 1]
               rest == ReadFrom[end]
    <2>4. end \in 1..(Len(wire) + 1)
      BY <2>2, <2>3 DEF Frames
    <2>5. /\ Sent(intact) \in Seq(Pieces) /\ Len(Sent(intact)) = intact
      <3>1. \A k \in 1..intact : Whole(finished[k]) \in Pieces
        BY <2>1, <2>2, FramesRead
      <3> QED
        BY <2>3, <3>1 DEF Sent
    <2>6. rest \in Seq(Pieces)
      BY <2>1, <2>4, ReadsPieces
    <2>7. Received = Sent(intact) \o rest
      BY <2>1, <2>2, FramesRead
    <2>8. ASSUME ~spoilt, send \notin {"payload", "panicked"}
          PROVE  Len(Received) = Len(finished)
      <3>1. intact = Len(finished) /\ Len(wire) + 1 = end + OpenBytes
        BY <2>2, <2>8 DEF LastFrame
      <3>2. OpenBytes < HeaderLen /\ OpenBytes \in Nat
        BY <2>1, <2>3, <2>8 DEF OpenBytes, Open, Typed
      <3>3. end + HeaderLen - 1 > Len(wire)
        <4>1. end \in Nat
          BY <2>4
        <4> HIDE DEF end
        <4> QED
          BY <2>3, <3>1, <3>2, <4>1
      <3>4. rest = << >>
        BY <2>1, <2>4, <3>3, Reads DEF ReadAt
      <3>5. Len(Received) = intact
        <4> DEFINE s == Sent(intact)
        <4>1. s \in Seq(Pieces) /\ Len(s) = intact /\ Received = s \o << >>
          BY <2>5, <2>7, <3>4
        <4> HIDE DEF s
        <4> QED
          BY <4>1
      <3> QED
        BY <3>1, <3>5
    <2>9. IsPrefix(Sent(intact), Received)
      <3> DEFINE s == Sent(intact)
      <3>1. s \in Seq(Pieces) /\ rest \in Seq(Pieces) /\ Received = s \o rest
        BY <2>5, <2>6, <2>7
      <3> HIDE DEF s, rest
      <3> QED
        BY <3>1, PrefixOfJoined DEF s
    <2> QED
      BY <2>8, <2>9 DEF ReceivedAsSent, Sent
  <1> QED
    BY <1>1, EgressInvariant, PTL
=============================================================================
