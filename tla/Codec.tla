------------------------------- MODULE Codec --------------------------------
(***************************************************************************)
(* What the crate's messages look like on the wire, and what it makes of   *)
(* what it reads: Message::to_values and from_iter of the mini-protocols,  *)
(* Values, Version, Point, Tip and the block headers.                      *)
(*                                                                         *)
(* A CBOR value is a pair of its kind and its content; the bytes below it  *)
(* (serde_cbor) are left out.  A decoder returns a set: {m} for Ok(m), and *)
(* {} for an error or a panic, which are one to the driver, as it unwraps  *)
(* the result (protocols.rs:90).  Names of versions, points and so on are  *)
(* the code's.                                                             *)
(*                                                                         *)
(* The machine takes a message to the wire, lets whoever wrote it get one  *)
(* thing wrong, or write what a node writes instead, and reads it.         *)
(***************************************************************************)
EXTENDS Integers, Sequences

CONSTANTS
  Bit,       \* 0x8000
  Word32,    \* 2^32
  Word64,    \* 2^64
  Slots,     \* slots of points
  Numbers,   \* i64 block numbers
  Magics,    \* u32 network magics
  Hashes,    \* hashes, blocks and other byte strings
  MaxPoints  \* bound: points of a FindIntersect

Word16 == 2 * Bit

ASSUME CodecAssumption ==
  /\ Bit \in Nat /\ Bit > 9
  /\ Word32 \in Nat /\ Word32 > Word16
  /\ Word64 \in Nat /\ Word64 > Word32 /\ Word64 % 2 = 0
  /\ Slots \subseteq 0..(Word64 - 1)
  /\ Numbers \subseteq -(Word64 \div 2)..(Word64 \div 2 - 1)
  /\ Magics \subseteq 0..(Word32 - 1)
  /\ MaxPoints \in Nat

VARIABLES
  proto,  \* the mini-protocol, or "header"
  msg,    \* the message meant
  wire,   \* the values on the wire
  how,    \* history: how they differ from the crate's encoding of msg
  got     \* what the crate read, <<set>> when it has read

vars == <<proto, msg, wire, how, got>>

-----------------------------------------------------------------------------
(***************************************************************************)
(* Values, and the readers of Values: a list of kinds that ends with end() *)
(* is compared as a whole, one that does not is a prefix.                  *)
(***************************************************************************)
Integer(n) == <<"integer", n>>
Bytes(b) == <<"bytes", b>>
Array(vs) == <<"array", vs>>
Bool(b) == <<"bool", b>>
Map(pairs) == <<"map", pairs>>
Text == <<"text">>

Starts(vs, kinds) ==
  /\ Len(vs) >= Len(kinds)
  /\ \A i \in 1..Len(kinds) : vs[i][1] = kinds[i]
Shape(vs, kinds) == Starts(vs, kinds) /\ Len(vs) = Len(kinds)

(* `as` casts.  Mutants, here and below: bugs the code could have and has  *)
(* not; none is part of Spec.                                              *)
Uncut(n, word) == n
Unsigned(n, word) == n % word
SignedAsUnsigned(n) == n % Word64
Signed(n) == ((n + Word64 \div 2) % Word64) - Word64 \div 2

(* Points, tips and wrapped headers.                                       *)
Point(slot, hash) == [slot |-> slot, hash |-> hash]
PointValues(p) == <<Integer(p.slot), Bytes(p.hash)>>
PointOf(vs) ==
  IF Shape(vs, <<"integer", "bytes">>)
    THEN {Point(Unsigned(vs[1][2], Word64), vs[2][2])} ELSE {}

Tip(number, slot, hash) ==
  [block_number |-> number, slot_number |-> slot, hash |-> hash]
TipValues(t) ==
  <<Array(<<Integer(t.slot_number), Bytes(t.hash)>>), Integer(t.block_number)>>
TipOfPrefix(vs) ==  \* mutant: no end()
  IF Starts(vs, <<"array", "integer">>)
    THEN { Tip(Signed(vs[2][2]), p.slot, p.hash) : p \in PointOf(vs[1][2]) }
    ELSE {}
TipOf(vs) ==
  IF Shape(vs, <<"array", "integer">>)
    THEN { Tip(Signed(vs[2][2]), p.slot, p.hash) : p \in PointOf(vs[1][2]) }
    ELSE {}

(* The era, written as 0, is read and forgotten.                           *)
WrappedValues(bytes) == <<Integer(0), Bytes(bytes)>>
WrappedOf(vs) == IF Shape(vs, <<"integer", "bytes">>) THEN {vs[2][2]} ELSE {}

PointsOf(vs) == IF vs[1] = "array" THEN PointOf(vs[2]) ELSE {}

(* The loop over FindIntersect's points ends at the first value that is no *)
(* array and has consumed it when end() looks for what is left.            *)
ItemsSkipping(vs) ==  \* mutant: what is no array is skipped
  SelectSeq(vs, LAMBDA v : v[1] = "array")
Items(vs) ==
  IF vs # << >> /\ vs[Len(vs)][1] # "array"
    THEN SubSeq(vs, 1, Len(vs) - 1) ELSE vs
PointListOf(vs) ==
  LET items == Items(vs)
  IN  IF \A i \in 1..Len(items) : PointsOf(items[i]) # {}
        THEN {[i \in 1..Len(items) |-> CHOOSE p \in PointsOf(items[i]) : TRUE]}
        ELSE {}

-----------------------------------------------------------------------------
(***************************************************************************)
(* Block headers: a list within a list, read in the order it is written.   *)
(* The decoder adds the hash of the bytes it was given.                    *)
(***************************************************************************)
Hash(vs) == <<"hash", vs>>

HeaderValues(h) ==
  <<Array(<<
      Integer(h.block_number), Integer(h.slot_number), Bytes(h.prev_hash),
      Bytes(h.node_vkey), Bytes(h.node_vrf_vkey),
      Array(<<Bytes(h.eta_vrf_0), Bytes(h.eta_vrf_1)>>),
      Array(<<Bytes(h.leader_vrf_0), Bytes(h.leader_vrf_1)>>),
      Integer(h.block_size), Bytes(h.block_body_hash), Bytes(h.pool_opcert),
      Integer(h.unknown_0), Integer(h.unknown_1), Bytes(h.unknown_2),
      Integer(h.protocol_major_version), Integer(h.protocol_minor_version)>>)>>

HeaderKinds ==
  <<"integer", "integer", "bytes", "bytes", "bytes", "array", "array",
    "integer", "bytes", "bytes", "integer", "integer", "bytes", "integer",
    "integer">>
PairKinds == <<"bytes", "bytes">>

HeaderFields(a) ==
  [block_number |-> Signed(a[1][2]), slot_number |-> Signed(a[2][2]),
   prev_hash |-> a[3][2], node_vkey |-> a[4][2], node_vrf_vkey |-> a[5][2],
   eta_vrf_0 |-> a[6][2][1][2], eta_vrf_1 |-> a[6][2][2][2],
   leader_vrf_0 |-> a[7][2][1][2], leader_vrf_1 |-> a[7][2][2][2],
   block_size |-> Signed(a[8][2]), block_body_hash |-> a[9][2],
   pool_opcert |-> a[10][2], unknown_0 |-> Signed(a[11][2]),
   unknown_1 |-> Signed(a[12][2]), unknown_2 |-> a[13][2],
   protocol_major_version |-> Signed(a[14][2]),
   protocol_minor_version |-> Signed(a[15][2])]

HeaderOf(vs) ==
  IF /\ Shape(vs, <<"array">>) /\ Shape(vs[1][2], HeaderKinds)
     /\ Shape(vs[1][2][6][2], PairKinds) /\ Shape(vs[1][2][7][2], PairKinds)
    THEN {<<"BlockHeader", HeaderFields(vs[1][2]), Hash(vs)>>} ELSE {}

-----------------------------------------------------------------------------
(***************************************************************************)
(* Handshake: versions and messages.  A proposal is a set of versions with *)
(* their magics, as its map has no order.                                  *)
(***************************************************************************)
Number(v) == IF v[1] = "C2N" THEN Bit + v[2] ELSE v[2]  \* Version::to_u16
FromU16Kept(n) == IF n < Bit THEN <<"N2N", n>> ELSE <<"C2N", n>>  \* mutant
FromU16(n) == IF n < Bit THEN <<"N2N", n>> ELSE <<"C2N", n - Bit>>

Supported == ({"N2N"} \X (1..7)) \cup ({"C2N"} \X (1..9))
InArray(v) == v \in {"N2N"} \X (4..7)

(* Version::to_values, from_values.                                        *)
ParamsInArray(v, magic) ==  \* mutant: for every version
  Array(<<Integer(magic), Bool(FALSE)>>)
Params(v, magic) ==
  IF InArray(v) THEN Array(<<Integer(magic), Bool(FALSE)>>) ELSE Integer(magic)
VersionValues(v, magic) == <<Integer(Number(v)), Params(v, magic)>>
ArrayMagicOf(vs) ==
  IF Starts(vs, <<"integer", "bool">>) /\ ~vs[2][2]
    THEN {Unsigned(vs[1][2], Word32)} ELSE {}
MagicOf(v, params) ==
  CASE InArray(v) /\ params[1] = "array" -> ArrayMagicOf(params[2])
    [] ~InArray(v) /\ params[1] = "integer" -> {Unsigned(params[2], Word32)}
    [] OTHER -> {}
VersionOf(pair) ==
  IF pair[1][1] # "integer" THEN {} ELSE
    UNION { { <<v, magic>> : magic \in MagicOf(v, pair[2]) } :
              v \in { s \in Supported :
                        Number(s) = Unsigned(pair[1][2], Word32) } }

Refuse == <<"Refuse">>
Refusal == Array(<<Integer(2), Integer(0), Text>>)

HandshakeValues(m) ==
  CASE m[1] = "ProposeVersions" ->
         <<Integer(0), Map({ VersionValues(p[1], p[2]) : p \in m[2] })>>
    [] m[1] = "AcceptVersion" ->
         <<Integer(1), Integer(Number(m[2])),
           Array(<<Integer(m[3]), Bool(FALSE)>>)>>
    [] m[1] = "Refuse" -> <<Integer(1), Refusal>>

HandshakeOf(vs) ==
  CASE Starts(vs, <<"integer", "map">>) /\ vs[1][2] = 0 ->
         IF \A pair \in vs[2][2] : VersionOf(pair) # {}
           THEN {<<"ProposeVersions",
                   UNION { VersionOf(pair) : pair \in vs[2][2] }>>}
           ELSE {}
    [] Starts(vs, <<"integer", "integer", "array">>) /\ vs[1][2] = 1 ->
         { <<"AcceptVersion", FromU16(Unsigned(vs[2][2], Word16)), magic>> :
             magic \in ArrayMagicOf(vs[3][2]) }
    [] Starts(vs, <<"integer", "array">>) /\ vs[1][2] = 2 -> {Refuse}
    [] OTHER -> {}

-----------------------------------------------------------------------------
(***************************************************************************)
(* Chain-sync, block-fetch and tx-submission.                              *)
(***************************************************************************)
ChainSyncTags ==
  <<"RequestNext", "AwaitReply", "RollForward", "RollBackward",
    "FindIntersect", "IntersectFound", "IntersectNotFound", "Done">>
BlockFetchTags ==
  <<"RequestRange", "ClientDone", "StartBatch", "NoBlocks", "Block",
    "BatchDone">>
Tag(tags, type) == (CHOOSE k \in 1..Len(tags) : tags[k] = type) - 1

ChainSyncValues(m) ==
  <<Integer(Tag(ChainSyncTags, m[1]))>> \o
  CASE m[1] = "RollForward" ->
         <<Array(WrappedValues(m[2])), Array(TipValues(m[3]))>>
    [] m[1] \in {"RollBackward", "IntersectFound"} ->
         <<Array(PointValues(m[2])), Array(TipValues(m[3]))>>
    [] m[1] = "FindIntersect" ->
         <<Array([i \in 1..Len(m[2]) |-> Array(PointValues(m[2][i]))])>>
    [] m[1] = "IntersectNotFound" -> <<Array(TipValues(m[2]))>>
    [] OTHER -> << >>

BlockFetchValues(m) ==
  <<Integer(Tag(BlockFetchTags, m[1]))>> \o
  CASE m[1] = "RequestRange" ->
         <<Array(PointValues(m[2])), Array(PointValues(m[3]))>>
    [] m[1] = "Block" -> <<Bytes(m[2])>>
    [] OTHER -> << >>

(* What follows the tag, to end().                                         *)
ChainSyncRest(type, vs) ==
  CASE type = "RollForward" /\ Shape(vs, <<"array", "array">>) ->
         { <<type, h, t>> : h \in WrappedOf(vs[1][2]), t \in TipOf(vs[2][2]) }
    [] /\ type \in {"RollBackward", "IntersectFound"}
       /\ Shape(vs, <<"array", "array">>) ->
         { <<type, p, t>> : p \in PointOf(vs[1][2]), t \in TipOf(vs[2][2]) }
    [] type = "FindIntersect" /\ Shape(vs, <<"array">>) ->
         { <<type, ps>> : ps \in PointListOf(vs[1][2]) }
    [] type = "IntersectNotFound" /\ Shape(vs, <<"array">>) ->
         { <<type, t>> : t \in TipOf(vs[1][2]) }
    [] type \in {"RequestNext", "AwaitReply", "Done"} /\ vs = << >> -> {<<type>>}
    [] OTHER -> {}

BlockFetchRest(type, vs) ==
  CASE type = "RequestRange" /\ Shape(vs, <<"array", "array">>) ->
         { <<type, p, q>> : p \in PointOf(vs[1][2]), q \in PointOf(vs[2][2]) }
    [] type = "Block" /\ Shape(vs, <<"bytes">>) -> {<<type, vs[1][2]>>}
    [] type \in {"ClientDone", "StartBatch", "NoBlocks", "BatchDone"}
       /\ vs = << >> -> {<<type>>}
    [] OTHER -> {}

Tagged(vs, tags, RestOf(_, _)) ==
  IF Starts(vs, <<"integer">>) /\ vs[1][2] + 1 \in 1..Len(tags)
    THEN RestOf(tags[vs[1][2] + 1], Tail(vs)) ELSE {}

(* Message::Raw stands for the bytes 82 01 9f ff, an empty reply.          *)
TxSubmissionValues(m) ==
  IF m[1] = "Raw" THEN <<Integer(1), Array(<< >>)>> ELSE m[2]

Encode(p, m) ==
  CASE p = "handshake" -> HandshakeValues(m)
    [] p = "chainsync" -> ChainSyncValues(m)
    [] p = "blockfetch" -> BlockFetchValues(m)
    [] p = "txsubmission" -> TxSubmissionValues(m)
    [] p = "header" -> HeaderValues(m[2])

Decode(p, vs) ==
  CASE p = "handshake" -> HandshakeOf(vs)
    [] p = "chainsync" -> Tagged(vs, ChainSyncTags, ChainSyncRest)
    [] p = "blockfetch" -> Tagged(vs, BlockFetchTags, BlockFetchRest)
    [] p = "txsubmission" -> {<<"Array", vs>>}
    [] p = "header" -> HeaderOf(vs)

-----------------------------------------------------------------------------
(***************************************************************************)
(* The messages.  The fields of a header are all different, with any one   *)
(* of its numbers at an end of its range.                                  *)
(***************************************************************************)
Points == { Point(s, h) : s \in Slots, h \in Hashes }
Tips == { Tip(n, s, h) : n \in Numbers, s \in Slots, h \in Hashes }
Proposals ==
  { {<<v, m>>} : v \in Supported, m \in Magics }
    \cup { {<<<<"N2N", 6>>, m>>, <<<<"N2N", 7>>, m>>} : m \in Magics }
Numeric == {"block_number", "slot_number", "block_size", "unknown_0",
            "unknown_1", "protocol_major_version", "protocol_minor_version"}
PlainHeader ==
  [block_number |-> 1, slot_number |-> 2, prev_hash |-> "a", node_vkey |-> "b",
   node_vrf_vkey |-> "c", eta_vrf_0 |-> "d", eta_vrf_1 |-> "e",
   leader_vrf_0 |-> "f", leader_vrf_1 |-> "g", block_size |-> 3,
   block_body_hash |-> "h", pool_opcert |-> "i", unknown_0 |-> 4,
   unknown_1 |-> 5, unknown_2 |-> "j", protocol_major_version |-> 6,
   protocol_minor_version |-> 7]
BlockHeader(fields) == <<"BlockHeader", fields, Hash(HeaderValues(fields))>>

HandshakeMessages ==
  ({"ProposeVersions"} \X Proposals)
    \cup ({"AcceptVersion"} \X Supported \X Magics) \cup {Refuse}
ChainSyncMessages ==
  { <<t>> : t \in {"RequestNext", "AwaitReply", "Done"} }
    \cup ({"RollForward"} \X Hashes \X Tips)
    \cup ({"RollBackward", "IntersectFound"} \X Points \X Tips)
    \cup ({"IntersectNotFound"} \X Tips)
    \cup ({"FindIntersect"} \X UNION { [1..n -> Points] : n \in 0..MaxPoints })
BlockFetchMessages ==
  { <<t>> : t \in {"ClientDone", "StartBatch", "NoBlocks", "BatchDone"} }
    \cup ({"RequestRange"} \X Points \X Points)
    \cup ({"Block"} \X Hashes)
TxSubmissionMessages == { <<"Raw">>, <<"Array", <<Integer(0), Bool(TRUE)>>>> }
HeaderWith(f, n) == BlockHeader([PlainHeader EXCEPT ![f] = n])
HeaderMessages == { HeaderWith(f, n) : f \in Numeric, n \in Numbers }

Messages(p) ==
  CASE p = "handshake" -> HandshakeMessages
    [] p = "chainsync" -> ChainSyncMessages
    [] p = "blockfetch" -> BlockFetchMessages
    [] p = "txsubmission" -> TxSubmissionMessages
    [] p = "header" -> HeaderMessages

(***************************************************************************)
(* What can be wrong with the wire: somewhere in it a value is missing or  *)
(* too much, of another kind, or a number beyond the width of its field,   *)
(* as far as CBOR goes.                                                    *)
(***************************************************************************)
Shifts == { s * w : s \in {-1, 1}, w \in {Word16, Word32, Word64} }
Wide(n) == { n + s : s \in Shifts } \cap (-Word64)..(Word64 - 1)

Put(vs, i, v) == [vs EXCEPT ![i] = v]
Changed(vs, i, new) == { Put(vs, i, v) : v \in new }

Flat(damage, vs) ==
  CASE damage = "cut" -> IF vs = << >> THEN {} ELSE {SubSeq(vs, 1, Len(vs) - 1)}
    [] damage = "extended" -> { Append(vs, v) : v \in {Integer(0), Text} }
    [] damage = "retyped" ->
         UNION { Changed(vs, i, { v \in {Text, Array(<< >>)} : v[1] # vs[i][1] }) :
                   i \in 1..Len(vs) }
    [] damage = "widened" ->
         UNION { Changed(vs, i, { Integer(n) : n \in Wide(vs[i][2]) }) :
                   i \in { k \in 1..Len(vs) : vs[k][1] = "integer" } }

Inside(V(_), vs) ==
  UNION { Changed(vs, i, { Array(w) : w \in V(vs[i][2]) }) :
            i \in { k \in 1..Len(vs) : vs[k][1] = "array" } }

Exchange(pairs, pair, new) == Map((pairs \ {pair}) \cup {new})
Exchanged(V(_), pairs) ==
  UNION { { Exchange(pairs, pair, new) : new \in { w \in V(pair) : Len(w) = 2 } } :
            pair \in pairs }
InMap(V(_), vs) ==
  UNION { Changed(vs, i, Exchanged(V, vs[i][2])) :
            i \in { k \in 1..Len(vs) : vs[k][1] = "map" } }

Second(damage, vs) ==
  LET Top(s) == Flat(damage, s) IN Flat(damage, vs) \cup Inside(Top, vs)
Damages(damage, vs) ==
  LET Below(s) == Second(damage, s)
  IN  Flat(damage, vs) \cup Inside(Below, vs) \cup InMap(Below, vs)

-----------------------------------------------------------------------------
Init ==
  /\ proto \in {"handshake", "chainsync", "blockfetch", "txsubmission", "header"}
  /\ msg \in Messages(proto)
  /\ wire = Encode(proto, msg)
  /\ how = "own"
  /\ got = << >>

Damage ==
  /\ got = << >> /\ how = "own"
  /\ how' \in {"cut", "extended", "retyped", "widened"}
  /\ wire' \in Damages(how', wire)
  /\ UNCHANGED <<proto, msg, got>>

(* A node gives reasons for a refusal, and accepts with the parameters of  *)
(* the proposal.                                                           *)
FromNode ==
  /\ got = << >> /\ how = "own"
  /\ proto = "handshake"
  /\ how' = "node"
  /\ \/ msg = Refuse /\ wire' = <<Integer(2), Refusal>>
     \/ /\ msg[1] = "AcceptVersion"
        /\ wire' = <<Integer(1)>> \o VersionValues(msg[2], msg[3])
  /\ UNCHANGED <<proto, msg, got>>

Receive ==
  /\ got = << >>
  /\ got' = <<Decode(proto, wire)>>
  /\ UNCHANGED <<proto, msg, wire, how>>

Next == Damage \/ FromNode \/ Receive

Spec == Init /\ [][Next]_vars

-----------------------------------------------------------------------------
Taken == IF got = << >> THEN {} ELSE got[1]

(***************************************************************************)
(* Whatever is on the wire, at most one message is made of it, and its     *)
(* numbers fit their fields.                                               *)
(***************************************************************************)
PointOK(p) == p.slot \in 0..(Word64 - 1)
TipOK(t) ==
  /\ t.slot_number \in 0..(Word64 - 1)
  /\ t.block_number \in -(Word64 \div 2)..(Word64 \div 2 - 1)
MessageOK(p, m) ==
  CASE p = "handshake" /\ m[1] = "AcceptVersion" ->
         m[2][2] \in 0..(Bit - 1) /\ m[3] \in 0..(Word32 - 1)
    [] p = "handshake" /\ m[1] = "ProposeVersions" ->
         \A offer \in m[2] :
           offer[1] \in Supported /\ offer[2] \in 0..(Word32 - 1)
    [] p = "chainsync" /\ m[1] \in {"RollBackward", "IntersectFound"} ->
         PointOK(m[2]) /\ TipOK(m[3])
    [] p = "chainsync" /\ m[1] = "RollForward" -> TipOK(m[3])
    [] p = "chainsync" /\ m[1] = "IntersectNotFound" -> TipOK(m[2])
    [] p = "blockfetch" /\ m[1] = "RequestRange" -> PointOK(m[2]) /\ PointOK(m[3])
    [] OTHER -> TRUE

TypeOK ==
  /\ \A m, n \in Taken : m = n
  /\ \A m \in Taken : MessageOK(proto, m)

(***************************************************************************)
(* What one end of the crate writes, the other reads: the same message,    *)
(* with a header's fields and hash where they were, at the ends of every   *)
(* number's range (the tests message_cbor_works, handshake.rs:399,         *)
(* chainsync.rs:275, blockfetch.rs:260, over all messages).  A refusal is  *)
(* the exception: it is written with the tag of an acceptance              *)
(* (handshake.rs:95) and read as nothing; the refusal of a node is read.   *)
(***************************************************************************)
RoundTrip ==
  got # << >> /\ how = "own" =>
    Taken = CASE msg = <<"Refuse">> -> {}
              [] msg = <<"Raw">> -> {<<"Array", wire>>}
              [] OTHER -> {msg}

(***************************************************************************)
(* A wire that is damaged is never taken for a third message: for what was *)
(* meant, for what it says, or for nothing.  What FindIntersect swallows   *)
(* at the end of its list (chainsync.rs:62) costs just that value: the     *)
(* message made is the one of the list without it.  Numbers beyond their   *)
(* widths are apart.                                                       *)
(***************************************************************************)
Swallowed ==
  /\ proto = "chainsync" /\ Starts(wire, <<"integer", "array">>)
  /\ wire[1][2] = 4
  /\ LET items == wire[2][2]
     IN  items # << >> /\ items[Len(items)][1] # "array"

WithoutLast(items) == SubSeq(items, 1, Len(items) - 1)
Shortened(vs) == <<vs[1], Array(WithoutLast(vs[2][2]))>>

NeverMistaken ==
  how # "widened" =>
    \A m \in Taken :
      \/ m = msg
      \/ Encode(proto, m) = wire
      \/ Swallowed /\ Encode(proto, m) = Shortened(wire)

(***************************************************************************)
(* Where a value is missing, too much or of another kind, the message is   *)
(* refused, at every depth -- by the handshake, which has no end(), only   *)
(* if nothing follows that it does not look at (handshake.rs:50-76).       *)
(***************************************************************************)
Strict ==
  how \in {"cut", "extended", "retyped"} /\ msg \in Taken =>
    how = "extended" /\ (proto = "handshake" \/ Swallowed)

(***************************************************************************)
(* What the client takes for an acceptance is the number and the magic of  *)
(* the wire modulo 2^16 and 2^32 (handshake.rs:61-63): no damage moves one *)
(* to the other's place, but a number out of range is taken for another.   *)
(***************************************************************************)
AcceptanceRead ==
  proto = "handshake" =>
    \A m \in Taken : m[1] = "AcceptVersion" =>
      /\ Number(m[2]) = wire[2][2] % Word16
      /\ m[3] = wire[3][2][1][2] % Word32

(***************************************************************************)
(* A node that accepts with the parameters of the proposal is understood   *)
(* for the versions whose parameters are an array, and for the others is   *)
(* not understood at all (handshake.rs:62, 138-146).                       *)
(***************************************************************************)
ParamsReadBack ==
  got # << >> /\ how = "node" =>
    Taken = IF msg = Refuse \/ InArray(msg[2]) THEN {msg} ELSE {}
=============================================================================
