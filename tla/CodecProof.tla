----------------------------- MODULE CodecProof -----------------------------
(***************************************************************************)
(* What is proved of Codec: for all widths, slots, numbers, magics and     *)
(* hashes, and lists of points of any length, what the crate writes is     *)
(* read as it was meant, and what is damaged is refused or taken for what  *)
(* it says.                                                                *)
(*                                                                         *)
(* In the order of the module: what is read of what is written, type by    *)
(* type; that damage leaves a sound list of values; that of such a list at *)
(* most one message is made, whose numbers fit; what is made of each type  *)
(* of message when it is damaged; and the theorems.  The decoders that go  *)
(* through a list need no induction: they are stated by index.             *)
(***************************************************************************)
EXTENDS Codec, SequenceTheorems, TLAPS

(* A cast to an unsigned type ends in its range (`as u16`, `as u32`, ...). *)
LEMMA CutFits ==
  ASSUME NEW n \in Int, NEW w \in Nat, w > 0
  PROVE  Unsigned(n, w) \in 0..(w - 1)
BY DEF Unsigned

(* ... and leaves a number of that range as it is.                         *)
LEMMA CutKeeps ==
  ASSUME NEW w \in Nat, w > 0, NEW n \in 0..(w - 1)
  PROVE  Unsigned(n, w) = n
BY DEF Unsigned

(* Half of the 64-bit range.                                               *)
LEMMA Halves ==
  /\ Word64 \div 2 \in Nat
  /\ Word64 = 2 * (Word64 \div 2)
  /\ Word64 \div 2 > 10
BY CodecAssumption DEF Word16

(* A cast to i64 ends in its range (protocols.rs:236).                     *)
LEMMA SignedFits ==
  ASSUME NEW n \in Int
  PROVE  Signed(n) \in -(Word64 \div 2)..(Word64 \div 2 - 1)
BY Halves, CodecAssumption DEF Signed

(* ... and leaves a number of that range as it is.                         *)
LEMMA SignedKeeps ==
  ASSUME NEW n \in -(Word64 \div 2)..(Word64 \div 2 - 1)
  PROVE  Signed(n) = n
BY Halves, CodecAssumption DEF Signed

-----------------------------------------------------------------------------
(* The tag of a type is its place in the list of tags.                     *)
LEMMA TagIs ==
  ASSUME NEW tags, NEW k \in 1..Len(tags), Len(tags) \in Nat,
         \A j \in 1..Len(tags) : tags[j] = tags[k] => j = k
  PROVE  Tag(tags, tags[k]) = k - 1
BY DEF Tag

(* The tags that chain-sync writes (chainsync.rs:77-115).                  *)
LEMMA ChainSyncTag ==
  /\ Tag(ChainSyncTags, "RequestNext") = 0
  /\ Tag(ChainSyncTags, "AwaitReply") = 1
  /\ Tag(ChainSyncTags, "RollForward") = 2
  /\ Tag(ChainSyncTags, "RollBackward") = 3
  /\ Tag(ChainSyncTags, "FindIntersect") = 4
  /\ Tag(ChainSyncTags, "IntersectFound") = 5
  /\ Tag(ChainSyncTags, "IntersectNotFound") = 6
  /\ Tag(ChainSyncTags, "Done") = 7
  <1> DEFINE tags == ChainSyncTags
  <1>1. /\ Len(tags) = 8
        /\ tags[1] = "RequestNext" /\ tags[2] = "AwaitReply"
        /\ tags[3] = "RollForward" /\ tags[4] = "RollBackward"
        /\ tags[5] = "FindIntersect" /\ tags[6] = "IntersectFound"
        /\ tags[7] = "IntersectNotFound" /\ tags[8] = "Done"
    BY DEF ChainSyncTags
  <1>2. \A j, k \in 1..8 : tags[j] = tags[k] => j = k
    <2> HIDE DEF tags
    <2> QED
      BY <1>1
  <1>3. ASSUME NEW k \in 1..8 PROVE Tag(tags, tags[k]) = k - 1
    <2> HIDE DEF tags
    <2>1. k \in 1..Len(tags) /\ Len(tags) \in Nat
      BY <1>1
    <2>2. \A j \in 1..Len(tags) : tags[j] = tags[k] => j = k
      BY <1>1, <1>2
    <2> QED
      BY <2>1, <2>2, TagIs
  <1> HIDE DEF tags
  <1>4. /\ Tag(tags, tags[1]) = 0 /\ Tag(tags, tags[2]) = 1
        /\ Tag(tags, tags[3]) = 2 /\ Tag(tags, tags[4]) = 3
        /\ Tag(tags, tags[5]) = 4 /\ Tag(tags, tags[6]) = 5
        /\ Tag(tags, tags[7]) = 6 /\ Tag(tags, tags[8]) = 7
    BY <1>3
  <1> QED
    BY <1>1, <1>4 DEF tags

(* The tags that block-fetch writes (blockfetch.rs:55-68).                 *)
LEMMA BlockFetchTag ==
  /\ Tag(BlockFetchTags, "RequestRange") = 0
  /\ Tag(BlockFetchTags, "ClientDone") = 1
  /\ Tag(BlockFetchTags, "StartBatch") = 2
  /\ Tag(BlockFetchTags, "NoBlocks") = 3
  /\ Tag(BlockFetchTags, "Block") = 4
  /\ Tag(BlockFetchTags, "BatchDone") = 5
  <1> DEFINE tags == BlockFetchTags
  <1>1. /\ Len(tags) = 6
        /\ tags[1] = "RequestRange" /\ tags[2] = "ClientDone"
        /\ tags[3] = "StartBatch" /\ tags[4] = "NoBlocks"
        /\ tags[5] = "Block" /\ tags[6] = "BatchDone"
    BY DEF BlockFetchTags
  <1>2. \A j, k \in 1..6 : tags[j] = tags[k] => j = k
    <2> HIDE DEF tags
    <2> QED
      BY <1>1
  <1>3. ASSUME NEW k \in 1..6 PROVE Tag(tags, tags[k]) = k - 1
    <2> HIDE DEF tags
    <2>1. k \in 1..Len(tags) /\ Len(tags) \in Nat
      BY <1>1
    <2>2. \A j \in 1..Len(tags) : tags[j] = tags[k] => j = k
      BY <1>1, <1>2
    <2> QED
      BY <2>1, <2>2, TagIs
  <1> HIDE DEF tags
  <1>4. /\ Tag(tags, tags[1]) = 0 /\ Tag(tags, tags[2]) = 1
        /\ Tag(tags, tags[3]) = 2 /\ Tag(tags, tags[4]) = 3
        /\ Tag(tags, tags[5]) = 4 /\ Tag(tags, tags[6]) = 5
    BY <1>3
  <1> QED
    BY <1>1, <1>4 DEF tags

(* The tag in front.                                                       *)
LEMMA Prepended ==
  /\ \A a : <<a>> \o << >> = <<a>>
  /\ \A a, b : <<a>> \o <<b>> = <<a, b>>
  /\ \A a, b, c : <<a>> \o <<b, c>> = <<a, b, c>>
  <1>1. ASSUME NEW S, NEW s \in Seq(S), NEW t \in Seq(S)
        PROVE  /\ s \o t \in Seq(S)
               /\ Len(s \o t) = Len(s) + Len(t)
               /\ \A i \in 1..(Len(s) + Len(t)) :
                    (s \o t)[i] = IF i <= Len(s) THEN s[i] ELSE t[i - Len(s)]
    OBVIOUS
  <1>5. ASSUME NEW S, NEW s \in Seq(S), NEW t \in Seq(S), Len(s) = Len(t),
               \A i \in 1..Len(s) : s[i] = t[i]
        PROVE  s = t
    BY <1>5
  <1>2. ASSUME NEW a PROVE <<a>> \o << >> = <<a>>
    BY <1>1
  <1>3. ASSUME NEW a, NEW b PROVE <<a>> \o <<b>> = <<a, b>>
    <2> DEFINE S == {a, b}
               u == <<a>> \o <<b>>
               t == <<a, b>>
    <2>1. <<a>> \in Seq(S) /\ <<b>> \in Seq(S)
      OBVIOUS
    <2>2. u \in Seq(S) /\ Len(u) = 2 /\ u[1] = a /\ u[2] = b
      BY <1>1, <2>1
    <2>3. t \in Seq(S) /\ Len(t) = 2
      OBVIOUS
    <2>4. \A i \in 1..Len(u) : u[i] = t[i]
      BY <2>2
    <2> HIDE DEF u, S, t
    <2>5. u = t
      BY <2>2, <2>3, <2>4, <1>5
    <2> QED
      BY <2>5 DEF u, t
  <1>4. ASSUME NEW a, NEW b, NEW c PROVE <<a>> \o <<b, c>> = <<a, b, c>>
    <2> DEFINE S == {a, b, c}
               u == <<a>> \o <<b, c>>
               t == <<a, b, c>>
    <2>1. <<a>> \in Seq(S) /\ <<b, c>> \in Seq(S)
      OBVIOUS
    <2>2. /\ u \in Seq(S) /\ Len(u) = 3
          /\ u[1] = a /\ u[2] = b /\ u[3] = c
      BY <1>1, <2>1
    <2>3. t \in Seq(S) /\ Len(t) = 3
      OBVIOUS
    <2>4. \A i \in 1..Len(u) : u[i] = t[i]
      BY <2>2
    <2> HIDE DEF u, S, t
    <2>5. u = t
      BY <2>2, <2>3, <2>4, <1>5
    <2> QED
      BY <2>5 DEF u, t
  <1> QED
    BY <1>2, <1>3, <1>4

(* What is written of a message of chain-sync.                             *)
LEMMA ChainSyncWire ==
  /\ \A m : m[1] = "RollForward" => ChainSyncValues(m) =
       <<Integer(2), Array(WrappedValues(m[2])), Array(TipValues(m[3]))>>
  /\ \A m : m[1] = "RollBackward" => ChainSyncValues(m) =
       <<Integer(3), Array(PointValues(m[2])), Array(TipValues(m[3]))>>
  /\ \A m : m[1] = "IntersectFound" => ChainSyncValues(m) =
       <<Integer(5), Array(PointValues(m[2])), Array(TipValues(m[3]))>>
  /\ \A m : m[1] = "FindIntersect" => ChainSyncValues(m) =
       <<Integer(4),
         Array([i \in 1..Len(m[2]) |-> Array(PointValues(m[2][i]))])>>
  /\ \A m : m[1] = "IntersectNotFound" => ChainSyncValues(m) =
       <<Integer(6), Array(TipValues(m[2]))>>
  /\ \A m : m[1] = "RequestNext" => ChainSyncValues(m) = <<Integer(0)>>
  /\ \A m : m[1] = "AwaitReply" => ChainSyncValues(m) = <<Integer(1)>>
  /\ \A m : m[1] = "Done" => ChainSyncValues(m) = <<Integer(7)>>
  <1>1. ASSUME NEW m, m[1] = "RollForward"
        PROVE  ChainSyncValues(m) =
               <<Integer(2), Array(WrappedValues(m[2])), Array(TipValues(m[3]))>>
    BY <1>1, ChainSyncTag, Prepended DEF ChainSyncValues
  <1>2. ASSUME NEW m, m[1] = "RollBackward"
        PROVE  ChainSyncValues(m) =
               <<Integer(3), Array(PointValues(m[2])), Array(TipValues(m[3]))>>
    BY <1>2, ChainSyncTag, Prepended DEF ChainSyncValues
  <1>3. ASSUME NEW m, m[1] = "IntersectFound"
        PROVE  ChainSyncValues(m) =
               <<Integer(5), Array(PointValues(m[2])), Array(TipValues(m[3]))>>
    BY <1>3, ChainSyncTag, Prepended DEF ChainSyncValues
  <1>4. ASSUME NEW m, m[1] = "FindIntersect"
        PROVE  ChainSyncValues(m) =
               <<Integer(4),
                 Array([i \in 1..Len(m[2]) |-> Array(PointValues(m[2][i]))])>>
    BY <1>4, ChainSyncTag, Prepended DEF ChainSyncValues
  <1>5. ASSUME NEW m, m[1] = "IntersectNotFound"
        PROVE  ChainSyncValues(m) =
               <<Integer(6), Array(TipValues(m[2]))>>
    BY <1>5, ChainSyncTag, Prepended DEF ChainSyncValues
  <1>6. ASSUME NEW m, m[1] = "RequestNext"
        PROVE  ChainSyncValues(m) = <<Integer(0)>>
    BY <1>6, ChainSyncTag, Prepended DEF ChainSyncValues
  <1>7. ASSUME NEW m, m[1] = "AwaitReply"
        PROVE  ChainSyncValues(m) = <<Integer(1)>>
    BY <1>7, ChainSyncTag, Prepended DEF ChainSyncValues
  <1>8. ASSUME NEW m, m[1] = "Done"
        PROVE  ChainSyncValues(m) = <<Integer(7)>>
    BY <1>8, ChainSyncTag, Prepended DEF ChainSyncValues
  <1> QED
    BY <1>1, <1>2, <1>3, <1>4, <1>5, <1>6, <1>7, <1>8

(* What is written of a message of block-fetch.                            *)
LEMMA BlockFetchWire ==
  /\ \A m : m[1] = "RequestRange" => BlockFetchValues(m) =
       <<Integer(0), Array(PointValues(m[2])), Array(PointValues(m[3]))>>
  /\ \A m : m[1] = "Block" => BlockFetchValues(m) = <<Integer(4), Bytes(m[2])>>
  /\ \A m : m[1] = "ClientDone" => BlockFetchValues(m) = <<Integer(1)>>
  /\ \A m : m[1] = "StartBatch" => BlockFetchValues(m) = <<Integer(2)>>
  /\ \A m : m[1] = "NoBlocks" => BlockFetchValues(m) = <<Integer(3)>>
  /\ \A m : m[1] = "BatchDone" => BlockFetchValues(m) = <<Integer(5)>>
  <1>1. ASSUME NEW m, m[1] = "RequestRange"
        PROVE  BlockFetchValues(m) =
               <<Integer(0), Array(PointValues(m[2])), Array(PointValues(m[3]))>>
    BY <1>1, BlockFetchTag, Prepended DEF BlockFetchValues
  <1>2. ASSUME NEW m, m[1] = "Block"
        PROVE  BlockFetchValues(m) =
               <<Integer(4), Bytes(m[2])>>
    BY <1>2, BlockFetchTag, Prepended DEF BlockFetchValues
  <1>3. ASSUME NEW m, m[1] = "ClientDone"
        PROVE  BlockFetchValues(m) = <<Integer(1)>>
    BY <1>3, BlockFetchTag, Prepended DEF BlockFetchValues
  <1>4. ASSUME NEW m, m[1] = "StartBatch"
        PROVE  BlockFetchValues(m) = <<Integer(2)>>
    BY <1>4, BlockFetchTag, Prepended DEF BlockFetchValues
  <1>5. ASSUME NEW m, m[1] = "NoBlocks"
        PROVE  BlockFetchValues(m) = <<Integer(3)>>
    BY <1>5, BlockFetchTag, Prepended DEF BlockFetchValues
  <1>6. ASSUME NEW m, m[1] = "BatchDone"
        PROVE  BlockFetchValues(m) = <<Integer(5)>>
    BY <1>6, BlockFetchTag, Prepended DEF BlockFetchValues
  <1> QED
    BY <1>1, <1>2, <1>3, <1>4, <1>5, <1>6

-----------------------------------------------------------------------------
(* A point is read as it was written.                                      *)
LEMMA PointBack ==
  ASSUME NEW p \in Points
  PROVE  PointOf(PointValues(p)) = {p}
  <1>1. PICK s \in Slots, h \in Hashes : p = Point(s, h)
    BY DEF Points
  <1>2. s \in 0..(Word64 - 1) /\ Word64 \in Nat /\ Word64 > 0
    BY CodecAssumption DEF Word16
  <1>3. Unsigned(s, Word64) = s
    BY <1>2, CutKeeps
  <1> QED
    BY <1>1, <1>3
       DEF Point, PointOf, PointValues, Shape, Starts, Integer, Bytes

(* ... and so is a tip, at the ends of its numbers' ranges.                *)
LEMMA TipBack ==
  ASSUME NEW t \in Tips
  PROVE  TipOf(TipValues(t)) = {t}
  <1>1. PICK n \in Numbers, s \in Slots, h \in Hashes : t = Tip(n, s, h)
    BY DEF Tips
  <1>2. Signed(n) = n
    BY SignedKeeps, CodecAssumption
  <1>3. PointOf(<<Integer(s), Bytes(h)>>) = {Point(s, h)}
    <2>1. Point(s, h) \in Points
      BY DEF Points
    <2> QED
      BY <2>1, PointBack DEF Point, PointValues
  <1>4. TipValues(t) = <<Array(<<Integer(s), Bytes(h)>>), Integer(n)>>
    BY <1>1 DEF Tip, TipValues
  <1>5. TipOf(TipValues(t)) =
          { Tip(Signed(n), p.slot, p.hash) : p \in {Point(s, h)} }
    BY <1>3, <1>4 DEF TipOf, Shape, Starts, Array, Integer
  <1> QED
    BY <1>1, <1>2, <1>5 DEF Point

(* ... and a wrapped header.                                               *)
LEMMA WrappedBack == \A b : WrappedOf(WrappedValues(b)) = {b}
BY DEF WrappedOf, WrappedValues, Shape, Starts, Integer, Bytes

(* ... and a list of points, which ends with a point and swallows nothing. *)
LEMMA PointsBack ==
  ASSUME NEW n \in Nat, NEW ps \in [1..n -> Points]
  PROVE  PointListOf([i \in 1..Len(ps) |-> Array(PointValues(ps[i]))]) = {ps}
  <1> DEFINE vs == [i \in 1..Len(ps) |-> Array(PointValues(ps[i]))]
  <1>1. ps \in Seq(Points) /\ Len(ps) = n
    OBVIOUS
  <1>2. Len(vs) = n /\ \A i \in 1..n : vs[i] = Array(PointValues(ps[i]))
    BY <1>1
  <1> HIDE DEF vs
  <1>3. \A i \in 1..n : vs[i][1] = "array" /\ PointsOf(vs[i]) = {ps[i]}
    BY <1>2, PointBack DEF PointsOf, Array
  <1>4. Items(vs) = vs
    <2>1. vs # << >> => n # 0
      BY <1>1 DEF vs
    <2> QED
      BY <1>2, <1>3, <2>1 DEF Items
  <1>5. \A i \in 1..n : (CHOOSE p \in PointsOf(vs[i]) : TRUE) = ps[i]
    BY <1>3
  <1>6. \A i \in 1..Len(vs) : PointsOf(vs[i]) # {}
    BY <1>2, <1>3
  <1>7. PointListOf(vs)
          = {[i \in 1..Len(vs) |-> CHOOSE p \in PointsOf(vs[i]) : TRUE]}
    BY <1>4, <1>6 DEF PointListOf
  <1>8. [i \in 1..Len(vs) |-> CHOOSE p \in PointsOf(vs[i]) : TRUE] = ps
    BY <1>2, <1>5, Zenon
  <1> QED
    BY <1>7, <1>8 DEF vs

-----------------------------------------------------------------------------
(* The number of a version gives the version (handshake.rs:194-206).       *)
LEMMA VersionNumber ==
  ASSUME NEW v \in Supported
  PROVE  /\ v = <<v[1], v[2]>> /\ v[2] \in 1..9
         /\ \/ v[1] = "N2N" /\ Number(v) = v[2] /\ v[2] < Bit
            \/ v[1] = "C2N" /\ Number(v) = Bit + v[2]
         /\ Number(v) \in 0..(Word16 - 1) /\ Number(v) \in 0..(Word32 - 1)
         /\ FromU16(Number(v)) = v
BY CodecAssumption DEF Supported, Number, FromU16, Word16

(* No two versions have the same number.                                   *)
LEMMA NumberInjective ==
  ASSUME NEW v \in Supported, NEW u \in Supported, Number(v) = Number(u)
  PROVE  v = u
  <1>1. v = FromU16(Number(v)) /\ u = FromU16(Number(u))
    BY VersionNumber
  <1> QED
    BY <1>1

(* A network magic fits its cast.                                          *)
LEMMA MagicKept == \A m \in Magics : Unsigned(m, Word32) = m
BY CutKeeps, CodecAssumption DEF Word16

(* Parameters in an array give the magic.                                  *)
LEMMA ArrayMagicBack ==
  ASSUME NEW m \in Magics
  PROVE  ArrayMagicOf(<<Integer(m), Bool(FALSE)>>) = {m}
BY MagicKept DEF ArrayMagicOf, Starts, Integer, Bool

(* What an entry of a proposal is read as, once its number is a version's. *)
LEMMA VersionMade ==
  ASSUME NEW v \in Supported, NEW pair, pair[1] = Integer(Number(v))
  PROVE  VersionOf(pair) = { <<v, x>> : x \in MagicOf(v, pair[2]) }
  <1>1. pair[1][1] = "integer" /\ pair[1][2] = Number(v)
    BY DEF Integer
  <1>2. Unsigned(Number(v), Word32) = Number(v)
    BY VersionNumber, CutKeeps, CodecAssumption DEF Word16
  <1>3. { s \in Supported : Number(s) = Number(v) } = {v}
    BY NumberInjective
  <1>4. VersionOf(pair) = UNION { { <<u, x>> : x \in MagicOf(u, pair[2]) } :
                                    u \in {v} }
    BY <1>1, <1>2, <1>3 DEF VersionOf
  <1> QED
    BY <1>4

(* An entry of a proposal is read as it was written.                       *)
LEMMA VersionBack ==
  ASSUME NEW v \in Supported, NEW m \in Magics
  PROVE  VersionOf(VersionValues(v, m)) = {<<v, m>>}
  <1>1. MagicOf(v, Params(v, m)) = {m}
    <2>1. CASE InArray(v)
      BY <2>1, ArrayMagicBack DEF MagicOf, Params, Array
    <2>2. CASE ~InArray(v)
      BY <2>2, MagicKept DEF MagicOf, Params, Integer
    <2> QED
      BY <2>1, <2>2
  <1> DEFINE pair == VersionValues(v, m)
  <1>2. pair[1] = Integer(Number(v)) /\ pair[2] = Params(v, m)
    BY DEF VersionValues
  <1> HIDE DEF pair
  <1>3. VersionOf(pair) = { <<v, x>> : x \in MagicOf(v, Params(v, m)) }
    BY <1>2, VersionMade
  <1> QED
    BY <1>1, <1>3 DEF pair

(* A header is read as it was written, with the hash of what was read.     *)
LEMMA HeaderBack ==
  ASSUME NEW f \in Numeric, NEW n \in Numbers
  PROVE  LET h == [PlainHeader EXCEPT ![f] = n]
         IN  HeaderOf(HeaderValues(h)) = {BlockHeader(h)}
  <1> DEFINE h == [PlainHeader EXCEPT ![f] = n]
             a == HeaderValues(h)[1][2]
  <1>1. \A g \in Numeric : Signed(h[g]) = h[g]
    <2>1. \A g \in Numeric : h[g] = n \/ h[g] \in 1..7
      BY DEF Numeric, PlainHeader
    <2> QED
      BY <2>1, SignedKeeps, Halves, CodecAssumption
  <1>2. HeaderFields(a) =
    [block_number |-> Signed(h.block_number),
     slot_number |-> Signed(h.slot_number), prev_hash |-> h.prev_hash,
     node_vkey |-> h.node_vkey, node_vrf_vkey |-> h.node_vrf_vkey,
     eta_vrf_0 |-> h.eta_vrf_0, eta_vrf_1 |-> h.eta_vrf_1,
     leader_vrf_0 |-> h.leader_vrf_0, leader_vrf_1 |-> h.leader_vrf_1,
     block_size |-> Signed(h.block_size),
     block_body_hash |-> h.block_body_hash, pool_opcert |-> h.pool_opcert,
     unknown_0 |-> Signed(h.unknown_0), unknown_1 |-> Signed(h.unknown_1),
     unknown_2 |-> h.unknown_2,
     protocol_major_version |-> Signed(h.protocol_major_version),
     protocol_minor_version |-> Signed(h.protocol_minor_version)]
    <2> HIDE DEF h
    <2> QED
      BY DEF HeaderFields, HeaderValues, Integer, Bytes, Array
  <1>3. HeaderFields(a) = h
    BY <1>1, <1>2 DEF Numeric, PlainHeader
  <1>4. HeaderOf(HeaderValues(h))
          = {<<"BlockHeader", HeaderFields(a), Hash(HeaderValues(h))>>}
    <2> HIDE DEF h
    <2> QED
      BY DEF HeaderOf, HeaderValues, HeaderKinds, PairKinds, Shape, Starts,
         Integer, Bytes, Array
  <1> QED
    BY <1>3, <1>4 DEF BlockHeader

-----------------------------------------------------------------------------
(* What stands behind a tag.                                               *)
LEMMA Behind ==
  /\ \A a : Tail(<<a>>) = << >>
  /\ \A a, b : Tail(<<a, b>>) = <<b>>
  /\ \A a, b, c : Tail(<<a, b, c>>) = <<b, c>>
OBVIOUS

(* A known tag of chain-sync leads to the reader of its type.              *)
LEMMA ChainSyncTagged ==
  ASSUME NEW k \in 0..7
  PROVE  LET Rest(vs) == ChainSyncRest(ChainSyncTags[k + 1], vs)
         IN  /\ Decode("chainsync", <<Integer(k)>>) = Rest(<< >>)
             /\ \A a : Decode("chainsync", <<Integer(k), a>>) = Rest(<<a>>)
             /\ \A a, b :
                  Decode("chainsync", <<Integer(k), a, b>>) = Rest(<<a, b>>)
  <1>1. Len(ChainSyncTags) = 8 /\ Len(<<"integer">>) = 1
    BY DEF ChainSyncTags
  <1>2. ASSUME NEW vs, Len(vs) \in Nat, Len(vs) > 0, vs[1] = Integer(k)
        PROVE  Decode("chainsync", vs) = ChainSyncRest(ChainSyncTags[k + 1], Tail(vs))
    <2>1. vs[1][1] = "integer" /\ vs[1][2] = k
      BY <1>2 DEF Integer
    <2>2. Starts(vs, <<"integer">>)
      BY <1>1, <1>2, <2>1 DEF Starts
    <2> QED
      BY <1>1, <2>1, <2>2 DEF Decode, Tagged
  <1>3. Decode("chainsync", <<Integer(k)>>) = ChainSyncRest(ChainSyncTags[k + 1], << >>)
    <2> DEFINE vs == <<Integer(k)>>
    <2>1. Len(vs) \in Nat /\ Len(vs) > 0 /\ vs[1] = Integer(k)
      OBVIOUS
    <2>2. Tail(vs) = << >>
      BY Behind
    <2> HIDE DEF vs
    <2>3. Decode("chainsync", vs) = ChainSyncRest(ChainSyncTags[k + 1], Tail(vs))
      BY <2>1, <1>2
    <2> QED
      BY <2>2, <2>3 DEF vs
  <1>4. ASSUME NEW a
        PROVE  Decode("chainsync", <<Integer(k), a>>)
                 = ChainSyncRest(ChainSyncTags[k + 1], <<a>>)
    <2> DEFINE vs == <<Integer(k), a>>
    <2>1. Len(vs) \in Nat /\ Len(vs) > 0 /\ vs[1] = Integer(k)
      OBVIOUS
    <2>2. Tail(vs) = <<a>>
      BY Behind
    <2> HIDE DEF vs
    <2>3. Decode("chainsync", vs) = ChainSyncRest(ChainSyncTags[k + 1], Tail(vs))
      BY <2>1, <1>2
    <2> QED
      BY <2>2, <2>3 DEF vs
  <1>5. ASSUME NEW a, NEW b
        PROVE  Decode("chainsync", <<Integer(k), a, b>>)
                 = ChainSyncRest(ChainSyncTags[k + 1], <<a, b>>)
    <2> DEFINE vs == <<Integer(k), a, b>>
    <2>1. Len(vs) \in Nat /\ Len(vs) > 0 /\ vs[1] = Integer(k)
      OBVIOUS
    <2>2. Tail(vs) = <<a, b>>
      BY Behind
    <2> HIDE DEF vs
    <2>3. Decode("chainsync", vs) = ChainSyncRest(ChainSyncTags[k + 1], Tail(vs))
      BY <2>1, <1>2
    <2> QED
      BY <2>2, <2>3 DEF vs
  <1> QED
    BY <1>3, <1>4, <1>5

(* ... and one of block-fetch.                                             *)
LEMMA BlockFetchTagged ==
  ASSUME NEW k \in 0..5
  PROVE  LET Rest(vs) == BlockFetchRest(BlockFetchTags[k + 1], vs)
         IN  /\ Decode("blockfetch", <<Integer(k)>>) = Rest(<< >>)
             /\ \A a : Decode("blockfetch", <<Integer(k), a>>) = Rest(<<a>>)
             /\ \A a, b :
                  Decode("blockfetch", <<Integer(k), a, b>>) = Rest(<<a, b>>)
  <1>1. Len(BlockFetchTags) = 6 /\ Len(<<"integer">>) = 1
    BY DEF BlockFetchTags
  <1>2. ASSUME NEW vs, Len(vs) \in Nat, Len(vs) > 0, vs[1] = Integer(k)
        PROVE  Decode("blockfetch", vs) = BlockFetchRest(BlockFetchTags[k + 1], Tail(vs))
    <2>1. vs[1][1] = "integer" /\ vs[1][2] = k
      BY <1>2 DEF Integer
    <2>2. Starts(vs, <<"integer">>)
      BY <1>1, <1>2, <2>1 DEF Starts
    <2> QED
      BY <1>1, <2>1, <2>2 DEF Decode, Tagged
  <1>3. Decode("blockfetch", <<Integer(k)>>) = BlockFetchRest(BlockFetchTags[k + 1], << >>)
    <2> DEFINE vs == <<Integer(k)>>
    <2>1. Len(vs) \in Nat /\ Len(vs) > 0 /\ vs[1] = Integer(k)
      OBVIOUS
    <2>2. Tail(vs) = << >>
      BY Behind
    <2> HIDE DEF vs
    <2>3. Decode("blockfetch", vs) = BlockFetchRest(BlockFetchTags[k + 1], Tail(vs))
      BY <2>1, <1>2
    <2> QED
      BY <2>2, <2>3 DEF vs
  <1>4. ASSUME NEW a
        PROVE  Decode("blockfetch", <<Integer(k), a>>)
                 = BlockFetchRest(BlockFetchTags[k + 1], <<a>>)
    <2> DEFINE vs == <<Integer(k), a>>
    <2>1. Len(vs) \in Nat /\ Len(vs) > 0 /\ vs[1] = Integer(k)
      OBVIOUS
    <2>2. Tail(vs) = <<a>>
      BY Behind
    <2> HIDE DEF vs
    <2>3. Decode("blockfetch", vs) = BlockFetchRest(BlockFetchTags[k + 1], Tail(vs))
      BY <2>1, <1>2
    <2> QED
      BY <2>2, <2>3 DEF vs
  <1>5. ASSUME NEW a, NEW b
        PROVE  Decode("blockfetch", <<Integer(k), a, b>>)
                 = BlockFetchRest(BlockFetchTags[k + 1], <<a, b>>)
    <2> DEFINE vs == <<Integer(k), a, b>>
    <2>1. Len(vs) \in Nat /\ Len(vs) > 0 /\ vs[1] = Integer(k)
      OBVIOUS
    <2>2. Tail(vs) = <<a, b>>
      BY Behind
    <2> HIDE DEF vs
    <2>3. Decode("blockfetch", vs) = BlockFetchRest(BlockFetchTags[k + 1], Tail(vs))
      BY <2>1, <1>2
    <2> QED
      BY <2>2, <2>3 DEF vs
  <1> QED
    BY <1>3, <1>4, <1>5

(* Every message of chain-sync is read as it was written                   *)
(* (chainsync.rs:275).                                                     *)
LEMMA ChainSyncBack ==
  ASSUME NEW m \in Messages("chainsync")
  PROVE  Decode("chainsync", Encode("chainsync", m)) = {m}
  <1> DEFINE vs == ChainSyncValues(m)
             Lists == UNION { [1..n -> Points] : n \in 0..MaxPoints }
  <1>0. /\ Encode("chainsync", m) = vs
        /\ ChainSyncTags[1] = "RequestNext" /\ ChainSyncTags[2] = "AwaitReply"
        /\ ChainSyncTags[3] = "RollForward" /\ ChainSyncTags[4] = "RollBackward"
        /\ ChainSyncTags[5] = "FindIntersect"
        /\ ChainSyncTags[6] = "IntersectFound"
        /\ ChainSyncTags[7] = "IntersectNotFound" /\ ChainSyncTags[8] = "Done"
    BY DEF Encode, ChainSyncTags
  <1>1. \/ m \in { <<t>> : t \in {"RequestNext", "AwaitReply", "Done"} }
        \/ m \in {"RollForward"} \X Hashes \X Tips
        \/ m \in {"RollBackward", "IntersectFound"} \X Points \X Tips
        \/ m \in {"IntersectNotFound"} \X Tips
        \/ m \in {"FindIntersect"} \X Lists
    BY DEF Messages, ChainSyncMessages
  <1> HIDE DEF Lists
  <1>2. CASE m \in { <<t>> : t \in {"RequestNext", "AwaitReply", "Done"} }
    <2>1. PICK t \in {"RequestNext", "AwaitReply", "Done"} : m = <<t>>
      BY <1>2
    <2>2. PICK k \in {0, 1, 7} : vs = <<Integer(k)>> /\ ChainSyncTags[k + 1] = t
      BY <2>1, <1>0, ChainSyncWire
    <2>3. Decode("chainsync", vs) = ChainSyncRest(t, << >>)
      BY <2>2, ChainSyncTagged
    <2> QED
      BY <2>1, <2>3, <1>0 DEF ChainSyncRest
  <1>3. CASE m \in {"RollForward"} \X Hashes \X Tips
    <2>1. PICK h \in Hashes, t \in Tips : m = <<"RollForward", h, t>>
      BY <1>3
    <2>2. vs = <<Integer(2), Array(WrappedValues(h)), Array(TipValues(t))>>
      BY <2>1, ChainSyncWire
    <2>3. Decode("chainsync", vs) = ChainSyncRest("RollForward",
            <<Array(WrappedValues(h)), Array(TipValues(t))>>)
      BY <2>2, <1>0, ChainSyncTagged
    <2>4. Decode("chainsync", vs) =
            { <<"RollForward", g, u>> : g \in {h}, u \in {t} }
      BY <2>3, WrappedBack, TipBack
         DEF ChainSyncRest, Shape, Starts, Array
    <2> QED
      BY <2>1, <2>4, <1>0
  <1>4. CASE m \in {"RollBackward", "IntersectFound"} \X Points \X Tips
    <2>1. PICK y \in {"RollBackward", "IntersectFound"}, p \in Points, t \in Tips :
            m = <<y, p, t>>
      BY <1>4
    <2>2. PICK k \in {3, 5} :
            /\ vs = <<Integer(k), Array(PointValues(p)), Array(TipValues(t))>>
            /\ ChainSyncTags[k + 1] = y
      BY <2>1, <1>0, ChainSyncWire
    <2>3. Decode("chainsync", vs) = ChainSyncRest(y,
            <<Array(PointValues(p)), Array(TipValues(t))>>)
      BY <2>2, <1>0, ChainSyncTagged
    <2>4. Decode("chainsync", vs) = { <<y, q, u>> : q \in {p}, u \in {t} }
      BY <2>3, PointBack, TipBack DEF ChainSyncRest, Shape, Starts, Array
    <2> QED
      BY <2>1, <2>4, <1>0
  <1>5. CASE m \in {"IntersectNotFound"} \X Tips
    <2>1. PICK t \in Tips : m = <<"IntersectNotFound", t>>
      BY <1>5
    <2>2. vs = <<Integer(6), Array(TipValues(t))>>
      BY <2>1, ChainSyncWire
    <2>3. Decode("chainsync", vs)
            = ChainSyncRest("IntersectNotFound", <<Array(TipValues(t))>>)
      BY <2>2, <1>0, ChainSyncTagged
    <2>4. Decode("chainsync", vs) = { <<"IntersectNotFound", u>> : u \in {t} }
      BY <2>3, TipBack DEF ChainSyncRest, Shape, Starts, Array
    <2> QED
      BY <2>1, <2>4, <1>0
  <1>6. CASE m \in {"FindIntersect"} \X Lists
    <2>0. PICK n \in 0..MaxPoints :
            \E ps \in [1..n -> Points] : m = <<"FindIntersect", ps>>
      BY <1>6 DEF Lists
    <2>1. PICK ps \in [1..n -> Points] : m = <<"FindIntersect", ps>>
      BY <2>0
    <2> DEFINE list == [i \in 1..Len(ps) |-> Array(PointValues(ps[i]))]
    <2>2. vs = <<Integer(4), Array(list)>>
      <3>1. m[1] = "FindIntersect" /\ m[2] = ps
        BY <2>1
      <3>2. vs = <<Integer(4),
                   Array([i \in 1..Len(m[2]) |-> Array(PointValues(m[2][i]))])>>
        BY <3>1, ChainSyncWire
      <3> QED
        BY <3>1, <3>2
    <2>3. PointListOf(list) = {ps}
      BY PointsBack, CodecAssumption
    <2> HIDE DEF list
    <2>4. Decode("chainsync", vs) = ChainSyncRest("FindIntersect", <<Array(list)>>)
      BY <2>2, <1>0, ChainSyncTagged
    <2>5. Decode("chainsync", vs) = { <<"FindIntersect", u>> : u \in {ps} }
      BY <2>3, <2>4 DEF ChainSyncRest, Shape, Starts, Array
    <2> QED
      BY <2>1, <2>5, <1>0
  <1> QED
    BY <1>1, <1>2, <1>3, <1>4, <1>5, <1>6

(* Every message of block-fetch is read as it was written                  *)
(* (blockfetch.rs:260).                                                    *)
LEMMA BlockFetchBack ==
  ASSUME NEW m \in Messages("blockfetch")
  PROVE  Decode("blockfetch", Encode("blockfetch", m)) = {m}
  <1> DEFINE vs == BlockFetchValues(m)
             Words == {"ClientDone", "StartBatch", "NoBlocks", "BatchDone"}
  <1>0. /\ Encode("blockfetch", m) = vs
        /\ BlockFetchTags[1] = "RequestRange" /\ BlockFetchTags[2] = "ClientDone"
        /\ BlockFetchTags[3] = "StartBatch" /\ BlockFetchTags[4] = "NoBlocks"
        /\ BlockFetchTags[5] = "Block" /\ BlockFetchTags[6] = "BatchDone"
    BY DEF Encode, BlockFetchTags
  <1>1. \/ m \in { <<t>> : t \in Words }
        \/ m \in {"RequestRange"} \X Points \X Points
        \/ m \in {"Block"} \X Hashes
    BY DEF Messages, BlockFetchMessages
  <1>2. CASE m \in { <<t>> : t \in Words }
    <2>1. PICK t \in Words : m = <<t>>
      BY <1>2
    <2>2. PICK k \in {1, 2, 3, 5} :
            vs = <<Integer(k)>> /\ BlockFetchTags[k + 1] = t
      BY <2>1, <1>0, BlockFetchWire
    <2>3. Decode("blockfetch", vs) = BlockFetchRest(t, << >>)
      BY <2>2, BlockFetchTagged
    <2> QED
      BY <2>1, <2>3, <1>0 DEF BlockFetchRest
  <1>3. CASE m \in {"RequestRange"} \X Points \X Points
    <2>1. PICK p \in Points, q \in Points : m = <<"RequestRange", p, q>>
      BY <1>3
    <2>2. vs = <<Integer(0), Array(PointValues(p)), Array(PointValues(q))>>
      BY <2>1, BlockFetchWire
    <2>3. Decode("blockfetch", vs) = BlockFetchRest("RequestRange",
            <<Array(PointValues(p)), Array(PointValues(q))>>)
      BY <2>2, <1>0, BlockFetchTagged
    <2>4. Decode("blockfetch", vs) =
            { <<"RequestRange", u, v>> : u \in {p}, v \in {q} }
      BY <2>3, PointBack DEF BlockFetchRest, Shape, Starts, Array
    <2> QED
      BY <2>1, <2>4, <1>0
  <1>4. CASE m \in {"Block"} \X Hashes
    <2>1. PICK b \in Hashes : m = <<"Block", b>>
      BY <1>4
    <2>2. vs = <<Integer(4), Bytes(b)>>
      BY <2>1, BlockFetchWire
    <2>3. Decode("blockfetch", vs) = BlockFetchRest("Block", <<Bytes(b)>>)
      BY <2>2, <1>0, BlockFetchTagged
    <2> QED
      BY <2>1, <2>3, <1>0 DEF BlockFetchRest, Shape, Starts, Bytes
  <1> QED
    BY <1>1, <1>2, <1>3, <1>4

(* Every message of the handshake but Refuse is read as it was written     *)
(* (handshake.rs:399); Refuse has the tag of an acceptance                 *)
(* (handshake.rs:95).                                                      *)
LEMMA HandshakeBack ==
  ASSUME NEW m \in Messages("handshake")
  PROVE  Decode("handshake", Encode("handshake", m))
           = IF m = Refuse THEN {} ELSE {m}
  <1> DEFINE vs == HandshakeValues(m)
  <1>0. Decode("handshake", Encode("handshake", m)) = HandshakeOf(vs)
    BY DEF Encode, Decode
  <1>1. \/ m \in {"ProposeVersions"} \X Proposals
        \/ m \in {"AcceptVersion"} \X Supported \X Magics
        \/ m = Refuse
    BY DEF Messages, HandshakeMessages
  <1>2. CASE m \in {"ProposeVersions"} \X Proposals
    <2>1. PICK o \in Proposals : m = <<"ProposeVersions", o>>
      BY <1>2
    <2>2. o \subseteq Supported \X Magics
      BY <2>1 DEF Proposals, Supported
    <2> DEFINE pairs == { VersionValues(p[1], p[2]) : p \in o }
    <2>3. vs = <<Integer(0), Map(pairs)>>
      BY <2>1 DEF HandshakeValues
    <2>4. \A p \in o : VersionOf(VersionValues(p[1], p[2])) = {p}
      BY <2>2, VersionBack
    <2>5. \A pair \in pairs : VersionOf(pair) # {}
      BY <2>4
    <2>6. UNION { VersionOf(pair) : pair \in pairs } = o
      BY <2>4
    <2> HIDE DEF pairs
    <2>7. HandshakeOf(<<Integer(0), Map(pairs)>>) =
            {<<"ProposeVersions", UNION { VersionOf(pair) : pair \in pairs }>>}
      BY <2>5 DEF HandshakeOf, Starts, Integer, Map
    <2>8. m # Refuse
      BY <2>1 DEF Refuse
    <2> QED
      BY <2>1, <2>3, <2>6, <2>7, <2>8, <1>0
  <1>3. CASE m \in {"AcceptVersion"} \X Supported \X Magics
    <2>1. PICK v \in Supported, x \in Magics : m = <<"AcceptVersion", v, x>>
      BY <1>3
    <2> DEFINE params == <<Integer(x), Bool(FALSE)>>
    <2>2. vs = <<Integer(1), Integer(Number(v)), Array(params)>>
      BY <2>1 DEF HandshakeValues
    <2>3. ArrayMagicOf(params) = {x}
      BY ArrayMagicBack
    <2>4. FromU16(Unsigned(Number(v), Word16)) = v
      BY VersionNumber, CutKeeps, CodecAssumption DEF Word16
    <2> HIDE DEF params
    <2>5. HandshakeOf(<<Integer(1), Integer(Number(v)), Array(params)>>) =
            { <<"AcceptVersion", FromU16(Unsigned(Number(v), Word16)), magic>> :
                magic \in ArrayMagicOf(params) }
      BY DEF HandshakeOf, Starts, Integer, Array
    <2>6. m # Refuse
      BY <2>1 DEF Refuse
    <2> QED
      BY <2>1, <2>2, <2>3, <2>4, <2>5, <2>6, <1>0
  <1>4. CASE m = Refuse
    <2>1. vs = <<Integer(1), Refusal>>
      BY <1>4 DEF HandshakeValues, Refuse
    <2>2. HandshakeOf(<<Integer(1), Refusal>>) = {}
      BY DEF HandshakeOf, Starts, Integer, Refusal, Array
    <2> QED
      BY <1>4, <2>1, <2>2, <1>0
  <1> QED
    BY <1>1, <1>2, <1>3, <1>4

(* A node's refusal is read, and a node's acceptance if the parameters of  *)
(* its version are an array (handshake.rs:62).                             *)
LEMMA NodeBack ==
  /\ Decode("handshake", <<Integer(2), Refusal>>) = {Refuse}
  /\ \A v \in Supported, x \in Magics :
       Decode("handshake", <<Integer(1)>> \o VersionValues(v, x))
         = IF InArray(v) THEN {<<"AcceptVersion", v, x>>} ELSE {}
  <1>1. Decode("handshake", <<Integer(2), Refusal>>) = {Refuse}
    BY DEF Decode, HandshakeOf, Starts, Integer, Refusal, Array
  <1>2. ASSUME NEW v \in Supported, NEW x \in Magics
        PROVE  Decode("handshake", <<Integer(1)>> \o VersionValues(v, x))
                 = IF InArray(v) THEN {<<"AcceptVersion", v, x>>} ELSE {}
    <2>1. <<Integer(1)>> \o VersionValues(v, x)
            = <<Integer(1), Integer(Number(v)), Params(v, x)>>
      BY Prepended DEF VersionValues
    <2>2. CASE InArray(v)
      <3>1. Params(v, x) = Array(<<Integer(x), Bool(FALSE)>>)
        BY <2>2 DEF Params
      <3>2. <<"AcceptVersion", v, x>> \in Messages("handshake")
        BY DEF Messages, HandshakeMessages
      <3>3. Encode("handshake", <<"AcceptVersion", v, x>>)
              = <<Integer(1), Integer(Number(v)), Params(v, x)>>
        BY <3>1 DEF Encode, HandshakeValues
      <3>4. <<"AcceptVersion", v, x>> # Refuse
        BY DEF Refuse
      <3> QED
        BY <2>1, <2>2, <3>2, <3>3, <3>4, HandshakeBack
    <2>3. CASE ~InArray(v)
      <3>1. Params(v, x) = Integer(x)
        BY <2>3 DEF Params
      <3>2. HandshakeOf(<<Integer(1), Integer(Number(v)), Integer(x)>>) = {}
        BY DEF HandshakeOf, Starts, Integer
      <3> QED
        BY <2>1, <2>3, <3>1, <3>2 DEF Decode
    <2> QED
      BY <2>2, <2>3
  <1> QED
    BY <1>1, <1>2

(* What the crate makes of a message that it wrote itself.                 *)
Understood(m, vs) ==
  CASE m = <<"Refuse">> -> {}
    [] m = <<"Raw">> -> {<<"Array", vs>>}
    [] OTHER -> {m}

Protos == {"handshake", "chainsync", "blockfetch", "txsubmission", "header"}

(* What the crate makes of what the crate writes.                          *)
LEMMA OwnBack ==
  ASSUME NEW p \in Protos, NEW m \in Messages(p)
  PROVE  Decode(p, Encode(p, m)) = Understood(m, Encode(p, m))
  <1>1. CASE p = "handshake"
    <2>1. m # <<"Raw">>
      BY <1>1 DEF Messages, HandshakeMessages, Refuse
    <2> QED
      BY <1>1, <2>1, HandshakeBack DEF Understood, Refuse
  <1>2. CASE p = "chainsync"
    <2>1. m # <<"Raw">> /\ m # <<"Refuse">>
      BY <1>2 DEF Messages, ChainSyncMessages
    <2> QED
      BY <1>2, <2>1, ChainSyncBack DEF Understood
  <1>3. CASE p = "blockfetch"
    <2>1. m # <<"Raw">> /\ m # <<"Refuse">>
      BY <1>3 DEF Messages, BlockFetchMessages
    <2> QED
      BY <1>3, <2>1, BlockFetchBack DEF Understood
  <1>4. CASE p = "txsubmission"
    <2>1. \/ m = <<"Raw">>
          \/ m = <<"Array", <<Integer(0), Bool(TRUE)>>>>
      <3>1. Messages(p) = {<<"Raw">>, <<"Array", <<Integer(0), Bool(TRUE)>>>>}
        BY <1>4 DEF Messages, TxSubmissionMessages
      <3> QED
        BY <3>1
    <2>2. Decode(p, Encode(p, m)) = {<<"Array", TxSubmissionValues(m)>>}
      BY <1>4 DEF Decode, Encode
    <2>3. CASE m = <<"Raw">>
      <3>1. m # <<"Refuse">>
        BY <2>3
      <3> QED
        BY <1>4, <2>2, <2>3, <3>1 DEF Understood, Encode
    <2>4. CASE m = <<"Array", <<Integer(0), Bool(TRUE)>>>>
      <3>1. m # <<"Refuse">> /\ m # <<"Raw">> /\ m[1] = "Array"
        BY <2>4
      <3>2. TxSubmissionValues(m) = m[2] /\ m = <<"Array", m[2]>>
        BY <2>4, <3>1 DEF TxSubmissionValues
      <3> QED
        BY <2>2, <3>1, <3>2 DEF Understood
    <2> QED
      BY <2>1, <2>3, <2>4
  <1>5. CASE p = "header"
    <2>1. PICK f \in Numeric, n \in Numbers : m = HeaderWith(f, n)
      BY <1>5 DEF Messages, HeaderMessages
    <2> DEFINE h == [PlainHeader EXCEPT ![f] = n]
    <2>2. HeaderOf(HeaderValues(h)) = {BlockHeader(h)}
      BY HeaderBack
    <2> HIDE DEF h
    <2>3. m = BlockHeader(h)
      BY <2>1 DEF h, HeaderWith
    <2>4. m[2] = h /\ m # <<"Raw">> /\ m # <<"Refuse">>
      BY <2>3 DEF BlockHeader
    <2> QED
      BY <1>5, <2>2, <2>3, <2>4 DEF Understood, Decode, Encode
  <1> QED
    BY <1>1, <1>2, <1>3, <1>4, <1>5 DEF Protos

-----------------------------------------------------------------------------
Elems(vs) == { vs[i] : i \in 1..Len(vs) }
List(vs) == Len(vs) \in Nat /\ vs \in Seq(Elems(vs))

Numbered(v) == v[1] = "integer" => v[2] \in Int
Plain(vs) == List(vs) /\ \A i \in 1..Len(vs) : Numbered(vs[i])
Deep(vs) ==
  /\ Plain(vs)
  /\ \A i \in 1..Len(vs) : vs[i][1] = "array" => Plain(vs[i][2])
Entry(pair) == Deep(pair) /\ Len(pair) = 2
Sound(vs) ==
  /\ Plain(vs)
  /\ \A i \in 1..Len(vs) :
       /\ vs[i][1] = "array" => Deep(vs[i][2])
       /\ vs[i][1] = "map" => \A pair \in vs[i][2] : Entry(pair)

(* A sequence is a list.                                                   *)
LEMMA Listed ==
  ASSUME NEW S, NEW vs \in Seq(S)
  PROVE  List(vs)
  <1>1. Len(vs) \in Nat /\ vs \in [1..Len(vs) -> Elems(vs)]
    BY DEF Elems
  <1> QED
    BY <1>1 DEF List

(* Tuples are lists.                                                       *)
LEMMA Tuples ==
  /\ List(<< >>)
  /\ \A a : List(<<a>>)
  /\ \A a, b : List(<<a, b>>)
  /\ \A a, b, c : List(<<a, b, c>>)
  <1>1. << >> \in Seq({})
    OBVIOUS
  <1>2. ASSUME NEW a PROVE <<a>> \in Seq({a})
    OBVIOUS
  <1>3. ASSUME NEW a, NEW b PROVE <<a, b>> \in Seq({a, b})
    OBVIOUS
  <1>4. ASSUME NEW a, NEW b, NEW c PROVE <<a, b, c>> \in Seq({a, b, c})
    OBVIOUS
  <1> QED
    BY <1>1, <1>2, <1>3, <1>4, Listed

(* A list with one value replaced.                                         *)
LEMMA Replaced ==
  ASSUME NEW vs, List(vs), NEW i \in 1..Len(vs), NEW v
  PROVE  LET w == Put(vs, i, v)
         IN  /\ List(w) /\ Len(w) = Len(vs)
             /\ \A k \in 1..Len(vs) : w[k] = IF k = i THEN v ELSE vs[k]
  <1> DEFINE w == Put(vs, i, v)
             S == Elems(vs)
  <1>1. Len(vs) \in Nat /\ vs \in Seq(S)
    BY DEF List
  <1>2. /\ w \in Seq(S \cup {v}) /\ Len(w) = Len(vs)
        /\ \A k \in 1..Len(vs) : w[k] = IF k = i THEN v ELSE vs[k]
    <2> HIDE DEF S
    <2> QED
      BY <1>1 DEF Put
  <1> QED
    BY <1>2, Listed

Harm == {"cut", "extended", "retyped", "widened"}

(* A list that is cut, extended, or has a value retyped or widened.        *)
LEMMA CutFlat ==
  ASSUME NEW vs, List(vs), NEW w \in Flat("cut", vs)
  PROVE  /\ List(w) /\ Len(vs) > 0 /\ Len(w) = Len(vs) - 1
         /\ \A i \in 1..Len(w) : i \in 1..Len(vs) /\ w[i] = vs[i]
  <1> DEFINE S == Elems(vs)
             n == Len(vs)
             u == SubSeq(vs, 1, n - 1)
  <1>1. n \in Nat /\ vs \in Seq(S)
    BY DEF List
  <1>2. w = u /\ n # 0
    BY <1>1 DEF Flat
  <1>3. \A k \in 1..(n - 1) : vs[k] \in S
    BY DEF Elems
  <1>4. /\ u \in Seq(S)
        /\ Len(u) = IF 1 <= n - 1 THEN n - 1 - 1 + 1 ELSE 0
        /\ \A i \in 1..(n - 1 - 1 + 1) : u[i] = vs[1 + i - 1]
    <2>1. 1 \in Int /\ n - 1 \in Int
      BY <1>1
    <2> HIDE DEF n, S
    <2> QED
      BY <1>3, <2>1, SubSeqProperties
  <1> HIDE DEF u, S
  <1>5. List(w)
    BY <1>2, <1>4, Listed
  <1> HIDE DEF n
  <1>6. /\ n > 0 /\ Len(w) = n - 1
        /\ \A i \in 1..Len(w) : i \in 1..n /\ w[i] = vs[i]
    BY <1>1, <1>2, <1>4
  <1> QED
    BY <1>5, <1>6 DEF n

(* ... that is extended,                                                   *)
LEMMA ExtendedFlat ==
  ASSUME NEW vs, List(vs), NEW w \in Flat("extended", vs)
  PROVE  /\ List(w) /\ Len(w) = Len(vs) + 1
         /\ \A i \in 1..Len(vs) : w[i] = vs[i]
         /\ w[Len(w)] \in {Integer(0), Text}
  <1> DEFINE S == Elems(vs)
             n == Len(vs)
  <1>1. n \in Nat /\ vs \in Seq(S)
    BY DEF List
  <1>2. PICK v \in {Integer(0), Text} : w = Append(vs, v)
    BY DEF Flat
  <1> DEFINE T == S \cup {v}
  <1>3. vs \in Seq(T) /\ v \in T
    BY <1>1
  <1> HIDE DEF T
  <1>4. /\ w \in Seq(T) /\ Len(w) = n + 1
        /\ \A i \in 1..n : w[i] = vs[i]
        /\ w[n + 1] = v
    BY <1>1, <1>2, <1>3
  <1> QED
    BY <1>2, <1>4, Listed

(* ... in which a value is of another kind,                                *)
LEMMA RetypedFlat ==
  ASSUME NEW vs, List(vs), NEW w \in Flat("retyped", vs)
  PROVE  /\ List(w) /\ Len(w) = Len(vs)
         /\ \E i \in 1..Len(vs) :
              /\ w[i] \in {Text, Array(<< >>)} /\ w[i][1] # vs[i][1]
              /\ \A k \in 1..Len(vs) : k # i => w[k] = vs[k]
  <1>1. PICK i \in 1..Len(vs) :
          \E v \in {Text, Array(<< >>)} : v[1] # vs[i][1] /\ w = Put(vs, i, v)
    BY DEF Flat, Changed
  <1>2. PICK v \in {Text, Array(<< >>)} : v[1] # vs[i][1] /\ w = Put(vs, i, v)
    BY <1>1
  <1>3. /\ List(w) /\ Len(w) = Len(vs)
        /\ \A k \in 1..Len(vs) : w[k] = IF k = i THEN v ELSE vs[k]
    BY <1>2, Replaced
  <1> QED
    BY <1>2, <1>3

(* ... or in which a number is out of range.                               *)
LEMMA WidenedFlat ==
  ASSUME NEW vs, List(vs), NEW w \in Flat("widened", vs)
  PROVE  /\ List(w) /\ Len(w) = Len(vs)
         /\ \E x \in Int : \A k \in 1..Len(vs) : w[k] = vs[k] \/ w[k] = Integer(x)
  <1>1. PICK i \in 1..Len(vs) :
          \E x \in Wide(vs[i][2]) : w = Put(vs, i, Integer(x))
    BY DEF Flat, Changed
  <1>2. PICK x \in Wide(vs[i][2]) : w = Put(vs, i, Integer(x))
    BY <1>1
  <1>3. x \in Int
    BY CodecAssumption DEF Wide
  <1>4. /\ List(w) /\ Len(w) = Len(vs)
        /\ \A k \in 1..Len(vs) : w[k] = IF k = i THEN Integer(x) ELSE vs[k]
    BY <1>2, Replaced
  <1> QED
    BY <1>3, <1>4

(* What one damage makes of a list, whichever it is.                       *)
LEMMA Flattened ==
  ASSUME NEW damage \in Harm, NEW vs, Plain(vs), NEW w \in Flat(damage, vs)
  PROVE  /\ List(w)
         /\ \A i \in 1..Len(w) :
              \/ i \in 1..Len(vs) /\ w[i] = vs[i]
              \/ w[i] \in {Integer(0), Text, Array(<< >>)}
              \/ \E n \in Int : w[i] = Integer(n)
  <1>0. List(vs) /\ Len(vs) \in Nat
    BY DEF Plain, List
  <1>1. CASE damage = "cut"
    BY <1>0, <1>1, CutFlat
  <1>2. CASE damage = "extended"
    BY <1>0, <1>2, ExtendedFlat
  <1>3. CASE damage = "retyped"
    BY <1>0, <1>3, RetypedFlat
  <1>4. CASE damage = "widened"
    BY <1>0, <1>4, WidenedFlat
  <1> QED
    BY <1>1, <1>2, <1>3, <1>4 DEF Harm

(* A list that is damaged is still made of numbers where it says so, at    *)
(* every depth.                                                            *)
LEMMA FlatKeeps ==
  ASSUME NEW damage \in Harm, NEW vs, NEW w \in Flat(damage, vs)
  PROVE  /\ Plain(vs) => Plain(w)
         /\ Deep(vs) => Deep(w)
         /\ Sound(vs) => Sound(w)
  <1>1. Plain(<< >>) /\ Deep(<< >>)
    BY Tuples DEF Plain, Deep
  <1>2. Plain(vs) => Plain(w)
    BY Flattened DEF Plain, Numbered, Integer, Text, Array
  <1>3. \A k \in 1..Len(w) : Plain(vs) =>
          \/ k \in 1..Len(vs) /\ w[k] = vs[k]
          \/ w[k][1] # "map" /\ (w[k][1] = "array" => w[k][2] = << >>)
    BY Flattened DEF Integer, Text, Array
  <1>4. Deep(vs) => Deep(w)
    BY <1>1, <1>2, <1>3 DEF Deep
  <1>5. Sound(vs) => Sound(w)
    BY <1>1, <1>2, <1>3 DEF Sound
  <1> QED
    BY <1>2, <1>4, <1>5

(* Where the damage is: in the list itself, in a list within it, or in an  *)
(* entry of a map within it.                                               *)
Within(vs, i, v, w) ==
  /\ List(w) /\ Len(w) = Len(vs)
  /\ \A k \in 1..Len(vs) : w[k] = IF k = i THEN v ELSE vs[k]

(* ... for a list of lists,                                                *)
LEMMA SecondCases ==
  ASSUME NEW damage, NEW vs, List(vs), NEW w \in Second(damage, vs)
  PROVE  \/ w \in Flat(damage, vs)
         \/ \E i \in 1..Len(vs) :
              /\ vs[i][1] = "array"
              /\ \E u \in Flat(damage, vs[i][2]) : Within(vs, i, Array(u), w)
  <1>1. \/ w \in Flat(damage, vs)
        \/ \E i \in 1..Len(vs) :
             /\ vs[i][1] = "array"
             /\ \E u \in Flat(damage, vs[i][2]) : w = Put(vs, i, Array(u))
    BY DEF Second, Inside, Changed
  <1> QED
    BY <1>1, Replaced DEF Within

(* ... and for a message.                                                  *)
LEMMA DamagesCases ==
  ASSUME NEW damage, NEW vs, List(vs), NEW w \in Damages(damage, vs)
  PROVE  \/ w \in Flat(damage, vs)
         \/ \E i \in 1..Len(vs) :
              /\ vs[i][1] = "array"
              /\ \E u \in Second(damage, vs[i][2]) : Within(vs, i, Array(u), w)
         \/ \E i \in 1..Len(vs) :
              /\ vs[i][1] = "map"
              /\ \E pair \in vs[i][2] : \E new \in Second(damage, pair) :
                   Len(new) = 2 /\ Within(vs, i, Exchange(vs[i][2], pair, new), w)
  <1> DEFINE Below(s) == Second(damage, s)
  <1>1. \/ w \in Flat(damage, vs)
        \/ w \in Inside(Below, vs)
        \/ w \in InMap(Below, vs)
    BY DEF Damages
  <1>2. w \in Inside(Below, vs) => \E i \in 1..Len(vs) :
          /\ vs[i][1] = "array"
          /\ \E u \in Second(damage, vs[i][2]) : w = Put(vs, i, Array(u))
    BY DEF Inside, Changed
  <1>3. w \in InMap(Below, vs) => \E i \in 1..Len(vs) :
          /\ vs[i][1] = "map"
          /\ \E pair \in vs[i][2] : \E new \in Second(damage, pair) :
               Len(new) = 2 /\ w = Put(vs, i, Exchange(vs[i][2], pair, new))
    BY DEF InMap, Changed, Exchanged
  <1> HIDE DEF Below
  <1> QED
    BY <1>1, <1>2, <1>3, Replaced DEF Within

(* Damage inside a list of lists leaves it one.                            *)
LEMMA SecondKeeps ==
  ASSUME NEW damage \in Harm, NEW vs, Deep(vs), NEW w \in Second(damage, vs)
  PROVE  Deep(w)
  <1>1. CASE w \in Flat(damage, vs)
    BY <1>1, FlatKeeps
  <1>2. CASE w \notin Flat(damage, vs)
    <2>1. PICK i \in 1..Len(vs) :
            /\ vs[i][1] = "array"
            /\ \E u \in Flat(damage, vs[i][2]) : Within(vs, i, Array(u), w)
      BY <1>2, SecondCases DEF Deep, Plain
    <2>2. PICK u \in Flat(damage, vs[i][2]) : Within(vs, i, Array(u), w)
      BY <2>1
    <2>3. Plain(u)
      BY <2>1, FlatKeeps DEF Deep
    <2> QED
      BY <2>2, <2>3 DEF Within, Deep, Plain, Numbered, Array
  <1> QED
    BY <1>1, <1>2

(* Damage anywhere in a message leaves it a sound list of values.          *)
LEMMA DamagesKeep ==
  ASSUME NEW damage \in Harm, NEW vs, Sound(vs), NEW w \in Damages(damage, vs)
  PROVE  Sound(w)
  <1>1. ASSUME NEW i \in 1..Len(vs), NEW v, Within(vs, i, v, w),
               \/ \E u : v = Array(u) /\ Deep(u)
               \/ \E pairs : v = Map(pairs) /\ \A pair \in pairs : Entry(pair)
        PROVE  Sound(w)
    <2>1. /\ Numbered(v)
          /\ v[1] = "array" => Deep(v[2])
          /\ v[1] = "map" => \A pair \in v[2] : Entry(pair)
      BY <1>1 DEF Numbered, Array, Map
    <2> QED
      BY <1>1, <2>1 DEF Within, Sound, Plain
  <1>2. CASE w \in Flat(damage, vs)
    BY <1>2, FlatKeeps
  <1>3. ASSUME NEW i \in 1..Len(vs), vs[i][1] = "array",
               NEW u \in Second(damage, vs[i][2]), Within(vs, i, Array(u), w)
        PROVE  Sound(w)
    BY <1>1, <1>3, SecondKeeps DEF Sound
  <1>4. ASSUME NEW i \in 1..Len(vs), vs[i][1] = "map", NEW pair \in vs[i][2],
               NEW new \in Second(damage, pair), Len(new) = 2,
               Within(vs, i, Exchange(vs[i][2], pair, new), w)
        PROVE  Sound(w)
    <2>1. \A p \in vs[i][2] : Entry(p)
      BY <1>4 DEF Sound
    <2>2. Entry(new)
      BY <1>4, <2>1, SecondKeeps DEF Entry
    <2> DEFINE pairs == (vs[i][2] \ {pair}) \cup {new}
    <2>3. \A p \in pairs : Entry(p)
      BY <2>1, <2>2
    <2> HIDE DEF pairs
    <2>4. Within(vs, i, Map(pairs), w)
      BY <1>4 DEF pairs, Exchange
    <2> QED
      BY <1>1, <2>3, <2>4
  <1> QED
    BY <1>2, <1>3, <1>4, DamagesCases DEF Sound, Plain

-----------------------------------------------------------------------------
(* The kinds of values.                                                    *)
LEMMA Leaves ==
  /\ \A n \in Int : Integer(n)[1] = "integer" /\ Integer(n)[2] \in Int
  /\ \A b : Bytes(b)[1] = "bytes"
  /\ \A b : Bool(b)[1] = "bool"
  /\ Text[1] = "text"
  /\ \A l : Array(l)[1] = "array" /\ Array(l)[2] = l
  /\ \A l : Map(l)[1] = "map" /\ Map(l)[2] = l
BY DEF Integer, Bytes, Bool, Text, Array, Map

(* What the crate writes is sound: points,                                 *)
LEMMA PointSound ==
  ASSUME NEW p \in Points
  PROVE  /\ Plain(PointValues(p)) /\ Deep(PointValues(p))
         /\ \A n \in Int : Deep(<<Array(PointValues(p)), Integer(n)>>)
  <1>1. PICK s \in Slots, h \in Hashes : p = Point(s, h)
    BY DEF Points
  <1>2. s \in Int
    BY CodecAssumption
  <1>3. PointValues(p) = <<Integer(s), Bytes(h)>>
    BY <1>1 DEF PointValues, Point
  <1>4. Plain(PointValues(p)) /\ Deep(PointValues(p))
    BY <1>2, <1>3, Tuples, Leaves DEF Plain, Deep, Numbered
  <1> HIDE DEF Points
  <1>5. ASSUME NEW n \in Int PROVE Deep(<<Array(PointValues(p)), Integer(n)>>)
    BY <1>4, Tuples, Leaves DEF Plain, Deep, Numbered
  <1> QED
    BY <1>4, <1>5

(* ... tips,                                                               *)
LEMMA TipSound ==
  ASSUME NEW t \in Tips
  PROVE  Deep(TipValues(t))
  <1>1. PICK n \in Numbers, s \in Slots, h \in Hashes : t = Tip(n, s, h)
    BY DEF Tips
  <1>2. Point(s, h) \in Points /\ n \in Int
    BY CodecAssumption DEF Points
  <1>3. TipValues(t) = <<Array(PointValues(Point(s, h))), Integer(n)>>
    BY <1>1 DEF TipValues, Tip, PointValues, Point
  <1> QED
    BY <1>2, <1>3, PointSound

(* ... wrapped headers,                                                    *)
LEMMA WrappedSound == \A b : Deep(WrappedValues(b))
BY Tuples, Leaves DEF WrappedValues, Plain, Deep, Numbered

(* ... short lists of sound parts,                                         *)
LEMMA SoundTuples ==
  /\ \A n \in Int : Sound(<<Integer(n)>>)
  /\ \A n \in Int : \A b : Sound(<<Integer(n), Bytes(b)>>)
  /\ \A n \in Int : \A b : Sound(<<Integer(n), Bool(b)>>)
  /\ \A n \in Int : \A l : Deep(l) => Sound(<<Integer(n), Array(l)>>)
  /\ \A n \in Int : \A l :
       (\A pair \in l : Entry(pair)) => Sound(<<Integer(n), Map(l)>>)
  /\ \A n, k, j \in Int : Sound(<<Integer(n), Integer(k), Integer(j)>>)
  /\ \A n, k \in Int : \A l :
       Deep(l) => Sound(<<Integer(n), Integer(k), Array(l)>>)
  /\ \A n \in Int : \A k, l :
       Deep(k) /\ Deep(l) => Sound(<<Integer(n), Array(k), Array(l)>>)
  /\ \A l : Deep(l) => Sound(<<Array(l)>>)
  <1>1. ASSUME NEW n \in Int PROVE Sound(<<Integer(n)>>)
    BY Tuples, Leaves DEF Sound, Plain, Numbered
  <1>2. ASSUME NEW n \in Int, NEW b PROVE Sound(<<Integer(n), Bytes(b)>>)
    BY Tuples, Leaves DEF Sound, Plain, Numbered
  <1>3. ASSUME NEW n \in Int, NEW l, Deep(l) PROVE Sound(<<Integer(n), Array(l)>>)
    BY <1>3, Tuples, Leaves DEF Sound, Plain, Numbered
  <1>4. ASSUME NEW n \in Int, NEW l, \A pair \in l : Entry(pair)
        PROVE  Sound(<<Integer(n), Map(l)>>)
    BY <1>4, Tuples, Leaves DEF Sound, Plain, Numbered
  <1>9. ASSUME NEW n \in Int, NEW b PROVE Sound(<<Integer(n), Bool(b)>>)
    BY Tuples, Leaves DEF Sound, Plain, Numbered
  <1>5. ASSUME NEW n \in Int, NEW k \in Int, NEW j \in Int
        PROVE  Sound(<<Integer(n), Integer(k), Integer(j)>>)
    BY Tuples, Leaves DEF Sound, Plain, Numbered
  <1>6. ASSUME NEW n \in Int, NEW k \in Int, NEW l, Deep(l)
        PROVE  Sound(<<Integer(n), Integer(k), Array(l)>>)
    BY <1>6, Tuples, Leaves DEF Sound, Plain, Numbered
  <1>7. ASSUME NEW n \in Int, NEW k, NEW l, Deep(k), Deep(l)
        PROVE  Sound(<<Integer(n), Array(k), Array(l)>>)
    BY <1>7, Tuples, Leaves DEF Sound, Plain, Numbered
  <1>8. ASSUME NEW l, Deep(l) PROVE Sound(<<Array(l)>>)
    BY <1>8, Tuples, Leaves DEF Sound, Plain, Numbered
  <1> QED
    BY <1>1, <1>2, <1>3, <1>4, <1>5, <1>6, <1>7, <1>8, <1>9

(* ... versions with their parameters,                                     *)
LEMMA ParamsSound ==
  ASSUME NEW v \in Supported, NEW x \in Magics
  PROVE  /\ Number(v) \in Int /\ x \in Int
         /\ Deep(<<Integer(x), Bool(FALSE)>>)
         /\ Deep(VersionValues(v, x)) /\ Len(VersionValues(v, x)) = 2
         /\ Sound(<<Integer(1)>> \o VersionValues(v, x))
  <1>1. Number(v) \in Int /\ x \in Int
    BY VersionNumber, CodecAssumption DEF Word16
  <1>2. Plain(<<Integer(x), Bool(FALSE)>>) /\ Deep(<<Integer(x), Bool(FALSE)>>)
    <2>1. \A b : Plain(<<Integer(x), Bool(b)>>) /\ Deep(<<Integer(x), Bool(b)>>)
      BY <1>1, Tuples, Leaves DEF Deep, Plain, Numbered
    <2> QED
      BY <2>1
  <1>3. \/ Params(v, x) = Array(<<Integer(x), Bool(FALSE)>>)
        \/ Params(v, x) = Integer(x)
    BY DEF Params
  <1>4. Deep(VersionValues(v, x))
    <2>1. CASE Params(v, x) = Integer(x)
      BY <1>1, <2>1, Tuples, Leaves DEF VersionValues, Deep, Plain, Numbered
    <2>2. CASE Params(v, x) = Array(<<Integer(x), Bool(FALSE)>>)
      <3> DEFINE l == <<Integer(x), Bool(FALSE)>>
      <3>1. Plain(l)
        BY <1>2
      <3> HIDE DEF l
      <3>2. VersionValues(v, x) = <<Integer(Number(v)), Array(l)>>
        BY <2>2 DEF VersionValues, l
      <3>3. Deep(<<Integer(Number(v)), Array(l)>>)
        BY <1>1, <3>1, Tuples, Leaves DEF Deep, Plain, Numbered
      <3> QED
        BY <3>2, <3>3
    <2> QED
      BY <1>3, <2>1, <2>2
  <1>5. <<Integer(1)>> \o VersionValues(v, x)
          = <<Integer(1), Integer(Number(v)), Params(v, x)>>
    BY Prepended DEF VersionValues
  <1>6. Sound(<<Integer(1), Integer(Number(v)), Params(v, x)>>)
    <2>1. CASE Params(v, x) = Integer(x)
      BY <1>1, <2>1, SoundTuples
    <2>2. CASE Params(v, x) = Array(<<Integer(x), Bool(FALSE)>>)
      <3> DEFINE l == <<Integer(x), Bool(FALSE)>>
      <3>1. Deep(l) /\ Params(v, x) = Array(l)
        BY <1>2, <2>2
      <3> HIDE DEF l
      <3> QED
        BY <1>1, <3>1, SoundTuples
    <2> QED
      BY <1>3, <2>1, <2>2
  <1>7. Len(VersionValues(v, x)) = 2
    BY DEF VersionValues
  <1> QED
    BY <1>1, <1>2, <1>4, <1>5, <1>6, <1>7

(* A header is one list of fifteen values, two of which are pairs.         *)
LEMMA HeaderList ==
  ASSUME NEW h
  PROVE  LET a == HeaderValues(h)[1][2]
         IN  /\ HeaderValues(h) = <<Array(a)>>
             /\ List(a) /\ Len(a) = 15 /\ Shape(a, HeaderKinds)
             /\ \A i \in 1..15 : a[i][1] = "array" =>
                  i \in {6, 7} /\ \E x, y : a[i][2] = <<Bytes(x), Bytes(y)>>
  <1> DEFINE a == HeaderValues(h)[1][2]
             Pair(x, y) == Array(<<Bytes(x), Bytes(y)>>)
  <1>1. HeaderValues(h) = <<Array(a)>>
    BY DEF HeaderValues, Array
  <1>2. a \in Seq({Integer(h.block_number), Integer(h.slot_number),
           Bytes(h.prev_hash), Bytes(h.node_vkey), Bytes(h.node_vrf_vkey),
           Pair(h.eta_vrf_0, h.eta_vrf_1), Pair(h.leader_vrf_0, h.leader_vrf_1),
           Integer(h.block_size), Bytes(h.block_body_hash),
           Bytes(h.pool_opcert), Integer(h.unknown_0), Integer(h.unknown_1),
           Bytes(h.unknown_2), Integer(h.protocol_major_version),
           Integer(h.protocol_minor_version)})
    BY DEF HeaderValues, Array
  <1>3. List(a) /\ Len(a) = 15
    <2>1. Len(a) = 15
      BY DEF HeaderValues, Array
    <2> QED
      BY <1>2, <2>1, Listed
  <1>4. \A i \in 1..15 : a[i][1] = HeaderKinds[i]
    BY DEF HeaderValues, HeaderKinds, Array, Integer, Bytes
  <1>5. /\ a[6][2] = <<Bytes(h.eta_vrf_0), Bytes(h.eta_vrf_1)>>
        /\ a[7][2] = <<Bytes(h.leader_vrf_0), Bytes(h.leader_vrf_1)>>
    BY DEF HeaderValues, Array
  <1> HIDE DEF a
  <1>6. \A i \in 1..15 : HeaderKinds[i] = "array" => i \in {6, 7}
    BY DEF HeaderKinds
  <1>7. Len(HeaderKinds) = 15
    BY DEF HeaderKinds
  <1>8. Shape(a, HeaderKinds)
    BY <1>3, <1>4, <1>7 DEF Shape, Starts
  <1>9. \A i \in 1..15 : a[i][1] = "array" =>
          i \in {6, 7} /\ \E x, y : a[i][2] = <<Bytes(x), Bytes(y)>>
    BY <1>4, <1>5, <1>6
  <1> QED
    BY <1>1, <1>3, <1>8, <1>9 DEF a

(* ... headers,                                                            *)
LEMMA HeaderSound ==
  ASSUME NEW f \in Numeric, NEW n \in Numbers
  PROVE  Sound(HeaderValues([PlainHeader EXCEPT ![f] = n]))
  <1> DEFINE h == [PlainHeader EXCEPT ![f] = n]
             a == HeaderValues(h)[1][2]
  <1>1. /\ h.block_number \in Int /\ h.slot_number \in Int
        /\ h.block_size \in Int /\ h.unknown_0 \in Int /\ h.unknown_1 \in Int
        /\ h.protocol_major_version \in Int /\ h.protocol_minor_version \in Int
    <2>1. n \in Int
      BY CodecAssumption
    <2>2. \A g \in Numeric : h[g] = n \/ h[g] \in 1..7
      BY DEF Numeric, PlainHeader
    <2> QED
      BY <2>1, <2>2 DEF Numeric
  <1> HIDE DEF h
  <1>2. HeaderValues(h) = <<Array(a)>>
    BY HeaderList
  <1> DEFINE Pair(x, y) == Array(<<Bytes(x), Bytes(y)>>)
  <1>3. \A x, y : Plain(<<Bytes(x), Bytes(y)>>)
    BY Tuples, Leaves DEF Plain, Numbered
  <1>4. List(a) /\ Len(a) = 15
    BY HeaderList
  <1>5. \A i \in 1..15 : Numbered(a[i]) /\ (a[i][1] = "array" => Plain(a[i][2]))
    <2>1. \A i \in 1..15 :
            \/ \E k \in Int : a[i] = Integer(k)
            \/ \E b : a[i] = Bytes(b)
            \/ \E x, y : a[i] = Pair(x, y)
      BY <1>1 DEF HeaderValues, Array
    <2> HIDE DEF a
    <2>2. \A k \in Int : Numbered(Integer(k)) /\ Integer(k)[1] # "array"
      BY Leaves DEF Numbered
    <2>3. \A b : Numbered(Bytes(b)) /\ Bytes(b)[1] # "array"
      BY Leaves DEF Numbered
    <2>4. \A x, y : Numbered(Pair(x, y)) /\ Plain(Pair(x, y)[2])
      BY <1>3, Leaves DEF Numbered
    <2> HIDE DEF Pair
    <2> QED
      BY <2>1, <2>2, <2>3, <2>4
  <1>6. Deep(a)
    <2> HIDE DEF a
    <2> QED
      BY <1>4, <1>5 DEF Deep, Plain
  <1> HIDE DEF a
  <1>7. Sound(HeaderValues(h))
    BY <1>2, <1>6, SoundTuples
  <1> QED
    BY <1>7 DEF h

(* ... lists of points,                                                    *)
LEMMA ListSound ==
  ASSUME NEW n \in Nat, NEW ps \in [1..n -> Points]
  PROVE  Deep([i \in 1..Len(ps) |-> Array(PointValues(ps[i]))])
  <1> DEFINE vs == [i \in 1..Len(ps) |-> Array(PointValues(ps[i]))]
             S == { Array(PointValues(p)) : p \in Points }
  <1>1. Len(ps) = n /\ \A i \in 1..n : ps[i] \in Points
    OBVIOUS
  <1>2. vs \in Seq(S) /\ Len(vs) = n
    BY <1>1
  <1>3. \A i \in 1..n : vs[i] = Array(PointValues(ps[i]))
    BY <1>1
  <1>4. List(vs)
    BY <1>2, Listed
  <1> HIDE DEF vs, S
  <1>5. \A i \in 1..n : vs[i][1] = "array" /\ Plain(vs[i][2])
    BY <1>1, <1>3, PointSound, Leaves
  <1>6. Deep(vs)
    BY <1>2, <1>4, <1>5 DEF Deep, Plain, Numbered
  <1> QED
    BY <1>6 DEF vs

(* ... and the messages: of chain-sync,                                    *)
LEMMA ChainSyncSound ==
  ASSUME NEW m \in ChainSyncMessages
  PROVE  Sound(ChainSyncValues(m))
  <1> DEFINE Lists == UNION { [1..n -> Points] : n \in 0..MaxPoints }
  <1>1. \/ m \in { <<t>> : t \in {"RequestNext", "AwaitReply", "Done"} }
        \/ m \in {"RollForward"} \X Hashes \X Tips
        \/ m \in {"RollBackward", "IntersectFound"} \X Points \X Tips
        \/ m \in {"IntersectNotFound"} \X Tips
        \/ m \in {"FindIntersect"} \X Lists
    BY DEF ChainSyncMessages
  <1> HIDE DEF Lists
  <1>2. CASE m \in { <<t>> : t \in {"RequestNext", "AwaitReply", "Done"} }
    <2>1. m[1] \in {"RequestNext", "AwaitReply", "Done"}
      BY <1>2
    <2> QED
      BY <2>1, ChainSyncWire, SoundTuples
  <1>3. CASE m \in {"RollForward"} \X Hashes \X Tips
    <2>1. m[1] = "RollForward" /\ m[3] \in Tips
      BY <1>3
    <2> QED
      BY <2>1, ChainSyncWire, SoundTuples, WrappedSound, TipSound
  <1>4. CASE m \in {"RollBackward", "IntersectFound"} \X Points \X Tips
    <2>1. /\ m[1] \in {"RollBackward", "IntersectFound"}
          /\ m[2] \in Points /\ m[3] \in Tips
      BY <1>4
    <2> QED
      BY <2>1, ChainSyncWire, SoundTuples, PointSound, TipSound
  <1>5. CASE m \in {"IntersectNotFound"} \X Tips
    <2>1. m[1] = "IntersectNotFound" /\ m[2] \in Tips
      BY <1>5
    <2> QED
      BY <2>1, ChainSyncWire, SoundTuples, TipSound
  <1>6. CASE m \in {"FindIntersect"} \X Lists
    <2>1. m[1] = "FindIntersect" /\ m[2] \in Lists
      BY <1>6
    <2>2. PICK n \in 0..MaxPoints : m[2] \in [1..n -> Points]
      BY <2>1 DEF Lists
    <2>3. Deep([i \in 1..Len(m[2]) |-> Array(PointValues(m[2][i]))])
      BY <2>2, ListSound, CodecAssumption
    <2>4. ChainSyncValues(m) = <<Integer(4),
            Array([i \in 1..Len(m[2]) |-> Array(PointValues(m[2][i]))])>>
      BY <2>1, ChainSyncWire
    <2> QED
      BY <2>3, <2>4, SoundTuples
  <1> QED
    BY <1>1, <1>2, <1>3, <1>4, <1>5, <1>6

(* ... of block-fetch,                                                     *)
LEMMA BlockFetchSound ==
  ASSUME NEW m \in BlockFetchMessages
  PROVE  Sound(BlockFetchValues(m))
  <1> DEFINE Words == {"ClientDone", "StartBatch", "NoBlocks", "BatchDone"}
  <1>1. \/ m \in { <<t>> : t \in Words }
        \/ m \in {"RequestRange"} \X Points \X Points
        \/ m \in {"Block"} \X Hashes
    BY DEF BlockFetchMessages
  <1>2. CASE m \in { <<t>> : t \in Words }
    <2>1. m[1] \in Words
      BY <1>2
    <2> QED
      BY <2>1, BlockFetchWire, SoundTuples
  <1>3. CASE m \in {"RequestRange"} \X Points \X Points
    <2>1. m[1] = "RequestRange" /\ m[2] \in Points /\ m[3] \in Points
      BY <1>3
    <2> QED
      BY <2>1, BlockFetchWire, SoundTuples, PointSound
  <1>4. CASE m \in {"Block"} \X Hashes
    <2>1. m[1] = "Block"
      BY <1>4
    <2> QED
      BY <2>1, BlockFetchWire, SoundTuples
  <1> QED
    BY <1>1, <1>2, <1>3, <1>4

(* ... a refusal, with whichever tag,                                      *)
LEMMA RefusalSound == \A n \in Int : Sound(<<Integer(n), Refusal>>)
  <1> DEFINE l == <<Integer(2), Integer(0), Text>>
  <1>1. Deep(l)
    BY Tuples, Leaves DEF Deep, Plain, Numbered
  <1>2. Refusal = Array(l)
    BY DEF Refusal
  <1> HIDE DEF l
  <1> QED
    BY <1>1, <1>2, SoundTuples

(* ... of the handshake,                                                   *)
LEMMA HandshakeSound ==
  ASSUME NEW m \in HandshakeMessages
  PROVE  Sound(HandshakeValues(m))
  <1>1. \/ m \in {"ProposeVersions"} \X Proposals
        \/ m \in {"AcceptVersion"} \X Supported \X Magics
        \/ m = Refuse
    BY DEF HandshakeMessages
  <1>2. CASE m \in {"ProposeVersions"} \X Proposals
    <2>1. m[1] = "ProposeVersions" /\ m[2] \in Proposals
      BY <1>2
    <2>2. m[2] \subseteq Supported \X Magics
      BY <2>1 DEF Proposals, Supported
    <2> DEFINE pairs == { VersionValues(p[1], p[2]) : p \in m[2] }
    <2>3. \A pair \in pairs : Entry(pair)
      BY <2>2, ParamsSound DEF Entry
    <2> HIDE DEF pairs
    <2>4. HandshakeValues(m) = <<Integer(0), Map(pairs)>>
      BY <2>1 DEF HandshakeValues, pairs
    <2> QED
      BY <2>3, <2>4, SoundTuples
  <1>3. CASE m \in {"AcceptVersion"} \X Supported \X Magics
    <2>1. m[1] = "AcceptVersion" /\ m[2] \in Supported /\ m[3] \in Magics
      BY <1>3
    <2> DEFINE params == <<Integer(m[3]), Bool(FALSE)>>
    <2>2. Deep(params) /\ Number(m[2]) \in Int
      BY <2>1, ParamsSound
    <2> HIDE DEF params
    <2>3. HandshakeValues(m)
            = <<Integer(1), Integer(Number(m[2])), Array(params)>>
      BY <2>1 DEF HandshakeValues, params
    <2> QED
      BY <2>2, <2>3, SoundTuples
  <1>4. CASE m = Refuse
    <2>1. HandshakeValues(m) = <<Integer(1), Refusal>>
      BY <1>4 DEF HandshakeValues, Refuse
    <2> QED
      BY <2>1, RefusalSound
  <1> QED
    BY <1>1, <1>2, <1>3, <1>4

(* ... and of all mini-protocols.                                          *)
LEMMA OwnSound ==
  ASSUME NEW p \in Protos, NEW m \in Messages(p)
  PROVE  Sound(Encode(p, m))
  <1>1. CASE p = "handshake"
    BY <1>1, HandshakeSound DEF Messages, Encode
  <1>2. CASE p = "chainsync"
    BY <1>2, ChainSyncSound DEF Messages, Encode
  <1>3. CASE p = "blockfetch"
    BY <1>3, BlockFetchSound DEF Messages, Encode
  <1>4. CASE p = "txsubmission"
    <2>1. \/ m = <<"Raw">>
          \/ m = <<"Array", <<Integer(0), Bool(TRUE)>>>>
      BY <1>4 DEF Messages, TxSubmissionMessages
    <2>2. \/ TxSubmissionValues(m) = <<Integer(1), Array(<< >>)>>
          \/ \E b : TxSubmissionValues(m) = <<Integer(0), Bool(b)>>
      <3>1. CASE m = <<"Raw">>
        BY <3>1 DEF TxSubmissionValues
      <3>2. ASSUME NEW b, m = <<"Array", <<Integer(0), Bool(b)>>>>
            PROVE  TxSubmissionValues(m) = <<Integer(0), Bool(b)>>
        BY <3>2 DEF TxSubmissionValues
      <3> QED
        BY <2>1, <3>1, <3>2
    <2>3. Deep(<< >>)
      BY Tuples DEF Deep, Plain
    <2>4. Sound(TxSubmissionValues(m))
      BY <2>2, <2>3, SoundTuples
    <2> QED
      BY <1>4, <2>4 DEF Encode
  <1>5. CASE p = "header"
    <2>1. PICK f \in Numeric, n \in Numbers : m = HeaderWith(f, n)
      BY <1>5 DEF Messages, HeaderMessages
    <2> DEFINE h == [PlainHeader EXCEPT ![f] = n]
    <2>2. Sound(HeaderValues(h))
      BY HeaderSound
    <2> HIDE DEF h
    <2>3. m[2] = h
      BY <2>1 DEF h, HeaderWith, BlockHeader
    <2> QED
      BY <1>5, <2>2, <2>3 DEF Encode
  <1> QED
    BY <1>1, <1>2, <1>3, <1>4, <1>5 DEF Protos

-----------------------------------------------------------------------------
AtMostOne(S) == \A m, n \in S : m = n

(* The widths are positive.                                                *)
LEMMA Widths ==
  /\ Word16 \in Nat /\ Word16 > 0 /\ Word32 \in Nat /\ Word32 > 0
  /\ Word64 \in Nat /\ Word64 > 0 /\ Bit \in Nat /\ Bit > 0
BY CodecAssumption DEF Word16

(* At most one point is made of a list, and its slot fits                  *)
(* (protocols.rs:232-241).                                                 *)
LEMMA PointRead ==
  ASSUME NEW vs, Plain(vs)
  PROVE  AtMostOne(PointOf(vs)) /\ \A p \in PointOf(vs) : PointOK(p)
  <1>1. ASSUME Shape(vs, <<"integer", "bytes">>)
        PROVE  \A p \in PointOf(vs) : PointOK(p)
    <2>1. vs[1][2] \in Int
      BY <1>1 DEF Shape, Starts, Plain, Numbered
    <2>2. Unsigned(vs[1][2], Word64) \in 0..(Word64 - 1)
      BY <2>1, CutFits, Widths
    <2> QED
      BY <2>2 DEF PointOf, PointOK, Point
  <1> QED
    BY <1>1 DEF PointOf, AtMostOne

(* At most one tip is made of a list, and its numbers fit.                 *)
LEMMA TipRead ==
  ASSUME NEW vs, Deep(vs)
  PROVE  AtMostOne(TipOf(vs)) /\ \A t \in TipOf(vs) : TipOK(t)
  <1>1. CASE Shape(vs, <<"array", "integer">>)
    <2>1. vs[2][2] \in Int /\ Plain(vs[1][2])
      BY <1>1 DEF Shape, Starts, Deep, Plain, Numbered
    <2>2. Signed(vs[2][2]) \in -(Word64 \div 2)..(Word64 \div 2 - 1)
      BY <2>1, SignedFits
    <2>3. AtMostOne(PointOf(vs[1][2])) /\ \A p \in PointOf(vs[1][2]) : PointOK(p)
      BY <2>1, PointRead
    <2>4. TipOf(vs)
            = { Tip(Signed(vs[2][2]), p.slot, p.hash) : p \in PointOf(vs[1][2]) }
      BY <1>1 DEF TipOf
    <2>5. AtMostOne(TipOf(vs))
      BY <2>3, <2>4 DEF AtMostOne
    <2>6. \A t \in TipOf(vs) : TipOK(t)
      BY <2>2, <2>3, <2>4 DEF TipOK, PointOK, Tip
    <2> QED
      BY <2>5, <2>6
  <1>2. CASE ~Shape(vs, <<"array", "integer">>)
    BY <1>2 DEF TipOf, AtMostOne
  <1> QED
    BY <1>1, <1>2

(* At most one list of points is made of a list.                           *)
LEMMA PointListRead == \A vs : AtMostOne(PointListOf(vs))
BY DEF PointListOf, AtMostOne

(* At most one header is unwrapped.                                        *)
LEMMA WrappedRead == \A vs : AtMostOne(WrappedOf(vs))
BY DEF WrappedOf, AtMostOne

(* At most one magic is made of parameters in an array, and it fits.       *)
LEMMA ArrayMagicRead ==
  ASSUME NEW vs, Plain(vs)
  PROVE  AtMostOne(ArrayMagicOf(vs)) /\ ArrayMagicOf(vs) \subseteq 0..(Word32 - 1)
  <1>1. Starts(vs, <<"integer", "bool">>) => vs[1][2] \in Int
    BY DEF Starts, Plain, Numbered
  <1> QED
    BY <1>1, CutFits, Widths DEF ArrayMagicOf, AtMostOne

(* At most one magic is made of a version's parameters, and it fits.       *)
LEMMA MagicRead ==
  ASSUME NEW v, NEW params, Numbered(params), params[1] = "array" => Plain(params[2])
  PROVE  AtMostOne(MagicOf(v, params)) /\ MagicOf(v, params) \subseteq 0..(Word32 - 1)
  <1>1. CASE InArray(v) /\ params[1] = "array"
    BY <1>1, ArrayMagicRead DEF MagicOf
  <1>2. CASE ~InArray(v) /\ params[1] = "integer"
    BY <1>2, CutFits, Widths DEF MagicOf, Numbered, AtMostOne
  <1>3. CASE ~(InArray(v) /\ params[1] = "array")
               /\ ~(~InArray(v) /\ params[1] = "integer")
    BY <1>3 DEF MagicOf, AtMostOne
  <1> QED
    BY <1>1, <1>2, <1>3

(* What is made of an entry of a proposal are supported versions.          *)
LEMMA VersionRead ==
  ASSUME NEW pair, Entry(pair)
  PROVE  \A offer \in VersionOf(pair) :
           offer[1] \in Supported /\ offer[2] \in 0..(Word32 - 1)
  <1>1. Numbered(pair[2]) /\ (pair[2][1] = "array" => Plain(pair[2][2]))
    BY DEF Entry, Deep, Plain, List
  <1>2. ASSUME NEW offer \in VersionOf(pair)
        PROVE  \E v \in Supported : \E x \in MagicOf(v, pair[2]) : offer = <<v, x>>
    BY DEF VersionOf
  <1> QED
    BY <1>1, <1>2, MagicRead

Accepted(m, vs) ==
  /\ Number(m[2]) = vs[2][2] % Word16
  /\ m[3] = vs[3][2][1][2] % Word32

(* At most one message is made of what the handshake reads; an acceptance  *)
(* has the number and the magic of the wire modulo their widths            *)
(* (handshake.rs:61-63).                                                   *)
LEMMA HandshakeRead ==
  ASSUME NEW vs, Sound(vs)
  PROVE  /\ AtMostOne(HandshakeOf(vs))
         /\ \A m \in HandshakeOf(vs) :
              /\ MessageOK("handshake", m)
              /\ m[1] = "AcceptVersion" => Accepted(m, vs)
  <1> DEFINE proposal == Starts(vs, <<"integer", "map">>) /\ vs[1][2] = 0
             acceptance ==
               Starts(vs, <<"integer", "integer", "array">>) /\ vs[1][2] = 1
             refusal == Starts(vs, <<"integer", "array">>) /\ vs[1][2] = 2
             offers == UNION { VersionOf(pair) : pair \in vs[2][2] }
  <1>1. CASE proposal
    <2>1. /\ AtMostOne(HandshakeOf(vs))
          /\ \A m \in HandshakeOf(vs) : m = <<"ProposeVersions", offers>>
      BY <1>1 DEF HandshakeOf, AtMostOne
    <2>2. \A pair \in vs[2][2] : Entry(pair)
      BY <1>1 DEF Starts, Sound
    <2>3. \A offer \in offers :
            offer[1] \in Supported /\ offer[2] \in 0..(Word32 - 1)
      BY <2>2, VersionRead
    <2> HIDE DEF offers
    <2>4. MessageOK("handshake", <<"ProposeVersions", offers>>)
      BY <2>3 DEF MessageOK
    <2> QED
      BY <2>1, <2>4
  <1>2. CASE ~proposal /\ acceptance
    <2> DEFINE n == Unsigned(vs[2][2], Word16)
    <2>1. HandshakeOf(vs) =
            { <<"AcceptVersion", FromU16(n), magic>> :
                magic \in ArrayMagicOf(vs[3][2]) }
      BY <1>2 DEF HandshakeOf
    <2>2. vs[2][2] \in Int /\ Plain(vs[3][2])
      BY <1>2 DEF Starts, Sound, Deep, Plain, Numbered
    <2>3. n \in 0..(Word16 - 1) /\ n = vs[2][2] % Word16
      BY <2>2, CutFits, Widths DEF Unsigned
    <2>4. /\ AtMostOne(ArrayMagicOf(vs[3][2]))
          /\ ArrayMagicOf(vs[3][2]) \subseteq 0..(Word32 - 1)
      BY <2>2, ArrayMagicRead
    <2>5. \A x \in ArrayMagicOf(vs[3][2]) : x = vs[3][2][1][2] % Word32
      BY DEF ArrayMagicOf, Unsigned
    <2> HIDE DEF n
    <2>6. FromU16(n)[2] \in 0..(Bit - 1) /\ Number(FromU16(n)) = n
      BY <2>3, Widths DEF FromU16, Number, Word16
    <2>7. ASSUME NEW x \in ArrayMagicOf(vs[3][2]),
                 NEW m, m = <<"AcceptVersion", FromU16(n), x>>
          PROVE  MessageOK("handshake", m) /\ Accepted(m, vs)
      <3>1. m[1] = "AcceptVersion" /\ m[2] = FromU16(n) /\ m[3] = x
        BY <2>7
      <3> QED
        BY <3>1, <2>3, <2>4, <2>5, <2>6, <2>7 DEF MessageOK, Accepted
    <2> QED
      BY <2>1, <2>4, <2>7 DEF AtMostOne
  <1>3. CASE ~proposal /\ ~acceptance
    <2>1. HandshakeOf(vs) \subseteq {Refuse}
      BY <1>3 DEF HandshakeOf
    <2> QED
      BY <2>1 DEF AtMostOne, MessageOK, Refuse
  <1> QED
    BY <1>1, <1>2, <1>3

(* What stands behind a tag is sound where the whole is.                   *)
LEMMA Followers ==
  ASSUME NEW vs, Sound(vs), Len(vs) > 0
  PROVE  /\ Len(Tail(vs)) = Len(vs) - 1
         /\ \A i \in 1..(Len(vs) - 1) : Tail(vs)[i] = vs[i + 1]
         /\ Sound(Tail(vs))
  <1>1. Len(vs) \in Nat /\ vs \in Seq(Elems(vs))
    BY DEF Sound, Plain, List
  <1>2. /\ Tail(vs) \in Seq(Elems(vs)) /\ Len(Tail(vs)) = Len(vs) - 1
        /\ \A i \in 1..(Len(vs) - 1) : Tail(vs)[i] = vs[i + 1]
    <2> DEFINE S == Elems(vs)
    <2> HIDE DEF S
    <2>1. vs \in Seq(S)
      BY <1>1 DEF S
    <2>2. /\ Tail(vs) \in Seq(S) /\ Len(Tail(vs)) = Len(vs) - 1
          /\ \A i \in 1..(Len(vs) - 1) : Tail(vs)[i] = vs[i + 1]
      BY <1>1, <2>1
    <2> QED
      BY <2>2 DEF S
  <1>3. List(Tail(vs))
    BY <1>2, Listed
  <1>4. Sound(Tail(vs))
    BY <1>1, <1>2, <1>3 DEF Sound, Plain
  <1> QED
    BY <1>2, <1>4

(* At most one message of a type is made of what chain-sync reads.         *)
LEMMA ChainSyncRead ==
  ASSUME NEW type, NEW vs, Sound(vs)
  PROVE  /\ AtMostOne(ChainSyncRest(type, vs))
         /\ \A m \in ChainSyncRest(type, vs) : MessageOK("chainsync", m)
  <1> DEFINE two == Shape(vs, <<"array", "array">>)
             one == Shape(vs, <<"array">>)
  <1>0. /\ two => Deep(vs[1][2]) /\ Deep(vs[2][2]) /\ Plain(vs[1][2])
        /\ one => Deep(vs[1][2])
    BY DEF Shape, Starts, Sound, Deep
  <1>1. CASE type = "RollForward" /\ two
    <2>1. ChainSyncRest(type, vs) =
            { <<type, h, t>> : h \in WrappedOf(vs[1][2]), t \in TipOf(vs[2][2]) }
      BY <1>1 DEF ChainSyncRest
    <2>2. /\ AtMostOne(WrappedOf(vs[1][2])) /\ AtMostOne(TipOf(vs[2][2]))
          /\ \A t \in TipOf(vs[2][2]) : TipOK(t)
      BY <1>0, <1>1, WrappedRead, TipRead
    <2>3. AtMostOne(ChainSyncRest(type, vs))
      BY <2>1, <2>2 DEF AtMostOne
    <2>4. \A m \in ChainSyncRest(type, vs) : MessageOK("chainsync", m)
      BY <1>1, <2>1, <2>2 DEF MessageOK
    <2> QED
      BY <2>3, <2>4
  <1>2. CASE type \in {"RollBackward", "IntersectFound"} /\ two
    <2>1. ChainSyncRest(type, vs) =
            { <<type, p, t>> : p \in PointOf(vs[1][2]), t \in TipOf(vs[2][2]) }
      BY <1>2 DEF ChainSyncRest
    <2>2. /\ AtMostOne(PointOf(vs[1][2])) /\ AtMostOne(TipOf(vs[2][2]))
          /\ \A p \in PointOf(vs[1][2]) : PointOK(p)
          /\ \A t \in TipOf(vs[2][2]) : TipOK(t)
      BY <1>0, <1>2, PointRead, TipRead
    <2>3. AtMostOne(ChainSyncRest(type, vs))
      BY <2>1, <2>2 DEF AtMostOne
    <2>4. \A m \in ChainSyncRest(type, vs) : MessageOK("chainsync", m)
      BY <1>2, <2>1, <2>2 DEF MessageOK
    <2> QED
      BY <2>3, <2>4
  <1>3. CASE type = "FindIntersect" /\ one
    <2>1. ChainSyncRest(type, vs) = { <<type, ps>> : ps \in PointListOf(vs[1][2]) }
      BY <1>3 DEF ChainSyncRest
    <2>2. AtMostOne(ChainSyncRest(type, vs))
      BY <2>1, PointListRead DEF AtMostOne
    <2>3. \A m \in ChainSyncRest(type, vs) : MessageOK("chainsync", m)
      BY <1>3, <2>1 DEF MessageOK
    <2> QED
      BY <2>2, <2>3
  <1>4. CASE type = "IntersectNotFound" /\ one
    <2>1. ChainSyncRest(type, vs) = { <<type, t>> : t \in TipOf(vs[1][2]) }
      BY <1>4 DEF ChainSyncRest
    <2>2. AtMostOne(TipOf(vs[1][2])) /\ \A t \in TipOf(vs[1][2]) : TipOK(t)
      BY <1>0, <1>4, TipRead
    <2>3. AtMostOne(ChainSyncRest(type, vs))
      BY <2>1, <2>2 DEF AtMostOne
    <2>4. \A m \in ChainSyncRest(type, vs) : MessageOK("chainsync", m)
      BY <1>4, <2>1, <2>2 DEF MessageOK
    <2> QED
      BY <2>3, <2>4
  <1>5. CASE /\ ~(type = "RollForward" /\ two)
             /\ ~(type \in {"RollBackward", "IntersectFound"} /\ two)
             /\ ~(type = "FindIntersect" /\ one)
             /\ ~(type = "IntersectNotFound" /\ one)
    <2>1. \/ ChainSyncRest(type, vs) = {}
          \/ /\ ChainSyncRest(type, vs) = {<<type>>}
             /\ type \in {"RequestNext", "AwaitReply", "Done"}
      BY <1>5 DEF ChainSyncRest
    <2> QED
      BY <2>1 DEF AtMostOne, MessageOK
  <1> QED
    BY <1>1, <1>2, <1>3, <1>4, <1>5

(* At most one message of a type is made of what block-fetch reads.        *)
LEMMA BlockFetchRead ==
  ASSUME NEW type, NEW vs, Sound(vs)
  PROVE  /\ AtMostOne(BlockFetchRest(type, vs))
         /\ \A m \in BlockFetchRest(type, vs) : MessageOK("blockfetch", m)
  <1> DEFINE two == Shape(vs, <<"array", "array">>)
  <1>1. CASE type = "RequestRange" /\ two
    <2>1. BlockFetchRest(type, vs) =
            { <<type, p, q>> : p \in PointOf(vs[1][2]), q \in PointOf(vs[2][2]) }
      BY <1>1 DEF BlockFetchRest
    <2>2. Plain(vs[1][2]) /\ Plain(vs[2][2])
      BY <1>1 DEF Shape, Starts, Sound, Deep
    <2>3. /\ AtMostOne(PointOf(vs[1][2])) /\ AtMostOne(PointOf(vs[2][2]))
          /\ \A p \in PointOf(vs[1][2]) \cup PointOf(vs[2][2]) : PointOK(p)
      BY <2>2, PointRead
    <2>4. AtMostOne(BlockFetchRest(type, vs))
      BY <2>1, <2>3 DEF AtMostOne
    <2>5. \A m \in BlockFetchRest(type, vs) : MessageOK("blockfetch", m)
      BY <1>1, <2>1, <2>3 DEF MessageOK
    <2> QED
      BY <2>4, <2>5
  <1>2. CASE ~(type = "RequestRange" /\ two)
    <2>1. \/ BlockFetchRest(type, vs) = {}
          \/ BlockFetchRest(type, vs) = {<<"Block", vs[1][2]>>}
          \/ /\ BlockFetchRest(type, vs) = {<<type>>}
             /\ type \in {"ClientDone", "StartBatch", "NoBlocks", "BatchDone"}
      BY <1>2 DEF BlockFetchRest
    <2> QED
      BY <2>1 DEF AtMostOne, MessageOK
  <1> QED
    BY <1>1, <1>2

(* Whatever sound list of values is read, at most one message is made of   *)
(* it, and its numbers fit their fields (handshake.rs:50, chainsync.rs:40, *)
(* blockfetch.rs:40).                                                      *)
LEMMA Reading ==
  ASSUME NEW p \in Protos, NEW vs, Sound(vs)
  PROVE  AtMostOne(Decode(p, vs)) /\ \A m \in Decode(p, vs) : MessageOK(p, m)
  <1>1. CASE p = "handshake"
    BY <1>1, HandshakeRead DEF Decode
  <1>2. Starts(vs, <<"integer">>) => Sound(Tail(vs))
    BY Followers DEF Starts
  <1>3. CASE p = "chainsync"
    <2>1. \/ Decode(p, vs) = {}
          \/ Starts(vs, <<"integer">>) /\ \E type :
               Decode(p, vs) = ChainSyncRest(type, Tail(vs))
      BY <1>3 DEF Decode, Tagged
    <2> QED
      BY <1>2, <1>3, <2>1, ChainSyncRead DEF AtMostOne
  <1>4. CASE p = "blockfetch"
    <2>1. \/ Decode(p, vs) = {}
          \/ Starts(vs, <<"integer">>) /\ \E type :
               Decode(p, vs) = BlockFetchRest(type, Tail(vs))
      BY <1>4 DEF Decode, Tagged
    <2> QED
      BY <1>2, <1>4, <2>1, BlockFetchRead DEF AtMostOne
  <1>5. CASE p = "txsubmission"
    BY <1>5 DEF Decode, AtMostOne, MessageOK
  <1>6. CASE p = "header"
    BY <1>6 DEF Decode, HeaderOf, AtMostOne, MessageOK
  <1> QED
    BY <1>1, <1>3, <1>4, <1>5, <1>6 DEF Protos

-----------------------------------------------------------------------------
Mild == {"cut", "extended", "retyped"}

(* A reader with an end() sees that a list is cut, extended or retyped.    *)
LEMMA ShapeLost ==
  ASSUME NEW damage \in Mild, NEW vs, List(vs), NEW w \in Flat(damage, vs),
         NEW kinds, Len(kinds) \in Nat, Shape(vs, kinds)
  PROVE  ~Shape(w, kinds)
  <1>0. Len(vs) \in Nat /\ Len(vs) = Len(kinds)
    BY DEF List, Shape
  <1>1. CASE damage = "cut"
    BY <1>0, <1>1, CutFlat DEF Shape
  <1>2. CASE damage = "extended"
    BY <1>0, <1>2, ExtendedFlat DEF Shape
  <1>3. CASE damage = "retyped"
    BY <1>0, <1>3, RetypedFlat DEF Shape, Starts
  <1> QED
    BY <1>1, <1>2, <1>3 DEF Mild

(* Damage leaves the tag alone or leaves no tag.                           *)
LEMMA TagKept ==
  ASSUME NEW damage \in Mild, NEW vs, List(vs), NEW w \in Flat(damage, vs),
         Len(vs) > 0, Starts(w, <<"integer">>)
  PROVE  w[1] = vs[1]
  <1>0. /\ Len(vs) \in Nat /\ Len(w) >= 1 /\ w[1][1] = "integer"
        /\ Text[1] # "integer" /\ Array(<< >>)[1] # "integer"
    BY DEF List, Starts, Text, Array
  <1>1. CASE damage = "cut"
    BY <1>0, <1>1, CutFlat
  <1>2. CASE damage = "extended"
    BY <1>0, <1>2, ExtendedFlat
  <1>3. CASE damage = "retyped"
    BY <1>0, <1>3, RetypedFlat
  <1> QED
    BY <1>1, <1>2, <1>3 DEF Mild

(* A point, tip or wrapped header that is damaged is none.                 *)
LEMMA PointLost ==
  ASSUME NEW damage \in Mild, NEW p \in Points, NEW w \in Second(damage, PointValues(p))
  PROVE  PointOf(w) = {}
  <1> DEFINE vs == PointValues(p)
  <1>1. /\ List(vs) /\ Len(vs) = 2 /\ vs[1][1] = "integer" /\ vs[2][1] = "bytes"
        /\ Shape(vs, <<"integer", "bytes">>)
    BY Tuples, Leaves DEF PointValues, Integer, Bytes, Shape, Starts
  <1> HIDE DEF vs
  <1>2. w \in Second(damage, vs)
    BY DEF vs
  <1>3. w \in Flat(damage, vs)
    BY <1>1, <1>2, SecondCases
  <1>4. ~Shape(w, <<"integer", "bytes">>)
    BY <1>1, <1>3, ShapeLost
  <1> QED
    BY <1>4 DEF PointOf

(* ... and a wrapped header,                                               *)
LEMMA WrappedLost ==
  ASSUME NEW damage \in Mild, NEW b, NEW w \in Second(damage, WrappedValues(b))
  PROVE  WrappedOf(w) = {}
  <1> DEFINE vs == WrappedValues(b)
  <1>1. /\ List(vs) /\ Len(vs) = 2 /\ vs[1][1] = "integer" /\ vs[2][1] = "bytes"
        /\ Shape(vs, <<"integer", "bytes">>)
    BY Tuples, Leaves DEF WrappedValues, Integer, Bytes, Shape, Starts
  <1> HIDE DEF vs
  <1>2. w \in Second(damage, vs)
    BY DEF vs
  <1>3. w \in Flat(damage, vs)
    BY <1>1, <1>2, SecondCases
  <1>4. ~Shape(w, <<"integer", "bytes">>)
    BY <1>1, <1>3, ShapeLost
  <1> QED
    BY <1>4 DEF WrappedOf

(* ... and a tip.                                                          *)
LEMMA TipLost ==
  ASSUME NEW damage \in Mild, NEW t \in Tips, NEW w \in Second(damage, TipValues(t))
  PROVE  TipOf(w) = {}
  <1>1. PICK n \in Numbers, s \in Slots, h \in Hashes : t = Tip(n, s, h)
    BY DEF Tips
  <1>2. Point(s, h) \in Points
    BY DEF Points
  <1> DEFINE p == Point(s, h)
             vs == TipValues(t)
  <1>3. vs = <<Array(PointValues(p)), Integer(n)>>
    BY <1>1 DEF TipValues, Tip, PointValues, Point
  <1> HIDE DEF p, vs
  <1>4. /\ List(vs) /\ Len(vs) = 2 /\ vs[1] = Array(PointValues(p))
        /\ vs[1][1] = "array" /\ vs[2][1] = "integer" /\ vs[1][2] = PointValues(p)
        /\ Shape(vs, <<"array", "integer">>)
    BY <1>3, Tuples, Leaves DEF Array, Integer, Shape, Starts
  <1>5. w \in Second(damage, vs)
    BY DEF vs
  <1>6. CASE w \in Flat(damage, vs)
    <2>1. ~Shape(w, <<"array", "integer">>)
      BY <1>4, <1>6, ShapeLost
    <2> QED
      BY <2>1 DEF TipOf
  <1>7. CASE w \notin Flat(damage, vs)
    <2>1. PICK u \in Flat(damage, PointValues(p)) : Within(vs, 1, Array(u), w)
      BY <1>4, <1>5, <1>7, SecondCases
    <2>2. w[1][2] = u
      BY <1>4, <2>1 DEF Within, Array
    <2>3. u \in Second(damage, PointValues(p))
      BY DEF Second
    <2>4. PointOf(w[1][2]) = {}
      BY <1>2, <2>2, <2>3, PointLost DEF p
    <2> QED
      BY <2>4 DEF TipOf
  <1> QED
    BY <1>6, <1>7

(* A list of a fixed shape that is damaged keeps its tag, if it keeps one, *)
(* and has another shape, or the damage is in one of its lists.            *)
LEMMA DamagedWithin ==
  ASSUME NEW damage \in Mild, NEW vs, List(vs), Len(vs) > 0,
         vs[1][1] = "integer", \A i \in 1..Len(vs) : vs[i][1] # "map",
         NEW kinds, Len(kinds) \in Nat, Shape(vs, kinds),
         NEW w \in Damages(damage, vs), Starts(w, <<"integer">>)
  PROVE  /\ w[1] = vs[1]
         /\ Shape(w, kinds) => \E i \in 2..Len(vs) :
              /\ vs[i][1] = "array"
              /\ \E u \in Second(damage, vs[i][2]) : w[i] = Array(u)
  <1>1. CASE w \in Flat(damage, vs)
    BY <1>1, TagKept, ShapeLost
  <1>2. ASSUME NEW i \in 1..Len(vs), vs[i][1] = "array",
               NEW u \in Second(damage, vs[i][2]), Within(vs, i, Array(u), w)
        PROVE  i \in 2..Len(vs) /\ w[1] = vs[1] /\ w[i] = Array(u)
    BY <1>2 DEF Within, List
  <1> QED
    BY <1>1, <1>2, DamagesCases

(* What stands behind the tag of a message of chain-sync that is read.     *)
LEMMA ChainSyncMade ==
  ASSUME NEW w, Sound(w), Len(w) > 0, NEW k \in 0..7, w[1] = Integer(k),
         NEW d \in Decode("chainsync", w)
  PROVE  LET type == ChainSyncTags[k + 1]
         IN  /\ type = "RollForward" =>
                  /\ Shape(w, <<"integer", "array", "array">>)
                  /\ WrappedOf(w[2][2]) # {} /\ TipOf(w[3][2]) # {}
             /\ type \in {"RollBackward", "IntersectFound"} =>
                  /\ Shape(w, <<"integer", "array", "array">>)
                  /\ PointOf(w[2][2]) # {} /\ TipOf(w[3][2]) # {}
             /\ type = "FindIntersect" =>
                  /\ Shape(w, <<"integer", "array">>)
                  /\ \E ps \in PointListOf(w[2][2]) : d = <<type, ps>>
             /\ type = "IntersectNotFound" =>
                  Shape(w, <<"integer", "array">>) /\ TipOf(w[2][2]) # {}
             /\ type \in {"RequestNext", "AwaitReply", "Done"} =>
                  Shape(w, <<"integer">>)
  <1> DEFINE type == ChainSyncTags[k + 1]
             vs == Tail(w)
  <1>1. /\ Len(w) \in Nat /\ Len(vs) = Len(w) - 1
        /\ \A i \in 1..(Len(w) - 1) : vs[i] = w[i + 1]
    BY Followers DEF Sound, Plain, List
  <1>2. w[1][1] = "integer" /\ w[1][2] = k
    BY DEF Integer
  <1>3. Starts(w, <<"integer">>)
    BY <1>1, <1>2 DEF Starts
  <1>4. k + 1 \in 1..Len(ChainSyncTags)
    BY DEF ChainSyncTags
  <1>5. d \in ChainSyncRest(type, vs)
    BY <1>2, <1>3, <1>4 DEF Decode, Tagged
  <1> HIDE DEF type, vs
  <1>6. /\ Shape(vs, <<"array", "array">>) =>
             /\ Shape(w, <<"integer", "array", "array">>)
             /\ vs[1] = w[2] /\ vs[2] = w[3]
        /\ Shape(vs, <<"array">>) =>
             Shape(w, <<"integer", "array">>) /\ vs[1] = w[2]
        /\ vs = << >> => Shape(w, <<"integer">>)
    BY <1>1, <1>2 DEF Shape, Starts
  <1>7. CASE type = "RollForward"
    <2>1. Shape(vs, <<"array", "array">>) /\ \E h \in WrappedOf(vs[1][2]),
            t \in TipOf(vs[2][2]) : d = <<type, h, t>>
      BY <1>5, <1>7 DEF ChainSyncRest
    <2> QED
      BY <1>6, <1>7, <2>1 DEF type
  <1>8. CASE type \in {"RollBackward", "IntersectFound"}
    <2>1. Shape(vs, <<"array", "array">>) /\ \E p \in PointOf(vs[1][2]),
            t \in TipOf(vs[2][2]) : d = <<type, p, t>>
      BY <1>5, <1>8 DEF ChainSyncRest
    <2> QED
      BY <1>6, <1>8, <2>1 DEF type
  <1>9. CASE type = "FindIntersect"
    <2>1. Shape(vs, <<"array">>) /\ \E ps \in PointListOf(vs[1][2]) : d = <<type, ps>>
      BY <1>5, <1>9 DEF ChainSyncRest
    <2> QED
      BY <1>6, <1>9, <2>1 DEF type
  <1>10. CASE type = "IntersectNotFound"
    <2>1. Shape(vs, <<"array">>) /\ \E t \in TipOf(vs[1][2]) : d = <<type, t>>
      BY <1>5, <1>10 DEF ChainSyncRest
    <2> QED
      BY <1>6, <1>10, <2>1 DEF type
  <1>11. CASE type \in {"RequestNext", "AwaitReply", "Done"}
    <2>1. vs = << >>
      BY <1>5, <1>11 DEF ChainSyncRest
    <2> QED
      BY <1>6, <1>11, <2>1 DEF type
  <1> QED
    BY <1>7, <1>8, <1>9, <1>10, <1>11 DEF type

(* ... and of block-fetch.                                                 *)
LEMMA BlockFetchMade ==
  ASSUME NEW w, Sound(w), Len(w) > 0, NEW k \in 0..5, w[1] = Integer(k),
         NEW d \in Decode("blockfetch", w)
  PROVE  LET type == BlockFetchTags[k + 1]
         IN  /\ type = "RequestRange" =>
                  /\ Shape(w, <<"integer", "array", "array">>)
                  /\ PointOf(w[2][2]) # {} /\ PointOf(w[3][2]) # {}
             /\ type = "Block" => Shape(w, <<"integer", "bytes">>)
             /\ type \in {"ClientDone", "StartBatch", "NoBlocks", "BatchDone"} =>
                  Shape(w, <<"integer">>)
  <1> DEFINE type == BlockFetchTags[k + 1]
             vs == Tail(w)
  <1>1. /\ Len(w) \in Nat /\ Len(vs) = Len(w) - 1
        /\ \A i \in 1..(Len(w) - 1) : vs[i] = w[i + 1]
    BY Followers DEF Sound, Plain, List
  <1>2. w[1][1] = "integer" /\ w[1][2] = k
    BY DEF Integer
  <1>3. Starts(w, <<"integer">>)
    BY <1>1, <1>2 DEF Starts
  <1>4. k + 1 \in 1..Len(BlockFetchTags)
    BY DEF BlockFetchTags
  <1>5. d \in BlockFetchRest(type, vs)
    BY <1>2, <1>3, <1>4 DEF Decode, Tagged
  <1> HIDE DEF type, vs
  <1>6. /\ Shape(vs, <<"array", "array">>) =>
             /\ Shape(w, <<"integer", "array", "array">>)
             /\ vs[1] = w[2] /\ vs[2] = w[3]
        /\ Shape(vs, <<"bytes">>) => Shape(w, <<"integer", "bytes">>)
        /\ vs = << >> => Shape(w, <<"integer">>)
    BY <1>1, <1>2 DEF Shape, Starts
  <1>7. CASE type = "RequestRange"
    <2>1. Shape(vs, <<"array", "array">>) /\ \E p \in PointOf(vs[1][2]),
            q \in PointOf(vs[2][2]) : d = <<type, p, q>>
      BY <1>5, <1>7 DEF BlockFetchRest
    <2> QED
      BY <1>6, <1>7, <2>1 DEF type
  <1>8. CASE type = "Block"
    <2>1. Shape(vs, <<"bytes">>)
      BY <1>5, <1>8 DEF BlockFetchRest
    <2> QED
      BY <1>6, <1>8, <2>1 DEF type
  <1>9. CASE type \in {"ClientDone", "StartBatch", "NoBlocks", "BatchDone"}
    <2>1. vs = << >>
      BY <1>5, <1>9 DEF BlockFetchRest
    <2> QED
      BY <1>6, <1>9, <2>1 DEF type
  <1> QED
    BY <1>7, <1>8, <1>9 DEF type

(* The shapes of messages: a tag alone,                                    *)
LEMMA AloneDamaged ==
  ASSUME NEW damage \in Mild, NEW k,
         NEW w \in Damages(damage, <<Integer(k)>>),
         Starts(w, <<"integer">>)
  PROVE  w[1] = Integer(k) /\ ~Shape(w, <<"integer">>)
  <1> DEFINE vs == <<Integer(k)>>
  <1>1. /\ List(vs) /\ Len(vs) = 1 /\ vs[1] = Integer(k)
        /\ vs[1][1] = "integer"
        /\ Shape(vs, <<"integer">>)
    BY Tuples DEF Integer, Shape, Starts
  <1>2. w \in Damages(damage, vs)
    OBVIOUS
  <1> HIDE DEF vs
  <1>3. Len(<<"integer">>) \in Nat
    OBVIOUS
  <1> QED
    BY <1>1, <1>2, <1>3, DamagedWithin

(* ... a tag and bytes,                                                    *)
LEMMA BytesDamaged ==
  ASSUME NEW damage \in Mild, NEW k, NEW b,
         NEW w \in Damages(damage, <<Integer(k), Bytes(b)>>),
         Starts(w, <<"integer">>)
  PROVE  w[1] = Integer(k) /\ ~Shape(w, <<"integer", "bytes">>)
  <1> DEFINE vs == <<Integer(k), Bytes(b)>>
             kinds == <<"integer", "bytes">>
  <1>1. /\ List(vs) /\ Len(vs) = 2 /\ vs[1] = Integer(k)
        /\ vs[1][1] = "integer" /\ vs[2][1] = "bytes"
        /\ Shape(vs, kinds) /\ Len(kinds) \in Nat
    BY Tuples DEF Integer, Bytes, Shape, Starts
  <1>2. w \in Damages(damage, vs)
    OBVIOUS
  <1> HIDE DEF vs, kinds
  <1>3. w[1] = Integer(k) /\ ~Shape(w, kinds)
    BY <1>1, <1>2, DamagedWithin
  <1> QED
    BY <1>3 DEF kinds

(* ... a tag and a list,                                                   *)
LEMMA ListDamaged ==
  ASSUME NEW damage \in Mild, NEW k, NEW a,
         NEW w \in Damages(damage, <<Integer(k), Array(a)>>),
         Starts(w, <<"integer">>)
  PROVE  /\ w[1] = Integer(k)
         /\ Shape(w, <<"integer", "array">>) =>
              \E u \in Second(damage, a) : w[2] = Array(u)
  <1> DEFINE vs == <<Integer(k), Array(a)>>
             kinds == <<"integer", "array">>
  <1>1. /\ List(vs) /\ Len(vs) = 2 /\ vs[1] = Integer(k)
        /\ vs[1][1] = "integer" /\ vs[2][1] = "array" /\ vs[2][2] = a
        /\ Shape(vs, kinds) /\ Len(kinds) \in Nat
    BY Tuples DEF Integer, Array, Shape, Starts
  <1>2. w \in Damages(damage, vs)
    OBVIOUS
  <1> HIDE DEF vs, kinds
  <1>3. /\ w[1] = Integer(k)
        /\ Shape(w, kinds) => \E u \in Second(damage, a) : w[2] = Array(u)
    BY <1>1, <1>2, DamagedWithin
  <1> QED
    BY <1>3 DEF kinds

(* ... a tag and two lists.                                                *)
LEMMA ListsDamaged ==
  ASSUME NEW damage \in Mild, NEW k, NEW a, NEW b,
         NEW w \in Damages(damage, <<Integer(k), Array(a), Array(b)>>),
         Starts(w, <<"integer">>)
  PROVE  /\ w[1] = Integer(k)
         /\ Shape(w, <<"integer", "array", "array">>) =>
              \/ \E u \in Second(damage, a) : w[2] = Array(u)
              \/ \E u \in Second(damage, b) : w[3] = Array(u)
  <1> DEFINE vs == <<Integer(k), Array(a), Array(b)>>
             kinds == <<"integer", "array", "array">>
  <1>1. /\ List(vs) /\ Len(vs) = 3 /\ vs[1] = Integer(k)
        /\ vs[1][1] = "integer" /\ vs[2][1] = "array" /\ vs[3][1] = "array"
        /\ vs[2][2] = a /\ vs[3][2] = b
        /\ Shape(vs, kinds) /\ Len(kinds) \in Nat
    BY Tuples DEF Integer, Array, Shape, Starts
  <1>2. w \in Damages(damage, vs)
    OBVIOUS
  <1> HIDE DEF vs, kinds
  <1>3. /\ w[1] = Integer(k)
        /\ Shape(w, kinds) =>
             \/ \E u \in Second(damage, a) : w[2] = Array(u)
             \/ \E u \in Second(damage, b) : w[3] = Array(u)
    BY <1>1, <1>2, DamagedWithin
  <1> QED
    BY <1>3 DEF kinds

(* A damaged message of chain-sync is refused, FindIntersect apart         *)
(* (chainsync.rs:52-75).                                                   *)
LEMMA ChainSyncLost ==
  ASSUME NEW damage \in Mild, NEW m \in ChainSyncMessages,
         m[1] # "FindIntersect", NEW w \in Damages(damage, ChainSyncValues(m))
  PROVE  Decode("chainsync", w) = {}
  <1> SUFFICES ASSUME NEW d \in Decode("chainsync", w) PROVE FALSE
    OBVIOUS
  <1>1. \/ m \in { <<t>> : t \in {"RequestNext", "AwaitReply", "Done"} }
        \/ m \in {"RollForward"} \X Hashes \X Tips
        \/ m \in {"RollBackward", "IntersectFound"} \X Points \X Tips
        \/ m \in {"IntersectNotFound"} \X Tips
    BY DEF ChainSyncMessages
  <1>2. Starts(w, <<"integer">>) /\ Sound(w) /\ Len(w) > 0
    <2>1. Starts(w, <<"integer">>)
      BY DEF Decode, Tagged
    <2>2. Sound(w)
      BY ChainSyncSound, DamagesKeep DEF Mild, Harm
    <2> QED
      BY <2>1, <2>2 DEF Starts, Sound, Plain, List
  <1>3. /\ ChainSyncTags[1] = "RequestNext" /\ ChainSyncTags[2] = "AwaitReply"
        /\ ChainSyncTags[3] = "RollForward" /\ ChainSyncTags[4] = "RollBackward"
        /\ ChainSyncTags[6] = "IntersectFound"
        /\ ChainSyncTags[7] = "IntersectNotFound" /\ ChainSyncTags[8] = "Done"
    BY DEF ChainSyncTags
  <1>4. \A u : Array(u)[2] = u
    BY DEF Array
  <1>5. CASE m \in { <<t>> : t \in {"RequestNext", "AwaitReply", "Done"} }
    <2>1. PICK k \in {0, 1, 7} : ChainSyncValues(m) = <<Integer(k)>>
      BY <1>5, ChainSyncWire
    <2>2. w[1] = Integer(k) /\ ~Shape(w, <<"integer">>)
      BY <1>2, <2>1, AloneDamaged
    <2> QED
      BY <1>2, <1>3, <2>2, ChainSyncMade
  <1>6. CASE m \in {"RollForward"} \X Hashes \X Tips
    <2>1. PICK h \in Hashes, t \in Tips : m = <<"RollForward", h, t>>
      BY <1>6
    <2>2. ChainSyncValues(m)
            = <<Integer(2), Array(WrappedValues(h)), Array(TipValues(t))>>
      BY <2>1, ChainSyncWire
    <2>3. /\ w[1] = Integer(2)
          /\ Shape(w, <<"integer", "array", "array">>) =>
               \/ \E u \in Second(damage, WrappedValues(h)) : w[2] = Array(u)
               \/ \E u \in Second(damage, TipValues(t)) : w[3] = Array(u)
      BY <1>2, <2>2, ListsDamaged
    <2>4. /\ Shape(w, <<"integer", "array", "array">>)
          /\ WrappedOf(w[2][2]) # {} /\ TipOf(w[3][2]) # {}
      BY <1>2, <1>3, <2>3, ChainSyncMade
    <2> QED
      BY <1>4, <2>3, <2>4, WrappedLost, TipLost
  <1>7. CASE m \in {"RollBackward", "IntersectFound"} \X Points \X Tips
    <2>1. PICK y \in {"RollBackward", "IntersectFound"}, p \in Points, t \in Tips :
            m = <<y, p, t>>
      BY <1>7
    <2>2. PICK k \in {3, 5} :
            /\ ChainSyncValues(m)
                 = <<Integer(k), Array(PointValues(p)), Array(TipValues(t))>>
            /\ ChainSyncTags[k + 1] = y
      BY <2>1, <1>3, ChainSyncWire
    <2>3. /\ w[1] = Integer(k)
          /\ Shape(w, <<"integer", "array", "array">>) =>
               \/ \E u \in Second(damage, PointValues(p)) : w[2] = Array(u)
               \/ \E u \in Second(damage, TipValues(t)) : w[3] = Array(u)
      BY <1>2, <2>2, ListsDamaged
    <2>4. /\ Shape(w, <<"integer", "array", "array">>)
          /\ PointOf(w[2][2]) # {} /\ TipOf(w[3][2]) # {}
      BY <1>2, <2>2, <2>3, ChainSyncMade
    <2> QED
      BY <1>4, <2>3, <2>4, PointLost, TipLost
  <1>8. CASE m \in {"IntersectNotFound"} \X Tips
    <2>1. PICK t \in Tips : m = <<"IntersectNotFound", t>>
      BY <1>8
    <2>2. ChainSyncValues(m) = <<Integer(6), Array(TipValues(t))>>
      BY <2>1, ChainSyncWire
    <2>3. /\ w[1] = Integer(6)
          /\ Shape(w, <<"integer", "array">>) =>
               \E u \in Second(damage, TipValues(t)) : w[2] = Array(u)
      BY <1>2, <2>2, ListDamaged
    <2>4. Shape(w, <<"integer", "array">>) /\ TipOf(w[2][2]) # {}
      BY <1>2, <1>3, <2>3, ChainSyncMade
    <2> QED
      BY <1>4, <2>3, <2>4, TipLost
  <1> QED
    BY <1>1, <1>5, <1>6, <1>7, <1>8

(* A damaged message of block-fetch is refused (blockfetch.rs:40-53).      *)
LEMMA BlockFetchLost ==
  ASSUME NEW damage \in Mild, NEW m \in BlockFetchMessages,
         NEW w \in Damages(damage, BlockFetchValues(m))
  PROVE  Decode("blockfetch", w) = {}
  <1> DEFINE Words == {"ClientDone", "StartBatch", "NoBlocks", "BatchDone"}
  <1> SUFFICES ASSUME NEW d \in Decode("blockfetch", w) PROVE FALSE
    OBVIOUS
  <1>1. \/ m \in { <<t>> : t \in Words }
        \/ m \in {"RequestRange"} \X Points \X Points
        \/ m \in {"Block"} \X Hashes
    BY DEF BlockFetchMessages
  <1>2. Starts(w, <<"integer">>) /\ Sound(w) /\ Len(w) > 0
    <2>1. Starts(w, <<"integer">>)
      BY DEF Decode, Tagged
    <2>2. Sound(w)
      BY BlockFetchSound, DamagesKeep DEF Mild, Harm
    <2> QED
      BY <2>1, <2>2 DEF Starts, Sound, Plain, List
  <1>3. /\ BlockFetchTags[1] = "RequestRange" /\ BlockFetchTags[2] = "ClientDone"
        /\ BlockFetchTags[3] = "StartBatch" /\ BlockFetchTags[4] = "NoBlocks"
        /\ BlockFetchTags[5] = "Block" /\ BlockFetchTags[6] = "BatchDone"
    BY DEF BlockFetchTags
  <1>4. \A u : Array(u)[2] = u
    BY DEF Array
  <1>5. CASE m \in { <<t>> : t \in Words }
    <2>1. PICK k \in {1, 2, 3, 5} : BlockFetchValues(m) = <<Integer(k)>>
      BY <1>5, BlockFetchWire
    <2>2. w[1] = Integer(k) /\ ~Shape(w, <<"integer">>)
      BY <1>2, <2>1, AloneDamaged
    <2> QED
      BY <1>2, <1>3, <2>2, BlockFetchMade
  <1>6. CASE m \in {"RequestRange"} \X Points \X Points
    <2>1. PICK p \in Points, q \in Points : m = <<"RequestRange", p, q>>
      BY <1>6
    <2>2. BlockFetchValues(m)
            = <<Integer(0), Array(PointValues(p)), Array(PointValues(q))>>
      BY <2>1, BlockFetchWire
    <2>3. /\ w[1] = Integer(0)
          /\ Shape(w, <<"integer", "array", "array">>) =>
               \/ \E u \in Second(damage, PointValues(p)) : w[2] = Array(u)
               \/ \E u \in Second(damage, PointValues(q)) : w[3] = Array(u)
      BY <1>2, <2>2, ListsDamaged
    <2>4. /\ Shape(w, <<"integer", "array", "array">>)
          /\ PointOf(w[2][2]) # {} /\ PointOf(w[3][2]) # {}
      BY <1>2, <1>3, <2>3, BlockFetchMade
    <2> QED
      BY <1>4, <2>3, <2>4, PointLost
  <1>7. CASE m \in {"Block"} \X Hashes
    <2>1. PICK b \in Hashes : m = <<"Block", b>>
      BY <1>7
    <2>2. BlockFetchValues(m) = <<Integer(4), Bytes(b)>>
      BY <2>1, BlockFetchWire
    <2>3. w[1] = Integer(4) /\ ~Shape(w, <<"integer", "bytes">>)
      BY <1>2, <2>2, BytesDamaged
    <2> QED
      BY <1>2, <1>3, <2>3, BlockFetchMade
  <1> QED
    BY <1>1, <1>5, <1>6, <1>7

(* A damaged header is refused, at every depth (protocols.rs:300-352).     *)
LEMMA HeaderLost ==
  ASSUME NEW damage \in Mild, NEW h, NEW w \in Damages(damage, HeaderValues(h))
  PROVE  HeaderOf(w) = {}
  <1> DEFINE a == HeaderValues(h)[1][2]
             vs == HeaderValues(h)
  <1>1. /\ vs = <<Array(a)>> /\ List(a) /\ Len(a) = 15 /\ Shape(a, HeaderKinds)
        /\ \A i \in 1..15 : a[i][1] = "array" =>
             i \in {6, 7} /\ \E x, y : a[i][2] = <<Bytes(x), Bytes(y)>>
    BY HeaderList
  <1>2. w \in Damages(damage, vs)
    OBVIOUS
  <1> HIDE DEF a, vs
  <1>3. /\ List(vs) /\ Len(vs) = 1 /\ vs[1][1] = "array" /\ vs[1][2] = a
        /\ Shape(vs, <<"array">>)
    BY <1>1, Tuples DEF Array, Shape, Starts
  <1>4. CASE w \in Flat(damage, vs)
    <2>1. ~Shape(w, <<"array">>)
      BY <1>3, <1>4, ShapeLost
    <2> QED
      BY <2>1 DEF HeaderOf
  <1>5. ASSUME NEW u \in Second(damage, a), Within(vs, 1, Array(u), w)
        PROVE  HeaderOf(w) = {}
    <2>1. w[1][2] = u
      BY <1>3, <1>5 DEF Within, Array
    <2>2. CASE u \in Flat(damage, a)
      <3>1. Len(HeaderKinds) \in Nat
        BY DEF HeaderKinds
      <3>2. ~Shape(u, HeaderKinds)
        BY <1>1, <2>2, <3>1, ShapeLost
      <3> QED
        BY <2>1, <3>2 DEF HeaderOf
    <2>3. ASSUME NEW i \in 1..15, a[i][1] = "array",
                 NEW x \in Flat(damage, a[i][2]), Within(a, i, Array(x), u)
          PROVE  HeaderOf(w) = {}
      <3>1. PICK y, z : a[i][2] = <<Bytes(y), Bytes(z)>>
        BY <1>1, <2>3
      <3>2. i \in {6, 7} /\ u[i][2] = x
        BY <1>1, <2>3 DEF Within, Array
      <3> DEFINE pair == a[i][2]
      <3>3. List(pair) /\ Shape(pair, PairKinds) /\ Len(PairKinds) \in Nat
        BY <3>1, Tuples DEF PairKinds, Shape, Starts, Bytes
      <3> HIDE DEF pair
      <3>4. ~Shape(x, PairKinds)
        BY <2>3, <3>3, ShapeLost DEF pair
      <3> QED
        BY <2>1, <3>2, <3>4 DEF HeaderOf
    <2> QED
      BY <1>1, <2>2, <2>3, SecondCases
  <1>6. \/ w \in Flat(damage, vs)
        \/ \E u \in Second(damage, a) : Within(vs, 1, Array(u), w)
    <2>1. \A i \in 1..Len(vs) : i = 1 /\ vs[i][1] # "map"
      BY <1>3
    <2> QED
      BY <1>2, <1>3, <2>1, DamagesCases
  <1> QED
    BY <1>4, <1>5, <1>6

(* A reader without end() sees what is cut or retyped, and not what is     *)
(* added behind (handshake.rs:50-76).                                      *)
LEMMA StartLost ==
  ASSUME NEW damage \in {"cut", "retyped"}, NEW vs, List(vs),
         NEW w \in Flat(damage, vs), NEW kinds, Len(kinds) \in Nat, Shape(vs, kinds)
  PROVE  ~Starts(w, kinds)
  <1>0. Len(vs) \in Nat /\ Len(vs) = Len(kinds)
    BY DEF List, Shape
  <1>1. CASE damage = "cut"
    BY <1>0, <1>1, CutFlat DEF Starts
  <1>2. CASE damage = "retyped"
    BY <1>0, <1>2, RetypedFlat DEF Shape, Starts
  <1> QED
    BY <1>1, <1>2

(* ... whatever stands behind what it reads.                               *)
LEMMA StartKept ==
  ASSUME NEW vs, List(vs), NEW w \in Flat("extended", vs),
         NEW kinds, Len(kinds) \in Nat, Shape(vs, kinds)
  PROVE  Starts(w, kinds) /\ \A i \in 1..Len(kinds) : w[i] = vs[i]
  <1>1. Len(vs) \in Nat /\ Len(vs) = Len(kinds)
    BY DEF List, Shape
  <1> QED
    BY <1>1, ExtendedFlat DEF Shape, Starts

(* Parameters in an array that are damaged give no magic, or the same one  *)
(* if something is added.                                                  *)
LEMMA ParamsHarmed ==
  ASSUME NEW damage \in Mild, NEW x \in Magics,
         NEW u \in Flat(damage, <<Integer(x), Bool(FALSE)>>)
  PROVE  ArrayMagicOf(u) = IF damage = "extended" THEN {x} ELSE {}
  <1> DEFINE vs == <<Integer(x), Bool(FALSE)>>
             kinds == <<"integer", "bool">>
  <1>1. List(vs) /\ Shape(vs, kinds)
    <2>1. \A b : List(<<Integer(x), Bool(b)>>)
      BY Tuples
    <2>2. \A b : Shape(<<Integer(x), Bool(b)>>, kinds)
      BY DEF Integer, Bool, Shape, Starts
    <2> QED
      BY <2>1, <2>2
  <1>2. ArrayMagicOf(vs) = {x} /\ u \in Flat(damage, vs)
    BY ArrayMagicBack
  <1>3. Len(kinds) = 2
    OBVIOUS
  <1> HIDE DEF vs, kinds
  <1>4. CASE damage = "extended"
    <2>1. Starts(u, kinds) /\ u[1] = vs[1] /\ u[2] = vs[2]
      BY <1>1, <1>2, <1>3, <1>4, StartKept
    <2>2. ArrayMagicOf(u) = ArrayMagicOf(vs)
      BY <1>1, <2>1 DEF ArrayMagicOf, Shape, kinds
    <2> QED
      BY <1>2, <1>4, <2>2
  <1>5. CASE damage \in {"cut", "retyped"}
    <2>1. ~Starts(u, kinds)
      BY <1>1, <1>2, <1>3, <1>5, StartLost
    <2> QED
      BY <1>5, <2>1 DEF ArrayMagicOf, kinds
  <1> QED
    BY <1>4, <1>5 DEF Mild

(* The parameters of a version are damaged, and so is its number.          *)
LEMMA VersionHarmed ==
  ASSUME NEW damage \in Mild, NEW v \in Supported, NEW x \in Magics,
         NEW new \in Second(damage, VersionValues(v, x)), Len(new) = 2
  PROVE  \/ VersionOf(new) = {}
         \/ damage = "extended" /\ VersionOf(new) = {<<v, x>>}
  <1> DEFINE pair == VersionValues(v, x)
             params == <<Integer(x), Bool(FALSE)>>
  <1>1. /\ List(pair) /\ Len(pair) = 2
        /\ pair[1] = Integer(Number(v)) /\ pair[2] = Params(v, x)
        /\ pair[1][1] = "integer"
    BY Tuples DEF VersionValues, Integer
  <1>2. new \in Second(damage, pair)
    OBVIOUS
  <1>3. /\ InArray(v) => Params(v, x) = Array(params)
        /\ ~InArray(v) => Params(v, x) = Integer(x)
    BY DEF Params
  <1>4. \A l : Array(l)[1] = "array" /\ Array(l)[2] = l
    BY DEF Array
  <1>5. \A n : Integer(n)[1] = "integer"
    BY DEF Integer
  <1>6. Text[1] \notin {"array", "integer"}
    BY DEF Text
  <1> HIDE DEF pair, params
  <1>7. CASE new \in Flat(damage, pair)
    <2>1. damage = "retyped"
      BY <1>1, <1>7, CutFlat, ExtendedFlat DEF Mild
    <2>2. PICK i \in 1..2 :
            /\ new[i] \in {Text, Array(<< >>)} /\ new[i][1] # pair[i][1]
            /\ \A k \in 1..2 : k # i => new[k] = pair[k]
      <3>1. new \in Flat("retyped", pair) /\ List(pair) /\ Len(pair) = 2
        BY <1>1, <1>7, <2>1
      <3>2. \E i \in 1..Len(pair) :
              /\ new[i] \in {Text, Array(<< >>)} /\ new[i][1] # pair[i][1]
              /\ \A k \in 1..Len(pair) : k # i => new[k] = pair[k]
        BY <3>1, RetypedFlat, Zenon
      <3> QED
        BY <3>1, <3>2, Zenon
    <2>3. CASE i = 1
      <3>1. new[1][1] # "integer"
        BY <1>1, <2>2, <2>3
      <3> QED
        BY <3>1 DEF VersionOf
    <2>4. CASE i = 2
      <3>1. /\ new[1] = Integer(Number(v))
            /\ new[2] \in {Text, Array(<< >>)} /\ new[2][1] # Params(v, x)[1]
        BY <1>1, <2>2, <2>4
      <3>2. ~(InArray(v) /\ new[2][1] = "array")
            /\ ~(~InArray(v) /\ new[2][1] = "integer")
        BY <1>3, <1>4, <1>5, <1>6, <3>1
      <3>3. MagicOf(v, new[2]) = {}
        BY <3>2 DEF MagicOf
      <3> QED
        BY <3>1, <3>3, VersionMade
    <2> QED
      BY <2>2, <2>3, <2>4
  <1>8. CASE new \notin Flat(damage, pair)
    <2>1. PICK i \in 1..2 :
            /\ pair[i][1] = "array"
            /\ \E u \in Flat(damage, pair[i][2]) : Within(pair, i, Array(u), new)
      BY <1>1, <1>2, <1>8, SecondCases
    <2>2. i = 2 /\ InArray(v)
      BY <1>1, <1>3, <1>5, <2>1
    <2>3. PICK u \in Flat(damage, params) : Within(pair, 2, Array(u), new)
      BY <1>1, <1>3, <1>4, <2>1, <2>2
    <2>4. new[1] = Integer(Number(v)) /\ new[2] = Array(u)
      BY <1>1, <2>3 DEF Within
    <2>5. MagicOf(v, new[2]) = ArrayMagicOf(u)
      BY <1>4, <2>2, <2>4 DEF MagicOf
    <2>6. VersionOf(new) = { <<v, y>> : y \in ArrayMagicOf(u) }
      BY <2>4, <2>5, VersionMade
    <2>7. ArrayMagicOf(u) = IF damage = "extended" THEN {x} ELSE {}
      BY <2>3, ParamsHarmed DEF params
    <2> QED
      BY <2>6, <2>7
  <1> QED
    BY <1>7, <1>8

(* What the handshake makes of a proposal and of an acceptance, by its     *)
(* tag.                                                                    *)
LEMMA HandshakeMade ==
  ASSUME NEW w
  PROVE  /\ w[1] = Integer(0) => HandshakeOf(w) =
              IF /\ Starts(w, <<"integer", "map">>)
                 /\ \A pair \in w[2][2] : VersionOf(pair) # {}
                THEN {<<"ProposeVersions",
                        UNION { VersionOf(pair) : pair \in w[2][2] }>>}
                ELSE {}
         /\ w[1] = Integer(1) => HandshakeOf(w) =
              IF Starts(w, <<"integer", "integer", "array">>)
                THEN { <<"AcceptVersion", FromU16(Unsigned(w[2][2], Word16)), x>> :
                         x \in ArrayMagicOf(w[3][2]) }
                ELSE {}
         /\ HandshakeOf(w) # {} => Starts(w, <<"integer">>)
  <1>1. w[1] = Integer(0) => w[1][2] = 0
    BY DEF Integer
  <1>2. w[1] = Integer(1) => w[1][2] = 1
    BY DEF Integer
  <1>3. HandshakeOf(w) # {} => Starts(w, <<"integer">>)
    <2>1. HandshakeOf(w) # {} =>
            \/ Starts(w, <<"integer", "map">>)
            \/ Starts(w, <<"integer", "integer", "array">>)
            \/ Starts(w, <<"integer", "array">>)
      BY DEF HandshakeOf
    <2>2. /\ Starts(w, <<"integer", "map">>) => Starts(w, <<"integer">>)
          /\ Starts(w, <<"integer", "integer", "array">>) => Starts(w, <<"integer">>)
          /\ Starts(w, <<"integer", "array">>) => Starts(w, <<"integer">>)
      BY DEF Starts
    <2> QED
      BY <2>1, <2>2
  <1> QED
    BY <1>1, <1>2, <1>3 DEF HandshakeOf

(* A refusal of the crate is not read, and not by being damaged either.    *)
LEMMA RefusalHarmed ==
  ASSUME NEW damage \in Mild, NEW w \in Damages(damage, <<Integer(1), Refusal>>)
  PROVE  HandshakeOf(w) = {}
  <1> SUFFICES ASSUME HandshakeOf(w) # {} PROVE FALSE
    OBVIOUS
  <1> DEFINE vs == <<Integer(1), Refusal>>
  <1>1. /\ List(vs) /\ Len(vs) = 2 /\ vs[1] = Integer(1)
        /\ vs[1][1] = "integer" /\ vs[2][1] = "array"
        /\ Shape(vs, <<"integer", "array">>)
    BY Tuples DEF Integer, Refusal, Array, Shape, Starts
  <1>2. w \in Damages(damage, vs) /\ Starts(w, <<"integer">>)
    BY HandshakeMade
  <1>3. Len(<<"integer", "array">>) = 2
    OBVIOUS
  <1> HIDE DEF vs
  <1>4. w[1] = Integer(1)
    BY <1>1, <1>2, <1>3, DamagedWithin
  <1>5. Len(w) >= 3 /\ w[2][1] = "integer"
    BY <1>4, HandshakeMade DEF Starts
  <1>6. CASE w \in Flat(damage, vs)
    <2>1. CASE damage = "cut"
      BY <1>1, <1>5, <1>6, <2>1, CutFlat
    <2>2. CASE damage = "extended"
      BY <1>1, <1>5, <1>6, <2>2, ExtendedFlat
    <2>3. CASE damage = "retyped"
      BY <1>1, <1>5, <1>6, <2>3, RetypedFlat
    <2> QED
      BY <2>1, <2>2, <2>3 DEF Mild
  <1>7. CASE w \notin Flat(damage, vs)
    BY <1>1, <1>2, <1>5, <1>7, DamagesCases DEF Within
  <1> QED
    BY <1>6, <1>7

(* A damaged acceptance is refused, or taken for what was meant if         *)
(* something is added (handshake.rs:61-63).                                *)
LEMMA AcceptanceHarmed ==
  ASSUME NEW damage \in Mild, NEW v \in Supported, NEW x \in Magics,
         NEW m, m = <<"AcceptVersion", v, x>>,
         NEW w \in Damages(damage, HandshakeValues(m))
  PROVE  HandshakeOf(w) \subseteq IF damage = "extended" THEN {m} ELSE {}
  <1> DEFINE vs == HandshakeValues(m)
             params == <<Integer(x), Bool(FALSE)>>
             kinds == <<"integer", "integer", "array">>
  <1>1. /\ HandshakeOf(vs) = {m}
        /\ vs = <<Integer(1), Integer(Number(v)), Array(params)>>
    <2>1. m \in Messages("handshake") /\ m # Refuse
      BY DEF Messages, HandshakeMessages, Refuse
    <2> QED
      BY <2>1, HandshakeBack DEF Encode, Decode, HandshakeValues
  <1>2. w \in Damages(damage, vs)
    OBVIOUS
  <1> HIDE DEF vs, params
  <1>3. /\ List(vs) /\ Len(vs) = 3 /\ vs[1] = Integer(1) /\ vs[3][2] = params
        /\ vs[1][1] = "integer" /\ vs[2][1] = "integer" /\ vs[3][1] = "array"
        /\ Shape(vs, kinds) /\ Len(kinds) = 3
    BY <1>1, Tuples DEF Integer, Array, Shape, Starts
  <1> HIDE DEF kinds
  <1> SUFFICES ASSUME HandshakeOf(w) # {}
               PROVE  HandshakeOf(w) = {m} /\ damage = "extended"
    OBVIOUS
  <1>4. w[1] = vs[1]
    <2>1. Starts(w, <<"integer">>)
      BY HandshakeMade
    <2>2. \A i \in 1..Len(vs) : vs[i][1] # "map"
      BY <1>3
    <2> QED
      BY <1>2, <1>3, <2>1, <2>2, DamagedWithin
  <1>5. \A l : l[1] = Integer(1) => HandshakeOf(l) =
          IF Starts(l, kinds)
            THEN { <<"AcceptVersion", FromU16(Unsigned(l[2][2], Word16)), y>> :
                     y \in ArrayMagicOf(l[3][2]) }
            ELSE {}
    BY HandshakeMade DEF kinds
  <1>6. Starts(w, kinds) /\ Starts(vs, kinds)
    BY <1>3, <1>4, <1>5 DEF Shape
  <1>7. CASE w \in Flat(damage, vs)
    <2>1. damage = "extended"
      BY <1>3, <1>6, <1>7, StartLost DEF Mild
    <2>2. w[2] = vs[2] /\ w[3] = vs[3]
      BY <1>3, <1>7, <2>1, StartKept
    <2>3. HandshakeOf(w) = HandshakeOf(vs)
      BY <1>3, <1>4, <1>5, <1>6, <2>2
    <2> QED
      BY <1>1, <2>1, <2>3
  <1>8. CASE w \notin Flat(damage, vs)
    <2>1. PICK u \in Second(damage, params) : Within(vs, 3, Array(u), w)
      BY <1>2, <1>3, <1>8, DamagesCases
    <2>2. w[2] = vs[2] /\ w[3][2] = u
      BY <1>3, <2>1 DEF Within, Array
    <2>3. List(params) /\ \A i \in 1..Len(params) : params[i][1] # "array"
      <3>1. \A b : /\ List(<<Integer(x), Bool(b)>>)
                   /\ \A i \in 1..2 : <<Integer(x), Bool(b)>>[i][1] # "array"
        BY Tuples DEF Integer, Bool
      <3>2. \A b : Len(<<Integer(x), Bool(b)>>) = 2
        OBVIOUS
      <3> QED
        BY <3>1, <3>2 DEF params
    <2>4. u \in Flat(damage, params)
      BY <2>1, <2>3, SecondCases
    <2>5. ArrayMagicOf(u) = IF damage = "extended" THEN {x} ELSE {}
      BY <2>4, ParamsHarmed DEF params
    <2>6. ArrayMagicOf(vs[3][2]) = {x}
      BY <1>3, ArrayMagicBack DEF params
    <2>7. HandshakeOf(w) =
            { <<"AcceptVersion", FromU16(Unsigned(vs[2][2], Word16)), y>> :
                y \in ArrayMagicOf(u) }
      BY <1>3, <1>4, <1>5, <1>6, <2>2
    <2>8. damage = "extended"
      BY <2>5, <2>7
    <2>9. HandshakeOf(w) = HandshakeOf(vs)
      BY <1>3, <1>5, <1>6, <2>5, <2>6, <2>7, <2>8
    <2> QED
      BY <1>1, <2>8, <2>9
  <1> QED
    BY <1>7, <1>8

(* ... and so is a damaged proposal, also where the damage is in one of    *)
(* its versions (handshake.rs:52-58).                                      *)
LEMMA ProposalHarmed ==
  ASSUME NEW damage \in Mild, NEW o \in Proposals,
         NEW m, m = <<"ProposeVersions", o>>,
         NEW w \in Damages(damage, HandshakeValues(m))
  PROVE  HandshakeOf(w) \subseteq IF damage = "extended" THEN {m} ELSE {}
  <1> DEFINE vs == HandshakeValues(m)
             pairs == { VersionValues(p[1], p[2]) : p \in o }
             kinds == <<"integer", "map">>
             Union(l) == UNION { VersionOf(pair) : pair \in l }
  <1>1. HandshakeOf(vs) = {m} /\ vs = <<Integer(0), Map(pairs)>>
    <2>1. m \in Messages("handshake") /\ m # Refuse
      BY DEF Messages, HandshakeMessages, Refuse
    <2> QED
      BY <2>1, HandshakeBack DEF Encode, Decode, HandshakeValues
  <1>2. w \in Damages(damage, vs)
    OBVIOUS
  <1>3. o \subseteq Supported \X Magics
    BY DEF Proposals, Supported
  <1> HIDE DEF vs
  <1>4. /\ List(vs) /\ Len(vs) = 2 /\ vs[1] = Integer(0) /\ vs[2][2] = pairs
        /\ vs[1][1] = "integer" /\ vs[2][1] = "map"
        /\ Shape(vs, kinds) /\ Len(kinds) = 2
    BY <1>1, Tuples DEF Integer, Map, Shape, Starts
  <1>5. \A pair \in pairs : \E v \in Supported, x \in Magics :
          pair = VersionValues(v, x) /\ VersionOf(pair) = {<<v, x>>}
    BY <1>3, VersionBack
  <1> HIDE DEF kinds, pairs
  <1> SUFFICES ASSUME HandshakeOf(w) # {}
               PROVE  HandshakeOf(w) = {m} /\ damage = "extended"
    OBVIOUS
  <1>6. w \in Flat(damage, vs) => w[1] = vs[1]
    BY <1>4, HandshakeMade, TagKept
  <1>7. \A l : l[1] = Integer(0) => HandshakeOf(l) =
          IF Starts(l, kinds) /\ \A pair \in l[2][2] : VersionOf(pair) # {}
            THEN {<<"ProposeVersions", Union(l[2][2])>>} ELSE {}
    BY HandshakeMade DEF kinds
  <1> HIDE DEF Union
  <1>8. m = <<"ProposeVersions", Union(pairs)>>
    BY <1>1, <1>4, <1>7
  <1>9. CASE w \in Flat(damage, vs)
    <2>1. Starts(w, kinds)
      BY <1>4, <1>6, <1>7, <1>9
    <2>2. damage = "extended"
      BY <1>4, <1>9, <2>1, StartLost DEF Mild
    <2>3. w[2] = vs[2]
      BY <1>4, <1>9, <2>2, StartKept
    <2>4. HandshakeOf(w) = {m}
      BY <1>4, <1>6, <1>7, <1>8, <1>9, <2>3
    <2> QED
      BY <2>2, <2>4
  <1>10. CASE w \notin Flat(damage, vs)
    <2>0. PICK pair \in pairs : \E new \in Second(damage, pair) :
            Len(new) = 2 /\ Within(vs, 2, Exchange(pairs, pair, new), w)
      BY <1>2, <1>4, <1>10, DamagesCases
    <2>1. PICK new \in Second(damage, pair) :
            Len(new) = 2 /\ Within(vs, 2, Exchange(pairs, pair, new), w)
      BY <2>0
    <2> DEFINE others == (pairs \ {pair}) \cup {new}
    <2>2. w[1] = vs[1] /\ w[2][2] = others
      BY <1>4, <2>1 DEF Within, Exchange, Map
    <2>3. /\ HandshakeOf(w) = {<<"ProposeVersions", Union(others)>>}
          /\ VersionOf(new) # {}
      <3>1. new \in others
        OBVIOUS
      <3> QED
        BY <1>4, <1>7, <2>2, <3>1
    <2>4. PICK v \in Supported, x \in Magics :
            pair = VersionValues(v, x) /\ VersionOf(pair) = {<<v, x>>}
      BY <1>5
    <2>5. damage = "extended" /\ VersionOf(new) = VersionOf(pair)
      BY <2>1, <2>3, <2>4, VersionHarmed
    <2>6. Union(others) = Union(pairs)
      BY <2>5 DEF Union
    <2> QED
      BY <1>8, <2>3, <2>5, <2>6
  <1> QED
    BY <1>9, <1>10

(* ... and every message of the handshake.                                 *)
LEMMA HandshakeHarmed ==
  ASSUME NEW damage \in Mild, NEW m \in HandshakeMessages,
         NEW w \in Damages(damage, HandshakeValues(m))
  PROVE  HandshakeOf(w) \subseteq IF damage = "extended" THEN {m} ELSE {}
  <1>1. CASE m \in {"ProposeVersions"} \X Proposals
    <2>1. PICK o \in Proposals : m = <<"ProposeVersions", o>>
      BY <1>1
    <2> QED
      BY <2>1, ProposalHarmed
  <1>2. CASE m \in {"AcceptVersion"} \X Supported \X Magics
    <2>1. PICK v \in Supported, x \in Magics : m = <<"AcceptVersion", v, x>>
      BY <1>2
    <2> QED
      BY <2>1, AcceptanceHarmed
  <1>3. CASE m = Refuse
    <2>1. HandshakeValues(m) = <<Integer(1), Refusal>>
      BY <1>3 DEF HandshakeValues, Refuse
    <2> QED
      BY <2>1, RefusalHarmed
  <1> QED
    BY <1>1, <1>2, <1>3 DEF HandshakeMessages

-----------------------------------------------------------------------------
(* FindIntersect.  Where its list ends with something else than an array,  *)
(* the loop over the points swallows that (chainsync.rs:62).               *)
EndsBare(w) ==
  /\ Starts(w, <<"integer", "array">>) /\ w[1][2] = 4
  /\ w[2][2] # << >> /\ w[2][2][Len(w[2][2])][1] # "array"

(* A list that ends with an array is read to its end.                      *)
LEMMA ItemsAll ==
  ASSUME NEW u, List(u), Len(u) > 0 => u[Len(u)][1] = "array",
         NEW qs \in PointListOf(u)
  PROVE  \A i \in 1..Len(u) : PointsOf(u[i]) # {}
  <1>1. u # << >> => Len(u) > 0
    BY DEF List
  <1>2. Items(u) = u
    BY <1>1 DEF Items
  <1> QED
    BY <1>2 DEF PointListOf

(* ... and one that does not gives the points before its last value.       *)
LEMMA ItemsBut ==
  ASSUME NEW k \in Nat, NEW rs \in [1..k -> Points],
         NEW u, List(u), Len(u) = k + 1, u[Len(u)][1] # "array",
         \A i \in 1..k : u[i] = Array(PointValues(rs[i]))
  PROVE  /\ WithoutLast(u) = [i \in 1..Len(rs) |-> Array(PointValues(rs[i]))]
         /\ PointListOf(u) = {rs}
  <1> DEFINE v == WithoutLast(u)
  <1>1. u # << >> /\ Len(rs) = k
    OBVIOUS
  <1>2. v \in Flat("cut", u)
    BY <1>1 DEF Flat, WithoutLast
  <1>3. Items(u) = v
    BY <1>1 DEF Items, WithoutLast
  <1> HIDE DEF v
  <1>4. /\ List(v) /\ Len(v) = k
        /\ \A i \in 1..k : v[i] = Array(PointValues(rs[i]))
    BY <1>2, CutFlat
  <1>5. v = [i \in 1..k |-> v[i]]
    BY <1>4 DEF List
  <1>6. v = [i \in 1..Len(rs) |-> Array(PointValues(rs[i]))]
    BY <1>1, <1>4, <1>5
  <1>7. PointListOf(v) = {rs}
    BY <1>6, PointsBack
  <1>8. Items(v) = v
    <2>1. v # << >> => k \in 1..k
      BY <1>4 DEF List
    <2>2. v # << >> => v[Len(v)][1] = "array"
      BY <1>4, <2>1 DEF Array
    <2> QED
      BY <2>2 DEF Items
  <1>9. PointListOf(u) = PointListOf(v)
    BY <1>3, <1>8 DEF PointListOf
  <1> QED
    BY <1>6, <1>7, <1>9 DEF v

(* A damaged list of points is read as what it says, less a last value     *)
(* that is no array: never as the points meant, unless something was       *)
(* added.                                                                  *)
LEMMA FindHarmed ==
  ASSUME NEW damage \in Mild, NEW n \in Nat, NEW ps \in [1..n -> Points],
         NEW list, list = [i \in 1..Len(ps) |-> Array(PointValues(ps[i]))],
         NEW u \in Second(damage, list), NEW qs \in PointListOf(u)
  PROVE  \/ /\ qs # ps
            /\ u = [i \in 1..Len(qs) |-> Array(PointValues(qs[i]))]
         \/ /\ u # << >> /\ u[Len(u)][1] # "array"
            /\ WithoutLast(u) = [i \in 1..Len(qs) |-> Array(PointValues(qs[i]))]
            /\ qs = ps => damage = "extended"
  <1>1. /\ Len(ps) = n /\ Len(list) = n
        /\ \A i \in 1..n : ps[i] \in Points /\ list[i] = Array(PointValues(ps[i]))
    OBVIOUS
  <1>2. List(list)
    BY ListSound DEF Deep, Plain
  <1>3. \A v : Array(v)[1] = "array" /\ Array(v)[2] = v
    BY DEF Array
  <1>4. Integer(0)[1] # "array" /\ Text[1] # "array"
    BY DEF Integer, Text
  <1>5. CASE u \in Flat("cut", list)
    <2> DEFINE rs == [i \in 1..(n - 1) |-> ps[i]]
    <2>1. List(u) /\ n > 0 /\ Len(u) = n - 1 /\ \A i \in 1..(n - 1) : u[i] = list[i]
      BY <1>1, <1>2, <1>5, CutFlat
    <2>2. n - 1 \in Nat /\ rs \in [1..(n - 1) -> Points] /\ Len(rs) = n - 1
      BY <1>1, <2>1
    <2>3. u = [i \in 1..(n - 1) |-> u[i]]
      BY <2>1, <2>2 DEF List
    <2>4. \A i \in 1..(n - 1) : u[i] = Array(PointValues(rs[i]))
      <3>1. \A i \in 1..(n - 1) : i \in 1..n /\ rs[i] = ps[i]
        BY <2>2
      <3> HIDE DEF rs
      <3> QED
        BY <1>1, <2>1, <3>1
    <2> HIDE DEF rs
    <2>5. u = [i \in 1..Len(rs) |-> Array(PointValues(rs[i]))]
      BY <2>2, <2>3, <2>4
    <2>6. PointListOf(u) = {rs}
      BY <2>2, <2>5, PointsBack
    <2>7. rs # ps
      BY <1>1, <2>2
    <2> QED
      BY <2>5, <2>6, <2>7
  <1>6. CASE damage = "extended" /\ u \in Flat("extended", list)
    <2>1. /\ List(u) /\ Len(u) = n + 1 /\ u[Len(u)] \in {Integer(0), Text}
          /\ \A i \in 1..n : u[i] = Array(PointValues(ps[i]))
      BY <1>1, <1>2, <1>6, ExtendedFlat
    <2>2. u[Len(u)][1] # "array" /\ u # << >>
      BY <1>4, <2>1
    <2>3. /\ WithoutLast(u) = [i \in 1..Len(ps) |-> Array(PointValues(ps[i]))]
          /\ PointListOf(u) = {ps}
      BY <2>1, <2>2, ItemsBut
    <2> QED
      BY <1>6, <2>2, <2>3
  <1>7. CASE u \in Flat("retyped", list)
    <2>1. /\ List(u) /\ Len(u) = n
          /\ \E i \in 1..n :
               /\ u[i] \in {Text, Array(<< >>)} /\ u[i][1] # list[i][1]
               /\ \A k \in 1..n : k # i => u[k] = list[k]
      BY <1>1, <1>2, <1>7, RetypedFlat
    <2>2. PICK i \in 1..n :
            /\ u[i] \in {Text, Array(<< >>)} /\ u[i][1] # list[i][1]
            /\ \A k \in 1..n : k # i => u[k] = list[k]
      BY <2>1
    <2>3. u[i][1] # "array" /\ PointsOf(u[i]) = {}
      BY <1>1, <1>3, <2>2 DEF PointsOf
    <2>4. CASE i = n
      <3> DEFINE l == n - 1
                 rs == [k \in 1..l |-> ps[k]]
      <3>1. l \in Nat /\ n = l + 1 /\ rs \in [1..l -> Points] /\ Len(rs) = l
        BY <1>1, <2>2
      <3>2. \A k \in 1..l : k \in 1..n /\ k # i /\ rs[k] = ps[k]
        BY <2>4
      <3> HIDE DEF l, rs
      <3>3. /\ List(u) /\ Len(u) = l + 1 /\ u[Len(u)][1] # "array" /\ u # << >>
            /\ \A k \in 1..l : u[k] = Array(PointValues(rs[k]))
        BY <1>1, <2>1, <2>2, <2>3, <2>4, <3>1, <3>2
      <3>4. /\ WithoutLast(u) = [k \in 1..Len(rs) |-> Array(PointValues(rs[k]))]
            /\ PointListOf(u) = {rs}
        BY <3>1, <3>3, ItemsBut
      <3>5. qs = rs /\ qs # ps
        BY <1>1, <3>1, <3>4
      <3> QED
        BY <3>3, <3>4, <3>5
    <2>5. CASE i # n
      <3>1. u[Len(u)][1] = "array"
        BY <1>1, <1>3, <2>1, <2>2, <2>5
      <3> QED
        BY <2>1, <2>2, <2>3, <3>1, ItemsAll
    <2> QED
      BY <2>4, <2>5
  <1>8. CASE u \notin Flat(damage, list)
    <2>1. PICK i \in 1..n :
            \E x \in Flat(damage, list[i][2]) : Within(list, i, Array(x), u)
      BY <1>1, <1>2, <1>8, SecondCases
    <2>2. PICK x \in Flat(damage, PointValues(ps[i])) : Within(list, i, Array(x), u)
      BY <1>1, <1>3, <2>1
    <2>3. /\ List(u) /\ Len(u) = n /\ u[i] = Array(x)
          /\ \A k \in 1..n : u[k][1] = "array"
      <3>1. /\ List(u) /\ Len(u) = n
            /\ \A k \in 1..n : u[k] = IF k = i THEN Array(x) ELSE list[k]
        BY <1>1, <2>2 DEF Within
      <3>2. \A k \in 1..n : list[k][1] = "array"
        BY <1>3
      <3>3. Array(x)[1] = "array"
        BY DEF Array
      <3>4. \A k \in 1..n : u[k][1] = "array"
        BY <3>1, <3>2, <3>3
      <3> QED
        BY <3>1, <3>4
    <2>4. x \in Second(damage, PointValues(ps[i]))
      BY <2>2 DEF Second
    <2>5. PointsOf(u[i]) = {}
      BY <1>1, <1>3, <2>3, <2>4, PointLost DEF PointsOf
    <2> QED
      BY <2>3, <2>5, ItemsAll
  <1> QED
    BY <1>5, <1>6, <1>7, <1>8 DEF Mild

(* What chain-sync makes of a damaged FindIntersect.                       *)
LEMMA FindIntersectHarmed ==
  ASSUME NEW damage \in Mild, NEW m \in ChainSyncMessages,
         m[1] = "FindIntersect", NEW w \in Damages(damage, ChainSyncValues(m)),
         NEW d \in Decode("chainsync", w)
  PROVE  \/ d # m /\ ChainSyncValues(d) = w
         \/ /\ EndsBare(w) /\ ChainSyncValues(d) = Shortened(w)
            /\ d = m => damage = "extended"
  <1> DEFINE Lists == UNION { [1..n -> Points] : n \in 0..MaxPoints }
  <1>1. m \in {"FindIntersect"} \X Lists
    BY DEF ChainSyncMessages
  <1>2. PICK n \in 0..MaxPoints :
          \E ps \in [1..n -> Points] : m = <<"FindIntersect", ps>>
    BY <1>1
  <1>3. PICK ps \in [1..n -> Points] : m = <<"FindIntersect", ps>>
    BY <1>2
  <1>4. n \in Nat
    BY CodecAssumption
  <1> DEFINE Written(qs) == [i \in 1..Len(qs) |-> Array(PointValues(qs[i]))]
  <1>5. \A qs : ChainSyncValues(<<"FindIntersect", qs>>)
                  = <<Integer(4), Array(Written(qs))>>
    <2> TAKE qs
    <2> DEFINE e == <<"FindIntersect", qs>>
    <2>1. e[1] = "FindIntersect" /\ e[2] = qs
      OBVIOUS
    <2> HIDE DEF e
    <2>2. ChainSyncValues(e) = <<Integer(4),
            Array([i \in 1..Len(e[2]) |-> Array(PointValues(e[2][i]))])>>
      BY <2>1, ChainSyncWire
    <2>3. ChainSyncValues(e) = <<Integer(4), Array(Written(qs))>>
      BY <2>1, <2>2
    <2> QED
      BY <2>3 DEF e
  <1>6. Starts(w, <<"integer">>) /\ Sound(w) /\ Len(w) > 0
    <2>1. Starts(w, <<"integer">>)
      BY DEF Decode, Tagged
    <2>2. Sound(w)
      BY ChainSyncSound, DamagesKeep DEF Mild, Harm
    <2> QED
      BY <2>1, <2>2 DEF Starts, Sound, Plain, List
  <1> DEFINE list == Written(ps)
  <1>7. w \in Damages(damage, <<Integer(4), Array(list)>>)
    BY <1>3, <1>5
  <1> HIDE DEF list
  <1>8. /\ w[1] = Integer(4)
        /\ Shape(w, <<"integer", "array">>) =>
             \E u \in Second(damage, list) : w[2] = Array(u)
    BY <1>6, <1>7, ListDamaged
  <1>9. ChainSyncTags[4 + 1] = "FindIntersect"
    BY DEF ChainSyncTags
  <1>10. /\ Shape(w, <<"integer", "array">>)
         /\ \E qs \in PointListOf(w[2][2]) : d = <<"FindIntersect", qs>>
    BY <1>6, <1>8, <1>9, ChainSyncMade
  <1>11. PICK u \in Second(damage, list) : w[2] = Array(u)
    BY <1>8, <1>10
  <1>12. w[2][2] = u /\ w[1][2] = 4
    BY <1>8, <1>11 DEF Array, Integer
  <1>13. PICK qs \in PointListOf(u) : d = <<"FindIntersect", qs>>
    BY <1>10, <1>12
  <1>14. \/ qs # ps /\ u = Written(qs)
         \/ /\ u # << >> /\ u[Len(u)][1] # "array"
            /\ WithoutLast(u) = Written(qs)
            /\ qs = ps => damage = "extended"
    BY <1>4, FindHarmed DEF list
  <1>15. w = <<Integer(4), Array(u)>>
    <2>1. w \in Seq(Elems(w)) /\ Len(w) = 2
      BY <1>6, <1>10 DEF Sound, Plain, List, Shape
    <2> QED
      BY <1>8, <1>11, <2>1
  <1>16. EndsBare(w) <=> u # << >> /\ u[Len(u)][1] # "array"
    BY <1>10, <1>12 DEF EndsBare, Shape
  <1>17. d = m <=> qs = ps
    BY <1>3, <1>13
  <1> HIDE DEF Written
  <1>18. ChainSyncValues(d) = <<Integer(4), Array(Written(qs))>>
    BY <1>5, <1>13
  <1>19. Shortened(w) = <<Integer(4), Array(WithoutLast(u))>>
    BY <1>8, <1>12 DEF Shortened
  <1> QED
    BY <1>14, <1>15, <1>16, <1>17, <1>18, <1>19

(* Tx-submission takes any list as it is.                                  *)
LEMMA TxSubmissionHarmed ==
  ASSUME NEW damage \in Mild, NEW m \in TxSubmissionMessages,
         NEW w \in Damages(damage, TxSubmissionValues(m))
  PROVE  m # <<"Array", w>>
  <1>1. \A l : <<"Array", l>> # <<"Raw">>
    OBVIOUS
  <1>2. ASSUME NEW b, m = <<"Array", <<Integer(0), Bool(b)>>>>
        PROVE  m # <<"Array", w>>
    <2> DEFINE vs == <<Integer(0), Bool(b)>>
    <2>1. /\ List(vs) /\ Len(vs) = 2
          /\ \A i \in 1..Len(vs) : vs[i][1] \notin {"array", "map"}
      BY Tuples DEF Integer, Bool
    <2>2. m[1] = "Array" /\ m[2] = vs
      BY <1>2
    <2> HIDE DEF vs
    <2>3. w \in Damages(damage, vs)
      BY <2>2 DEF TxSubmissionValues
    <2>4. w \in Flat(damage, vs)
      BY <2>1, <2>3, DamagesCases
    <2>5. w # vs
      <3>1. CASE damage = "cut"
        BY <2>1, <2>4, <3>1, CutFlat
      <3>2. CASE damage = "extended"
        BY <2>1, <2>4, <3>2, ExtendedFlat
      <3>3. CASE damage = "retyped"
        BY <2>1, <2>4, <3>3, RetypedFlat
      <3> QED
        BY <3>1, <3>2, <3>3 DEF Mild
    <2> QED
      BY <2>2, <2>5
  <1> QED
    BY <1>1, <1>2 DEF TxSubmissionMessages

(* What is made of a message in which a value is missing, too much or of   *)
(* another kind: that message, where the handshake does not look for an    *)
(* end; what the damaged list says by itself; or, in chain-sync, what it    *)
(* says without its last value.                                            *)
LEMMA Harmed ==
  ASSUME NEW damage \in Mild, NEW p \in Protos, NEW m \in Messages(p),
         NEW w \in Damages(damage, Encode(p, m)), NEW d \in Decode(p, w)
  PROVE  \/ d = m /\ damage = "extended" /\ p = "handshake"
         \/ d # m /\ Encode(p, d) = w
         \/ /\ p = "chainsync" /\ EndsBare(w) /\ Encode(p, d) = Shortened(w)
            /\ d = m => damage = "extended"
  <1>1. CASE p = "handshake"
    <2>1. /\ m \in HandshakeMessages /\ d \in HandshakeOf(w)
          /\ w \in Damages(damage, HandshakeValues(m))
      BY <1>1 DEF Messages, Encode, Decode
    <2> QED
      BY <1>1, <2>1, HandshakeHarmed
  <1>2. CASE p = "chainsync"
    <2>1. /\ m \in ChainSyncMessages /\ d \in Decode("chainsync", w)
          /\ w \in Damages(damage, ChainSyncValues(m))
      BY <1>2 DEF Messages, Encode
    <2>2. m[1] = "FindIntersect"
      BY <2>1, ChainSyncLost
    <2>3. Encode(p, d) = ChainSyncValues(d)
      BY <1>2 DEF Encode
    <2> QED
      BY <1>2, <2>1, <2>2, <2>3, FindIntersectHarmed
  <1>3. CASE p = "blockfetch"
    <2>1. /\ m \in BlockFetchMessages /\ d \in Decode("blockfetch", w)
          /\ w \in Damages(damage, BlockFetchValues(m))
      BY <1>3 DEF Messages, Encode
    <2> QED
      BY <2>1, BlockFetchLost
  <1>4. CASE p = "txsubmission"
    <2>1. /\ m \in TxSubmissionMessages /\ d = <<"Array", w>>
          /\ w \in Damages(damage, TxSubmissionValues(m))
      BY <1>4 DEF Messages, Encode, Decode
    <2>2. d[1] = "Array" /\ d[2] = w
      BY <2>1
    <2>3. Encode(p, d) = w
      BY <1>4, <2>2 DEF Encode, TxSubmissionValues
    <2> QED
      BY <2>1, <2>3, TxSubmissionHarmed
  <1>5. CASE p = "header"
    <2>1. w \in Damages(damage, HeaderValues(m[2])) /\ d \in HeaderOf(w)
      BY <1>5 DEF Encode, Decode
    <2> QED
      BY <2>1, HeaderLost
  <1> QED
    BY <1>1, <1>2, <1>3, <1>4, <1>5 DEF Protos

-----------------------------------------------------------------------------
NodeWire ==
  \/ msg = Refuse /\ wire = <<Integer(2), Refusal>>
  \/ /\ msg \in {"AcceptVersion"} \X Supported \X Magics
     /\ wire = <<Integer(1)>> \o VersionValues(msg[2], msg[3])

WireInv ==
  /\ proto \in Protos
  /\ msg \in Messages(proto)
  /\ how \in {"own", "node"} \cup Harm
  /\ how = "own" => wire = Encode(proto, msg)
  /\ how = "node" => proto = "handshake" /\ NodeWire
  /\ how \in Harm => wire \in Damages(how, Encode(proto, msg))
  /\ Sound(wire)
  /\ got = << >> \/ got = <<Decode(proto, wire)>>

(* What the wire can be: the crate's encoding of the message meant, that   *)
(* encoding with one thing wrong, or what a node writes instead; in all    *)
(* cases a sound list of values, of which the crate has read what its      *)
(* decoder makes (protocols.rs:85-92).                                     *)
THEOREM WireInvariant == Spec => []WireInv
  <1>1. Init => WireInv
    BY OwnSound DEF Init, WireInv, Protos, Harm
  <1>2. WireInv /\ [Next]_vars => WireInv'
    <2> SUFFICES ASSUME WireInv, [Next]_vars PROVE WireInv'
      OBVIOUS
    <2>1. CASE Damage
      <3>1. /\ how' \in Harm /\ wire' \in Damages(how', wire)
            /\ UNCHANGED <<proto, msg, got>> /\ got = << >>
            /\ how' \notin {"own", "node"}
        BY <2>1 DEF Damage, Harm
      <3>2. Sound(wire')
        BY <3>1, DamagesKeep DEF WireInv
      <3>3. wire = Encode(proto, msg)
        BY <2>1 DEF Damage, WireInv
      <3> QED
        BY <3>1, <3>2, <3>3 DEF WireInv
    <2>2. CASE FromNode
      <3>1. /\ proto = "handshake" /\ got' = << >>
            /\ UNCHANGED <<proto, msg, got>>
            /\ how' = "node"
        BY <2>2 DEF FromNode
      <3>2. msg[1] = "AcceptVersion" =>
              msg \in {"AcceptVersion"} \X Supported \X Magics
        BY <3>1 DEF WireInv, Messages, HandshakeMessages, Refuse
      <3>3. NodeWire'
        BY <2>2, <3>1, <3>2 DEF FromNode, NodeWire
      <3>4. Sound(wire')
        <4>1. CASE wire' = <<Integer(2), Refusal>>
          BY <4>1, RefusalSound
        <4>2. CASE /\ msg' \in {"AcceptVersion"} \X Supported \X Magics
                   /\ wire' = <<Integer(1)>> \o VersionValues(msg'[2], msg'[3])
          BY <4>2, ParamsSound
        <4> QED
          BY <3>3, <4>1, <4>2 DEF NodeWire
      <3> QED
        BY <3>1, <3>3, <3>4 DEF WireInv, Harm
    <2>3. CASE Receive
      BY <2>3 DEF Receive, WireInv, NodeWire
    <2>4. CASE UNCHANGED vars
      BY <2>4 DEF vars, WireInv, NodeWire
    <2> QED
      BY <2>1, <2>2, <2>3, <2>4 DEF Next
  <1> QED
    BY <1>1, <1>2, PTL DEF Spec

(* What one end of the crate writes, the other reads as the same message,  *)
(* for all slots, block numbers, magics and hashes and lists of points of  *)
(* any length (to_values and from_iter of handshake.rs:50-98,              *)
(* chainsync.rs:52-115, blockfetch.rs:40-68; the casts at                  *)
(* protocols.rs:236).                                                      *)
THEOREM RoundTripSafe == Spec => []RoundTrip
  <1>1. WireInv => RoundTrip
    <2> SUFFICES ASSUME WireInv, got # << >>, how = "own"
                 PROVE  Taken = Understood(msg, wire)
      BY Zenon DEF RoundTrip, Understood
    <2> QED
      BY OwnBack DEF WireInv, Taken
  <1> QED
    BY <1>1, WireInvariant, PTL

(* What the crate makes of a node's answer.                                *)
LEMMA NodeTaken ==
  ASSUME NodeWire
  PROVE  Decode("handshake", wire)
           = IF msg = Refuse \/ InArray(msg[2]) THEN {msg} ELSE {}
  <1>1. CASE msg = Refuse /\ wire = <<Integer(2), Refusal>>
    BY <1>1, NodeBack
  <1>2. CASE /\ msg \in {"AcceptVersion"} \X Supported \X Magics
             /\ wire = <<Integer(1)>> \o VersionValues(msg[2], msg[3])
    <2>1. PICK v \in Supported, x \in Magics : msg = <<"AcceptVersion", v, x>>
      BY <1>2
    <2>2. msg[2] = v /\ msg[3] = x /\ msg # Refuse
      BY <2>1 DEF Refuse
    <2> QED
      BY <1>2, <2>1, <2>2, NodeBack
  <1> QED
    BY <1>1, <1>2 DEF NodeWire

(* A node's acceptance with the parameters of the proposal is understood   *)
(* for the versions whose parameters are an array, and for no other        *)
(* (handshake.rs:62, 138-146).                                             *)
THEOREM ParamsReadBackSafe == Spec => []ParamsReadBack
  <1>1. WireInv => ParamsReadBack
    <2> SUFFICES ASSUME WireInv, got # << >>, how = "node" PROVE
                 Taken = IF msg = Refuse \/ InArray(msg[2]) THEN {msg} ELSE {}
      BY DEF ParamsReadBack
    <2>1. Taken = Decode("handshake", wire) /\ NodeWire
      BY DEF WireInv, Taken
    <2> QED
      BY <2>1, NodeTaken
  <1> QED
    BY <1>1, WireInvariant, PTL

(* Whatever is on the wire, at most one message is made of it, and its     *)
(* numbers fit the types of their fields.                                  *)
THEOREM CodecTyped == Spec => []TypeOK
  <1>1. WireInv => TypeOK
    <2> SUFFICES ASSUME WireInv PROVE TypeOK
      OBVIOUS
    <2>1. CASE got = << >>
      BY <2>1 DEF TypeOK, Taken
    <2>2. CASE got = <<Decode(proto, wire)>>
      <3>1. Taken = Decode(proto, wire)
        BY <2>2 DEF Taken
      <3> QED
        BY <3>1, Reading DEF WireInv, TypeOK, AtMostOne
    <2> QED
      BY <2>1, <2>2 DEF WireInv
  <1> QED
    BY <1>1, WireInvariant, PTL

(* An acceptance is read with the number and the magic of the wire, modulo *)
(* 2^16 and 2^32 (handshake.rs:61-63).                                     *)
THEOREM AcceptanceReadSafe == Spec => []AcceptanceRead
  <1>1. WireInv => AcceptanceRead
    <2> SUFFICES ASSUME WireInv, proto = "handshake", NEW m \in Taken,
                        m[1] = "AcceptVersion"
                 PROVE  /\ Number(m[2]) = wire[2][2] % Word16
                        /\ m[3] = wire[3][2][1][2] % Word32
      BY DEF AcceptanceRead
    <2>1. m \in HandshakeOf(wire)
      BY DEF WireInv, Taken, Decode
    <2> QED
      BY <2>1, HandshakeRead DEF WireInv, Accepted
  <1> QED
    BY <1>1, WireInvariant, PTL

(* Only tx-submission has messages that are raw bytes.                     *)
LEMMA RawIsTx ==
  ASSUME NEW p \in Protos, <<"Raw">> \in Messages(p)
  PROVE  p = "txsubmission"
  <1> DEFINE raw == <<"Raw">>
  <1>1. raw[1] = "Raw"
    OBVIOUS
  <1> HIDE DEF raw
  <1>2. raw \notin HandshakeMessages
    BY <1>1 DEF HandshakeMessages, Refuse
  <1>3. raw \notin ChainSyncMessages
    BY <1>1 DEF ChainSyncMessages
  <1>4. raw \notin BlockFetchMessages
    BY <1>1 DEF BlockFetchMessages
  <1>5. raw \notin HeaderMessages
    <2>1. \A h : BlockHeader(h)[1] # "Raw"
      BY DEF BlockHeader
    <2>2. \A f, n : HeaderWith(f, n)[1] # "Raw"
      BY <2>1 DEF HeaderWith
    <2> QED
      BY <1>1, <2>2 DEF HeaderMessages
  <1> QED
    BY <1>2, <1>3, <1>4, <1>5 DEF raw, Messages, Protos

(* A wire on which a value is missing, too much or of another kind is      *)
(* taken for what was meant, for what it says, or for nothing, at whatever *)
(* depth the damage is; where a list of points has its last value          *)
(* swallowed (chainsync.rs:62), for what it says without that value.       *)
THEOREM NeverMistakenSafe == Spec => []NeverMistaken
  <1>1. WireInv => NeverMistaken
    <2> SUFFICES ASSUME WireInv, how # "widened", NEW m \in Taken
                 PROVE  \/ m = msg \/ Encode(proto, m) = wire
                        \/ Swallowed /\ Encode(proto, m) = Shortened(wire)
      BY DEF NeverMistaken
    <2>1. Taken = Decode(proto, wire)
      BY DEF WireInv, Taken
    <2>2. CASE how = "own"
      <3>1. Taken = Understood(msg, wire) /\ wire = Encode(proto, msg)
        BY <2>1, <2>2, OwnBack DEF WireInv
      <3>2. \/ m = msg
            \/ msg = <<"Raw">> /\ m = <<"Array", wire>>
        BY <3>1 DEF Understood
      <3>3. CASE msg = <<"Raw">> /\ m = <<"Array", wire>>
        <4>1. proto = "txsubmission"
          BY <3>3, RawIsTx DEF WireInv
        <4>2. m[1] = "Array" /\ m[2] = wire
          BY <3>3
        <4> QED
          BY <4>1, <4>2 DEF Encode, TxSubmissionValues
      <3> QED
        BY <3>2, <3>3
    <2>3. CASE how = "node"
      BY <2>1, <2>3, NodeTaken DEF WireInv
    <2>4. CASE how \in Mild
      <3>1. wire \in Damages(how, Encode(proto, msg))
        BY <2>4 DEF WireInv, Mild, Harm
      <3>2. proto = "chainsync" /\ EndsBare(wire) => Swallowed
        BY DEF Swallowed, EndsBare
      <3> QED
        BY <2>1, <2>4, <3>1, <3>2, Harmed DEF WireInv
    <2> QED
      BY <2>2, <2>3, <2>4 DEF WireInv, Harm, Mild
  <1> QED
    BY <1>1, WireInvariant, PTL

(* The message meant is not read from such a wire, but where something was *)
(* added that the handshake does not look at (handshake.rs:50-76) or that  *)
(* FindIntersect swallows.                                                 *)
THEOREM StrictSafe == Spec => []Strict
  <1>1. WireInv => Strict
    <2> SUFFICES ASSUME WireInv, how \in Mild, msg \in Taken
                 PROVE  how = "extended" /\ (proto = "handshake" \/ Swallowed)
      BY DEF Strict, Mild
    <2>1. msg \in Decode(proto, wire)
      BY DEF WireInv, Taken
    <2>2. wire \in Damages(how, Encode(proto, msg))
      BY DEF WireInv, Mild, Harm
    <2>3. EndsBare(wire) /\ proto = "chainsync" => Swallowed
      BY DEF Swallowed, EndsBare
    <2> QED
      BY <2>1, <2>2, <2>3, Harmed DEF WireInv
  <1> QED
    BY <1>1, WireInvariant, PTL
=============================================================================
