----------------------------- MODULE Selection ------------------------------
(***************************************************************************)
(* The items of a sequence that are in a set, in their order: what         *)
(* SelectSeq yields for \in, as a function on the places of the sequence,  *)
(* of which something can be proved.                                       *)
(***************************************************************************)
LOCAL INSTANCE Naturals
LOCAL INSTANCE Sequences

(* Those among the first n items of s. *)
AmongFirst(n, s, set) ==
  LET kept[k \in 0..Len(s)] ==
        IF k = 0 THEN << >>
        ELSE IF s[k] \in set THEN Append(kept[k - 1], s[k]) ELSE kept[k - 1]
  IN  kept[n]

Among(s, set) == AmongFirst(Len(s), s, set)
=============================================================================
