--------------------------- MODULE SelectionProof ---------------------------
(***************************************************************************)
(* What AmongFirst yields, from the induction over the natural numbers in  *)
(* the form of a set that holds 0 and every successor.                     *)
(***************************************************************************)
EXTENDS Selection, Naturals, Sequences, SequencesExt, NaturalsInduction,
        WellFoundedInduction, TLAPS

LEMMA Induction ==
  ASSUME NEW S \in SUBSET Nat, 0 \in S, \A n \in S : n + 1 \in S
  PROVE  S = Nat
  <1> SUFFICES ASSUME Nat \ S # {} PROVE FALSE
    OBVIOUS
  <1>1. PICK x \in Nat \ S : \A y \in Nat \ S : <<y, x>> \notin OpToRel(<, Nat)
    BY NatLessThanWellFounded, WFMin
  <1>2. x - 1 \in Nat /\ x - 1 < x
    OBVIOUS
  <1>3. x - 1 \in S
    BY <1>1, <1>2 DEF OpToRel
  <1> QED
    BY <1>3

(* ... and over the numbers up to a bound.                                 *)
LEMMA BoundedInduction ==
  ASSUME NEW N \in Nat, NEW S, 0 \in S,
         \A n \in S : n \in 0..(N - 1) => n + 1 \in S
  PROVE  0..N \subseteq S
  <1> DEFINE T == { n \in Nat : n <= N => n \in S }
  <1>1. 0 \in T /\ \A n \in T : n + 1 \in T
    OBVIOUS
  <1>2. T \in SUBSET Nat
    OBVIOUS
  <1>3. T = Nat
    <2> HIDE DEF T
    <2> QED
      BY <1>1, <1>2, Induction
  <1> QED
    BY <1>3

-----------------------------------------------------------------------------
(* One step of the selection, from what is kept of the items before.       *)
Step(kept, k, s, set) ==
  IF k = 0 THEN << >>
  ELSE IF s[k] \in set THEN Append(kept[k - 1], s[k]) ELSE kept[k - 1]

Kept(s, set) ==
  CHOOSE kept : kept = [k \in 0..Len(s) |-> Step(kept, k, s, set)]

LEMMA KeptExists ==
  ASSUME NEW S, NEW s \in Seq(S), NEW set
  PROVE  Kept(s, set) = [k \in 0..Len(s) |-> Step(Kept(s, set), k, s, set)]
  <1> DEFINE Good == { n \in 0..Len(s) :
                         \E f : f = [k \in 0..n |-> Step(f, k, s, set)] }
  <1>1. 0 \in Good
    <2>1. [k \in 0..0 |-> << >>]
            = [k \in 0..0 |-> Step([j \in 0..0 |-> << >>], k, s, set)]
      BY DEF Step
    <2> QED
      BY <2>1
  <1>2. ASSUME NEW n \in Good, n \in 0..(Len(s) - 1) PROVE n + 1 \in Good
    <2>1. PICK f : f = [k \in 0..n |-> Step(f, k, s, set)]
      OBVIOUS
    <2> DEFINE g == [k \in 0..(n + 1) |->
                       IF k <= n THEN f[k] ELSE Step(f, k, s, set)]
    <2>2. ASSUME NEW k \in 0..(n + 1) PROVE g[k] = Step(g, k, s, set)
      <3>1. g[k] = Step(f, k, s, set)
        <4>1. k \in 0..n => f[k] = Step(f, k, s, set)
          BY <2>1
        <4> QED
          BY <1>2, <4>1
      <3>2. k # 0 => g[k - 1] = f[k - 1]
        BY <1>2
      <3> QED
        BY <3>1, <3>2 DEF Step
    <2>3. g = [k \in 0..(n + 1) |-> Step(g, k, s, set)]
      BY <2>2
    <2> QED
      BY <1>2, <2>3
  <1>3. Len(s) \in Good
    <2> HIDE DEF Good
    <2>1. Len(s) \in Nat
      OBVIOUS
    <2> QED
      BY <1>1, <1>2, <2>1, BoundedInduction
  <1> QED
    BY <1>3 DEF Kept

LEMMA AmongFirstKept ==
  ASSUME NEW s, NEW set, NEW n
  PROVE  AmongFirst(n, s, set) = Kept(s, set)[n]
BY DEF AmongFirst, Kept, Step

-----------------------------------------------------------------------------
(* Nothing is among nothing, and the next item is added if it is one.      *)
LEMMA AmongNext ==
  ASSUME NEW S, NEW s \in Seq(S), NEW set
  PROVE  /\ AmongFirst(0, s, set) = << >>
         /\ \A n \in 0..(Len(s) - 1) :
              AmongFirst(n + 1, s, set)
                = IF s[n + 1] \in set
                    THEN Append(AmongFirst(n, s, set), s[n + 1])
                    ELSE AmongFirst(n, s, set)
  <1>1. \A k \in 0..Len(s) :
          Kept(s, set)[k] = Step(Kept(s, set), k, s, set)
    <2> HIDE DEF Kept
    <2> QED
      BY KeptExists
  <1>2. ASSUME NEW n \in 0..(Len(s) - 1)
        PROVE  n + 1 \in 0..Len(s) /\ n + 1 # 0 /\ (n + 1) - 1 = n
    OBVIOUS
  <1>3. Len(s) \in Nat
    OBVIOUS
  <1> QED
    BY <1>1, <1>2, <1>3, AmongFirstKept DEF Step

(* What is selected are items of the sequence and of the set, and no more  *)
(* than there are.                                                         *)
LEMMA AmongType ==
  ASSUME NEW S, NEW s \in Seq(S), NEW set, NEW n \in 0..Len(s)
  PROVE  /\ AmongFirst(n, s, set) \in Seq(S \cap set)
         /\ Len(AmongFirst(n, s, set)) <= n
  <1> DEFINE A(k) == AmongFirst(k, s, set)
             Good == { k \in 0..Len(s) :
                         A(k) \in Seq(S \cap set) /\ Len(A(k)) <= k }
  <1>0. Len(s) \in Nat
    OBVIOUS
  <1>9. /\ A(0) = << >>
        /\ \A k \in 0..(Len(s) - 1) :
             A(k + 1) = IF s[k + 1] \in set THEN Append(A(k), s[k + 1]) ELSE A(k)
    BY AmongNext
  <1>1. 0 \in Good
    <2>1. A(0) = << >>
      BY <1>9
    <2>2. \A X : << >> \in Seq(X)
      OBVIOUS
    <2>3. A(0) \in Seq(S \cap set)
      BY <2>1, <2>2, Zenon
    <2>4. Len(A(0)) <= 0 /\ 0 \in 0..Len(s)
      BY <1>0, <2>1
    <2> QED
      BY <2>3, <2>4
  <1>2. ASSUME NEW k \in Good, k \in 0..(Len(s) - 1) PROVE k + 1 \in Good
    <2>1. A(k + 1) = IF s[k + 1] \in set THEN Append(A(k), s[k + 1]) ELSE A(k)
      BY <1>9, <1>2
    <2>2. s[k + 1] \in S /\ k + 1 \in 0..Len(s)
      BY <1>2
    <2>3. A(k) \in Seq(S \cap set) /\ Len(A(k)) <= k
      OBVIOUS
    <2> HIDE DEF A
    <2>4. A(k + 1) \in Seq(S \cap set) /\ Len(A(k + 1)) <= k + 1
      <3>1. CASE s[k + 1] \in set
        <4>1. s[k + 1] \in S \cap set
          BY <2>2, <3>1
        <4>2. A(k + 1) = Append(A(k), s[k + 1])
          BY <2>1, <3>1
        <4>3. ASSUME NEW X, NEW q \in Seq(X), NEW x \in X
              PROVE  Len(Append(q, x)) = Len(q) + 1 /\ Append(q, x) \in Seq(X)
          OBVIOUS
        <4>4. /\ Len(Append(A(k), s[k + 1])) = Len(A(k)) + 1
              /\ Append(A(k), s[k + 1]) \in Seq(S \cap set)
          BY <2>3, <4>1, <4>3, Zenon
        <4>5. Len(A(k)) \in Nat
          BY <2>3
        <4> QED
          BY <1>2, <2>3, <4>2, <4>4, <4>5
      <3>2. CASE s[k + 1] \notin set
        BY <1>2, <2>1, <2>3, <3>2
      <3> QED
        BY <3>1, <3>2
    <2> QED
      BY <2>2, <2>4
  <1>3. 0..Len(s) \subseteq Good
    <2> HIDE DEF Good
    <2> QED
      BY <1>0, <1>1, <1>2, BoundedInduction
  <1> QED
    BY <1>3

(* It depends on the items looked at alone.                                *)
LEMMA AmongSame ==
  ASSUME NEW S, NEW s \in Seq(S), NEW t \in Seq(S), NEW set,
         NEW n \in Nat, n <= Len(s), n <= Len(t),
         \A k \in 1..n : s[k] = t[k]
  PROVE  AmongFirst(n, s, set) = AmongFirst(n, t, set)
  <1> DEFINE Good == { k \in 0..n :
                         AmongFirst(k, s, set) = AmongFirst(k, t, set) }
  <1>9. ASSUME NEW u \in Seq(S)
        PROVE  /\ AmongFirst(0, u, set) = << >>
               /\ \A k \in 0..(Len(u) - 1) :
                    AmongFirst(k + 1, u, set)
                      = IF u[k + 1] \in set
                          THEN Append(AmongFirst(k, u, set), u[k + 1])
                          ELSE AmongFirst(k, u, set)
    BY AmongNext
  <1>1. 0 \in Good
    BY <1>9
  <1>2. ASSUME NEW k \in Good, k \in 0..(n - 1) PROVE k + 1 \in Good
    <2>1. /\ k \in 0..(Len(s) - 1) /\ k \in 0..(Len(t) - 1)
          /\ k + 1 \in 1..n /\ k + 1 \in 0..n
      BY <1>2
    <2>2. s[k + 1] = t[k + 1] /\ AmongFirst(k, s, set) = AmongFirst(k, t, set)
      BY <2>1
    <2>3. AmongFirst(k + 1, s, set) = AmongFirst(k + 1, t, set)
      BY <1>9, <2>1, <2>2
    <2> QED
      BY <2>1, <2>3
  <1>3. 0..n \subseteq Good
    <2> HIDE DEF Good
    <2> QED
      BY <1>1, <1>2, BoundedInduction
  <1> QED
    BY <1>3

(* A list that grows keeps what was selected of it, and the new item is    *)
(* added if it is one.                                                     *)
LEMMA AmongAppend ==
  ASSUME NEW S, NEW s \in Seq(S), NEW x \in S, NEW set
  PROVE  /\ \A n \in 0..Len(s) :
              AmongFirst(n, Append(s, x), set) = AmongFirst(n, s, set)
         /\ Among(Append(s, x), set)
              = IF x \in set THEN Append(Among(s, set), x) ELSE Among(s, set)
  <1> DEFINE t == Append(s, x)
  <1>1. /\ t \in Seq(S) /\ Len(t) = Len(s) + 1 /\ Len(s) \in Nat
        /\ t[Len(s) + 1] = x
        /\ \A k \in 1..Len(s) : t[k] = s[k]
    OBVIOUS
  <1> HIDE DEF t
  <1>2. \A n \in 0..Len(s) : AmongFirst(n, t, set) = AmongFirst(n, s, set)
    <2> SUFFICES ASSUME NEW n \in 0..Len(s)
                 PROVE  AmongFirst(n, t, set) = AmongFirst(n, s, set)
      OBVIOUS
    <2>1. n \in Nat /\ n <= Len(s) /\ n <= Len(t)
      BY <1>1
    <2>2. \A k \in 1..n : t[k] = s[k]
      BY <1>1
    <2> QED
      BY <1>1, <2>1, <2>2, AmongSame
  <1>3. AmongFirst(Len(s) + 1, t, set)
          = IF x \in set THEN Append(AmongFirst(Len(s), t, set), x)
                         ELSE AmongFirst(Len(s), t, set)
    <2>1. Len(s) \in 0..(Len(t) - 1)
      BY <1>1
    <2> QED
      BY <1>1, <2>1, AmongNext
  <1>4. AmongFirst(Len(s), t, set) = AmongFirst(Len(s), s, set)
    BY <1>1, <1>2
  <1> QED
    BY <1>1, <1>2, <1>3, <1>4 DEF Among, t

(* What is among fewer items comes first among more.                       *)
LEMMA AmongPrefix ==
  ASSUME NEW S, NEW s \in Seq(S), NEW set, NEW n \in 0..Len(s)
  PROVE  IsPrefix(AmongFirst(n, s, set), Among(s, set))
  <1> DEFINE A(k) == AmongFirst(k, s, set)
             Good == { d \in 0..(Len(s) - n) :
                         /\ Len(A(n)) <= Len(A(n + d))
                         /\ \A j \in 1..Len(A(n)) : A(n + d)[j] = A(n)[j] }
  <1>0. Len(s) \in Nat /\ Len(s) - n \in Nat
    OBVIOUS
  <1>1. \A k \in 0..Len(s) : A(k) \in Seq(S) /\ Len(A(k)) \in Nat
    <2> SUFFICES ASSUME NEW k \in 0..Len(s)
                 PROVE  A(k) \in Seq(S) /\ Len(A(k)) \in Nat
      OBVIOUS
    <2>1. A(k) \in Seq(S \cap set)
      BY AmongType
    <2> HIDE DEF A
    <2> QED
      BY <2>1
  <1>9. \A k \in 0..(Len(s) - 1) :
          A(k + 1) = IF s[k + 1] \in set THEN Append(A(k), s[k + 1]) ELSE A(k)
    BY AmongNext
  <1>2. 0 \in Good
    BY <1>0, <1>1
  <1>3. ASSUME NEW d \in Good, d \in 0..((Len(s) - n) - 1) PROVE d + 1 \in Good
    <2>1. n + d \in 0..(Len(s) - 1) /\ n + d \in 0..Len(s)
      BY <1>0, <1>3
    <2>2. /\ A(n + d) \in Seq(S) /\ Len(A(n + d)) \in Nat
          /\ Len(A(n)) \in Nat
      BY <1>1, <2>1
    <2>3. A(n + d + 1) = IF s[n + d + 1] \in set
                           THEN Append(A(n + d), s[n + d + 1]) ELSE A(n + d)
      BY <1>9, <2>1
    <2>4. s[n + d + 1] \in S
      BY <2>1
    <2>5. /\ Len(A(n)) <= Len(A(n + d))
          /\ \A j \in 1..Len(A(n)) : A(n + d)[j] = A(n)[j]
      OBVIOUS
    <2>6. /\ Len(A(n)) <= Len(A(n + d + 1))
          /\ \A j \in 1..Len(A(n)) : A(n + d + 1)[j] = A(n)[j]
      <3> HIDE DEF A, Good
      <3>1. CASE s[n + d + 1] \in set
        <4>1. /\ Len(A(n + d + 1)) = Len(A(n + d)) + 1
              /\ \A j \in 1..Len(A(n + d)) : A(n + d + 1)[j] = A(n + d)[j]
          BY <2>2, <2>3, <2>4, <3>1
        <4> QED
          BY <2>2, <2>5, <4>1
      <3>2. CASE s[n + d + 1] \notin set
        BY <2>3, <2>5, <3>2
      <3> QED
        BY <3>1, <3>2
    <2>7. d + 1 \in 0..(Len(s) - n) /\ n + (d + 1) = n + d + 1
      BY <1>0, <1>3
    <2> QED
      BY <2>6, <2>7
  <1>4. 0..(Len(s) - n) \subseteq Good
    <2> HIDE DEF Good
    <2> QED
      BY <1>0, <1>2, <1>3, BoundedInduction
  <1>5. /\ Len(A(n)) <= Len(A(Len(s)))
        /\ \A j \in 1..Len(A(n)) : A(Len(s))[j] = A(n)[j]
    <2>1. Len(s) - n \in 0..(Len(s) - n) /\ n + (Len(s) - n) = Len(s)
      BY <1>0
    <2>2. Len(s) - n \in Good
      BY <1>4, <2>1
    <2> QED
      BY <2>1, <2>2
  <1>6. /\ A(n) \in Seq(S) /\ A(Len(s)) \in Seq(S)
        /\ Len(A(n)) \in Nat /\ Len(A(Len(s))) \in Nat
    BY <1>0, <1>1
  <1> HIDE DEF A
  <1>7. SubSeq(A(Len(s)), 1, Len(A(n))) = A(n)
    BY <1>5, <1>6
  <1> QED
    BY <1>5, <1>6, <1>7 DEF Among, A, IsPrefix
=============================================================================
