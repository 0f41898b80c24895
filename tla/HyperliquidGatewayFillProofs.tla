-------------------- MODULE HyperliquidGatewayFillProofs --------------------
(***************************************************************************)
(* Proofs about HyperliquidGateway: for any number of orders and fills,    *)
(* and whatever is lost, late or out of order, a client is never told of   *)
(* more fills than the exchange made of its own order; and the types.      *)
(*                                                                         *)
(* A fill is in one place at a time: on its way in the stream, in          *)
(* m_bufferedFills, among those that replayBufferedFills replays, or told  *)
(* to a client.  So the invariant bounds, order by order, what was told    *)
(* and what is on its way by what the exchange filled, and every step      *)
(* moves fills, drops them, or makes one at the exchange (FillBound).      *)
(* That a fill is told to the client of its own order takes the owners of  *)
(* the exchange's ids: `own' gives every oid the cloid that it was handed  *)
(* out for, and whatever names an oid, an event, a buffered fill or an     *)
(* entry of m_oidToCloid, names it with its owner (OwnedBy).  Placing an   *)
(* order counts its fills from zero, which is sound as no order is placed  *)
(* twice (PlaceInv).                                                       *)
(*                                                                         *)
(* If nothing times out and the connection stays up, no fill is dropped    *)
(* either (NothingLost).  That takes what replayBufferedFills relies on:   *)
(* each fill it replays still finds the order (Replayed), as there are     *)
(* never more fills of an oid than the size that its Open update announces *)
(* (Sized).                                                                *)
(***************************************************************************)
EXTENDS HyperliquidGatewayProofs, FiniteSetTheorems

-----------------------------------------------------------------------------
(* Counting the fills in a sequence of events that have x in their field   *)
(* d, which is the cloid or the oid: of a sequence made of some elements   *)
(* of another, those among these elements.                                 *)
CountOf(seq, d, x) == Cardinality({i \in DOMAIN seq : seq[i].type = "fill" /\ seq[i][d] = x})

CountedAt(seq, d, x) == {i \in DOMAIN seq : seq[i].type = "fill" /\ seq[i][d] = x}

LEMMA Counted ==
  ASSUME NEW S, NEW s \in Seq(S), NEW d, NEW x
  PROVE  /\ IsFiniteSet(DOMAIN s) /\ DOMAIN s = 1 .. Len(s) /\ Len(s) \in Nat
         /\ Cardinality(DOMAIN s) = Len(s)
         /\ IsFiniteSet(CountedAt(s, d, x))
         /\ CountOf(s, d, x) = Cardinality(CountedAt(s, d, x)) /\ CountOf(s, d, x) \in Nat
<1>1. Len(s) \in Nat /\ DOMAIN s = 1 .. Len(s)
  BY LenProperties
<1>2. IsFiniteSet(1 .. Len(s)) /\ Cardinality(1 .. Len(s)) = Len(s)
  BY <1>1, FS_Interval
<1>3. CountedAt(s, d, x) \in SUBSET DOMAIN s
  BY DEF CountedAt
<1>4. IsFiniteSet(CountedAt(s, d, x)) /\ Cardinality(CountedAt(s, d, x)) \in Nat
  BY <1>1, <1>2, <1>3, FS_Subset, FS_CardinalityType
<1>5. CountOf(s, d, x) = Cardinality(CountedAt(s, d, x))
  BY DEF CountOf, CountedAt
<1> QED
  BY <1>1, <1>2, <1>4, <1>5

Along(s, t, P, f) ==
  /\ IsFiniteSet(DOMAIN s) /\ P \subseteq DOMAIN s
  /\ f \in [DOMAIN t -> P]
  /\ \A j, k \in DOMAIN t : f[j] = f[k] => j = k
  /\ \A p \in P : \E k \in DOMAIN t : f[k] = p
  /\ \A k \in DOMAIN t : t[k] = s[f[k]]

LEMMA AlongCount ==
  ASSUME NEW s, NEW t, NEW d, NEW x, NEW P, NEW f, Along(s, t, P, f)
  PROVE  CountOf(t, d, x) = Cardinality(CountedAt(s, d, x) \cap P)
<1> DEFINE A == CountedAt(s, d, x) \cap P
           B == CountedAt(t, d, x)
           g == [k \in B |-> f[k]]
<1>0. /\ IsFiniteSet(DOMAIN s) /\ P \subseteq DOMAIN s
      /\ f \in [DOMAIN t -> P]
      /\ \A j, k \in DOMAIN t : f[j] = f[k] => j = k
      /\ \A p \in P : \E k \in DOMAIN t : f[k] = p
      /\ \A k \in DOMAIN t : t[k] = s[f[k]]
  BY DEF Along
<1>1. B \subseteq DOMAIN t
  BY DEF CountedAt
<1>2. \A k \in B : g[k] = f[k] /\ f[k] \in A
  BY <1>0, <1>1 DEF CountedAt
<1>3. \A p \in A : \E k \in B : g[k] = p
  BY <1>0, <1>1 DEF CountedAt
<1>4. g \in Bijection(B, A)
  <2>1. g \in [B -> A]
    BY <1>2
  <2>2. \A j, k \in B : g[j] = g[k] => j = k
    BY <1>0, <1>1, <1>2
  <2> HIDE DEF g, A, B
  <2> QED
    BY <1>3, <2>1, <2>2 DEF Bijection, Injection, Surjection, IsInjective
<1>5. IsFiniteSet(A)
  <2>1. A \in SUBSET DOMAIN s
    BY <1>0
  <2> QED
    BY <1>0, <2>1, FS_Subset
<1> HIDE DEF A, g
<1>6. Cardinality(B) = Cardinality(A)
  <2> HIDE DEF B
  <2>1. ExistsBijection(B, A)
    BY <1>4 DEF ExistsBijection
  <2>2. IsFiniteSet(B)
    BY <1>4, <1>5, FS_Injection DEF Bijection
  <2> QED
    BY <2>1, <2>2, FS_Bijection
<1>7. CountOf(t, d, x) = Cardinality(B)
  BY DEF CountOf, CountedAt
<1> QED
  BY <1>6, <1>7 DEF A

IsCounted(e, d, x) == e.type = "fill" /\ e[d] = x

OneOf(e, d, x) == IF IsCounted(e, d, x) THEN 1 ELSE 0

(* One element more, ...                                                   *)
LEMMA AppendCount ==
  ASSUME NEW S, NEW s \in Seq(S), NEW e \in S, NEW d, NEW x
  PROVE  /\ Append(s, e) \in Seq(S)
         /\ CountOf(Append(s, e), d, x) = CountOf(s, d, x) + OneOf(e, d, x)
<1>t. PICK t : t = Append(s, e)
  OBVIOUS
<1>n. PICK n \in Nat : n = Len(s)
  BY LenProperties
<1>1. t \in Seq(S) /\ Len(t) = n + 1 /\ t[n + 1] = e /\ \A k \in 1 .. n : t[k] = s[k]
  BY <1>t, <1>n, AppendProperties
<1>2. DOMAIN s = 1 .. n /\ DOMAIN t = 1 .. n + 1
  BY <1>1, <1>n, LenProperties
<1>3. CountedAt(t, d, x) =
        IF IsCounted(e, d, x) THEN CountedAt(s, d, x) \cup {n + 1} ELSE CountedAt(s, d, x)
  <2>1. ASSUME NEW k \in 1 .. n + 1
        PROVE  k \in CountedAt(t, d, x) <=>
                 k \in CountedAt(s, d, x) \/ (k = n + 1 /\ IsCounted(e, d, x))
    BY <1>1, <1>2 DEF CountedAt, IsCounted
  <2>2. CountedAt(t, d, x) \subseteq 1 .. n + 1 /\ CountedAt(s, d, x) \subseteq 1 .. n + 1
    BY <1>2 DEF CountedAt
  <2>3. n + 1 \in 1 .. n + 1
    OBVIOUS
  <2>4. CASE IsCounted(e, d, x)
    BY <2>1, <2>2, <2>3, <2>4
  <2>5. CASE ~IsCounted(e, d, x)
    BY <2>1, <2>2, <2>3, <2>5
  <2> QED
    BY <2>4, <2>5
<1>4. n + 1 \notin CountedAt(s, d, x)
  BY <1>2 DEF CountedAt
<1>5. /\ IsFiniteSet(CountedAt(s, d, x)) /\ CountOf(s, d, x) = Cardinality(CountedAt(s, d, x))
      /\ CountOf(s, d, x) \in Nat /\ CountOf(t, d, x) = Cardinality(CountedAt(t, d, x))
  BY <1>1, Counted
<1>6. Cardinality(CountedAt(s, d, x) \cup {n + 1}) = Cardinality(CountedAt(s, d, x)) + 1
  BY <1>4, <1>5, FS_AddElement
<1>7. CountOf(t, d, x) = CountOf(s, d, x) + OneOf(e, d, x)
  BY <1>3, <1>5, <1>6 DEF OneOf
<1> QED
  BY <1>1, <1>7, <1>t

(* ... one less, ...                                                       *)
Without(s, i, t) ==
  /\ Len(t) = Len(s) - 1
  /\ \A k \in 1 .. Len(t) : t[k] = IF k < i THEN s[k] ELSE s[k + 1]

LEMMA WithoutCount ==
  ASSUME NEW S, NEW s \in Seq(S), NEW t \in Seq(S), NEW i \in 1 .. Len(s), NEW d, NEW x,
         Without(s, i, t)
  PROVE  CountOf(s, d, x) = CountOf(t, d, x) + OneOf(s[i], d, x)
<1>n. PICK n \in Nat : n = Len(s) /\ i \in 1 .. n
  BY LenProperties
<1>0. Len(t) = n - 1 /\ \A k \in 1 .. n - 1 : t[k] = IF k < i THEN s[k] ELSE s[k + 1]
  BY <1>n DEF Without
<1>1. DOMAIN s = 1 .. n /\ DOMAIN t = 1 .. n - 1
  BY <1>0, <1>n, LenProperties
<1> DEFINE f == [k \in 1 .. n - 1 |-> IF k < i THEN k ELSE k + 1]
           P == (1 .. n) \ {i}
<1>2. f \in [DOMAIN t -> P] /\ \A k \in DOMAIN t : f[k] = IF k < i THEN k ELSE k + 1
  BY <1>1, <1>n
<1>3. \A j, k \in DOMAIN t : f[j] = f[k] => j = k
  BY <1>1, <1>2, <1>n
<1>4. \A p \in P : \E k \in DOMAIN t : f[k] = p
  <2> TAKE p \in P
  <2>1. CASE p < i
    <3>1. p \in DOMAIN t /\ f[p] = p
      BY <1>1, <1>2, <1>n, <2>1
    <3> QED
      BY <3>1
  <2>2. CASE ~(p < i)
    <3>1. p - 1 \in DOMAIN t /\ f[p - 1] = p
      BY <1>1, <1>2, <1>n, <2>2
    <3> QED
      BY <3>1
  <2> QED
    BY <2>1, <2>2
<1>5. \A k \in DOMAIN t : t[k] = s[f[k]]
  BY <1>0, <1>1, <1>2
<1>6. P \in SUBSET DOMAIN s /\ IsFiniteSet(DOMAIN s)
  BY <1>1, Counted
<1> HIDE DEF f
<1>7. CountOf(t, d, x) = Cardinality(CountedAt(s, d, x) \cap P)
  <2> HIDE DEF P
  <2>1. Along(s, t, P, f)
    BY <1>2, <1>3, <1>4, <1>5, <1>6 DEF Along
  <2> QED
    BY <2>1, AlongCount
<1>8. CountedAt(s, d, x) \cap P = CountedAt(s, d, x) \ {i}
  BY <1>1 DEF CountedAt
<1>9. /\ IsFiniteSet(CountedAt(s, d, x)) /\ CountOf(s, d, x) = Cardinality(CountedAt(s, d, x))
      /\ CountOf(s, d, x) \in Nat
  BY Counted
<1>10. Cardinality(CountedAt(s, d, x) \ {i}) =
         IF i \in CountedAt(s, d, x) THEN CountOf(s, d, x) - 1 ELSE CountOf(s, d, x)
  BY <1>9, FS_RemoveElement
<1>11. i \in CountedAt(s, d, x) <=> IsCounted(s[i], d, x)
  BY <1>1, <1>n DEF CountedAt, IsCounted
<1> QED
  <2>1. CountOf(t, d, x) = IF IsCounted(s[i], d, x) THEN CountOf(s, d, x) - 1 ELSE CountOf(s, d, x)
    BY <1>7, <1>8, <1>10, <1>11
  <2> QED
    BY <1>9, <2>1 DEF OneOf

LEMMA RemoveAtWithout ==
  ASSUME NEW S, NEW s \in Seq(S), NEW i \in 1 .. Len(s), NEW u, u = RemoveAt(s, i)
  PROVE  u \in Seq(S) /\ Without(s, i, u)
<1>n. PICK n \in Nat : n = Len(s) /\ i \in 1 .. n
  BY LenProperties
<1>a. PICK a : a = SubSeq(s, 1, i - 1)
  OBVIOUS
<1>b. PICK b : b = SubSeq(s, i + 1, n)
  OBVIOUS
<1>1. \A k \in 1 .. n : s[k] \in S
  BY <1>n, ElementOfSeq
<1>2. a \in Seq(S) /\ Len(a) = i - 1 /\ \A k \in 1 .. i - 1 : a[k] = s[k]
  <2>1. PICK m \in Int : m = i - 1 /\ \A k \in 1 .. m : s[k] \in S
    BY <1>1, <1>n
  <2>2. /\ a \in Seq(S) /\ Len(a) = IF 1 <= m THEN m - 1 + 1 ELSE 0
        /\ \A k \in 1 .. m - 1 + 1 : a[k] = s[1 + k - 1]
    BY <1>a, <2>1, SubSeqProperties
  <2> QED
    BY <1>n, <2>1, <2>2
<1>3. b \in Seq(S) /\ Len(b) = n - i /\ \A k \in 1 .. n - i : b[k] = s[i + k]
  <2>1. PICK m \in Int : m = i + 1 /\ \A k \in m .. n : s[k] \in S
    BY <1>1, <1>n
  <2>2. /\ b \in Seq(S) /\ Len(b) = IF m <= n THEN n - m + 1 ELSE 0
        /\ \A k \in 1 .. n - m + 1 : b[k] = s[m + k - 1]
    BY <1>b, <2>1, SubSeqProperties
  <2>3. n - m + 1 = n - i /\ \A k \in 1 .. n - i : m + k - 1 = i + k
    BY <1>n, <2>1
  <2> QED
    BY <1>n, <2>1, <2>2, <2>3
<1>t. PICK t : t = a \o b
  OBVIOUS
<1>4. /\ t \in Seq(S) /\ Len(t) = Len(a) + Len(b)
      /\ \A k \in 1 .. Len(a) + Len(b) : t[k] = IF k <= Len(a) THEN a[k] ELSE b[k - Len(a)]
  BY <1>2, <1>3, <1>t, ConcatProperties
<1>5. Len(t) = n - 1 /\ \A k \in 1 .. n - 1 : t[k] = IF k < i THEN s[k] ELSE s[k + 1]
  <2>1. Len(t) = n - 1
    BY <1>2, <1>3, <1>4, <1>n
  <2>2. ASSUME NEW k \in 1 .. n - 1
        PROVE  t[k] = IF k < i THEN s[k] ELSE s[k + 1]
    <3>1. t[k] = IF k <= i - 1 THEN a[k] ELSE b[k - (i - 1)]
      BY <1>2, <1>3, <1>4, <1>n
    <3>2. CASE k < i
      BY <1>2, <1>n, <3>1, <3>2
    <3>3. CASE ~(k < i)
      <4>1. k - (i - 1) \in 1 .. n - i /\ i + (k - (i - 1)) = k + 1
        BY <1>n, <3>3
      <4> QED
        BY <1>3, <1>n, <3>1, <3>3, <4>1
    <3> QED
      BY <3>2, <3>3
  <2> QED
    BY <2>1, <2>2
<1> QED
  BY <1>4, <1>5, <1>a, <1>b, <1>n, <1>t DEF RemoveAt, Without

LEMMA RemoveAtCount ==
  ASSUME NEW S, NEW s \in Seq(S), NEW i \in 1 .. Len(s), NEW d, NEW x
  PROVE  CountOf(s, d, x) = CountOf(RemoveAt(s, i), d, x) + OneOf(s[i], d, x)
<1>t. PICK t : t = RemoveAt(s, i)
  OBVIOUS
<1>1. t \in Seq(S) /\ Without(s, i, t)
  BY <1>t, RemoveAtWithout
<1>2. CountOf(s, d, x) = CountOf(t, d, x) + OneOf(s[i], d, x)
  BY <1>1, WithoutCount
<1> QED
  BY <1>2, <1>t

LEMMA TailCount ==
  ASSUME NEW S, NEW s \in Seq(S), s # <<>>, NEW d, NEW x
  PROVE  CountOf(s, d, x) = CountOf(Tail(s), d, x) + OneOf(Head(s), d, x)
<1>1. /\ Tail(s) \in Seq(S) /\ Len(Tail(s)) = Len(s) - 1
      /\ \A k \in 1 .. Len(Tail(s)) : Tail(s)[k] = s[k + 1]
      /\ Head(s) = s[1]
  BY HeadTailProperties
<1>2. 1 \in 1 .. Len(s) /\ Len(s) \in Nat
  BY LenProperties, EmptySeq
<1>t. PICK t : t = Tail(s)
  OBVIOUS
<1>h. PICK h : h = Head(s)
  OBVIOUS
<1>3. t \in Seq(S) /\ Without(s, 1, t) /\ h = s[1]
  BY <1>1, <1>2, <1>t, <1>h DEF Without
<1>4. CountOf(s, d, x) = CountOf(t, d, x) + OneOf(h, d, x)
  BY <1>2, <1>3, WithoutCount
<1> QED
  BY <1>4, <1>t, <1>h

(* ... without the oldest ones, ...                                        *)
LEMMA LaterCount ==
  ASSUME NEW S, NEW s \in Seq(S), NEW n \in 0 .. Len(s), NEW d, NEW x
  PROVE  /\ SubSeq(s, n + 1, Len(s)) \in Seq(S)
         /\ Within(SubSeq(s, n + 1, Len(s)), s)
         /\ CountOf(SubSeq(s, n + 1, Len(s)), d, x) <= CountOf(s, d, x)
<1>1. PICK l \in Nat, m \in Nat : l = Len(s) /\ m = n + 1 /\ n \in Nat /\ n <= l
  BY LenProperties
<1>t. PICK t : t = SubSeq(s, m, l)
  OBVIOUS
<1>2. \A k \in m .. l : s[k] \in S
  BY <1>1, ElementOfSeq
<1>3. t \in Seq(S) /\ Len(t) = l - n /\ \A k \in 1 .. l - n : t[k] = s[n + k]
  <2>1. /\ t \in Seq(S) /\ Len(t) = IF m <= l THEN l - m + 1 ELSE 0
        /\ \A k \in 1 .. l - m + 1 : t[k] = s[m + k - 1]
    BY <1>1, <1>2, <1>t, SubSeqProperties
  <2>2. l - m + 1 = l - n /\ \A k \in 1 .. l - n : m + k - 1 = n + k
    BY <1>1
  <2> QED
    BY <1>1, <2>1, <2>2
<1>4. DOMAIN s = 1 .. l /\ DOMAIN t = 1 .. l - n
  BY <1>1, <1>3, LenProperties
<1>P. PICK P : P = n + 1 .. l
  OBVIOUS
<1>f. PICK f : f = [k \in 1 .. l - n |-> n + k]
  OBVIOUS
<1>5. Along(s, t, P, f)
  <2>0. P \subseteq DOMAIN s /\ IsFiniteSet(DOMAIN s)
    BY <1>1, <1>4, <1>P, Counted
  <2>1. f \in [DOMAIN t -> P] /\ \A k \in DOMAIN t : f[k] = n + k
    BY <1>1, <1>4, <1>P, <1>f
  <2>2. \A j, k \in DOMAIN t : f[j] = f[k] => j = k
    BY <1>1, <1>4, <2>1
  <2>3. ASSUME NEW p \in P
        PROVE  \E k \in DOMAIN t : f[k] = p
    <3>1. p - n \in DOMAIN t /\ f[p - n] = p
      BY <1>1, <1>4, <1>P, <2>1, <2>3
    <3> QED
      BY <3>1
  <2> QED
    BY <1>3, <1>4, <2>0, <2>1, <2>2, <2>3 DEF Along
<1>7. /\ IsFiniteSet(DOMAIN s) /\ IsFiniteSet(CountedAt(s, d, x))
      /\ CountOf(s, d, x) = Cardinality(CountedAt(s, d, x))
  BY Counted
<1>8. CountOf(t, d, x) = Cardinality(CountedAt(s, d, x) \cap P)
  BY <1>5, AlongCount
<1>9. CountOf(t, d, x) <= CountOf(s, d, x)
  <2>1. CountedAt(s, d, x) \cap P \in SUBSET CountedAt(s, d, x)
    OBVIOUS
  <2> QED
    BY <1>7, <1>8, <2>1, FS_Subset
<1>10. Within(t, s)
  <2>1. ASSUME NEW k \in 1 .. Len(t)
        PROVE  \E j \in 1 .. Len(s) : t[k] = s[j]
    <3>1. n + k \in 1 .. Len(s) /\ t[k] = s[n + k]
      BY <1>1, <1>3, <2>1
    <3> QED
      BY <3>1
  <2> QED
    BY <2>1 DEF Within
<1> QED
  BY <1>1, <1>3, <1>9, <1>10, <1>t

(* ... and picked by position: an element's rank among the positions S     *)
(* numbers them from 1 without a gap.                                      *)
Rank(S, i) == Cardinality({j \in S : j <= i})

LEMMA Ranked ==
  ASSUME NEW S \in SUBSET Nat, IsFiniteSet(S), NEW n, n = Cardinality(S)
  PROVE  /\ n \in Nat
         /\ \A i \in S : Rank(S, i) \in 1 .. n
         /\ \A i, j \in S : Rank(S, i) = Rank(S, j) => i = j
         /\ \A k \in 1 .. n : \E i \in S : Rank(S, i) = k
<1> DEFINE To(i) == {j \in S : j <= i}
<1>0. n \in Nat
  BY FS_CardinalityType
<1>1. ASSUME NEW i \in S
      PROVE  IsFiniteSet(To(i)) /\ Rank(S, i) = Cardinality(To(i)) /\ Rank(S, i) \in 1 .. n
  <2>1. To(i) \in SUBSET S /\ i \in To(i)
    OBVIOUS
  <2>2. Rank(S, i) = Cardinality(To(i))
    BY DEF Rank
  <2> HIDE DEF To
  <2>3. IsFiniteSet(To(i)) /\ Cardinality(To(i)) <= n
    BY <2>1, FS_Subset
  <2>4. Cardinality(To(i)) \in Nat /\ Cardinality(To(i)) # 0
    BY <2>1, <2>3, FS_EmptySet, FS_CardinalityType
  <2> QED
    BY <1>0, <2>2, <2>3, <2>4
<1>2. ASSUME NEW i \in S, NEW j \in S, i < j
      PROVE  Rank(S, i) < Rank(S, j)
  <2>0. \A z \in S : z \in Nat
    OBVIOUS
  <2>1. To(i) \in SUBSET To(j) /\ j \in To(j) /\ j \notin To(i)
    <3>1. \A z \in S : z <= i => z <= j
      BY <1>2, <2>0
    <3>2. j <= j /\ ~(j <= i)
      BY <1>2, <2>0
    <3> QED
      BY <3>1, <3>2
  <2> HIDE DEF To
  <2>2. Cardinality(To(i)) <= Cardinality(To(j)) /\ Cardinality(To(i)) # Cardinality(To(j))
    BY <1>1, <2>1, FS_Subset
  <2> QED
    BY <1>1, <2>2
<1>3. ASSUME NEW i \in S, NEW j \in S, Rank(S, i) = Rank(S, j)
      PROVE  i = j
  <2>1. i \in Nat /\ j \in Nat /\ (i < j \/ j < i \/ i = j)
    OBVIOUS
  <2>2. Rank(S, i) \in 1 .. n /\ Rank(S, j) \in 1 .. n
    BY <1>1
  <2> QED
    BY <1>2, <1>3, <2>1, <2>2
<1>f. PICK f : f = [i \in S |-> Rank(S, i)]
  OBVIOUS
<1>T. PICK T : T = 1 .. n
  OBVIOUS
<1>4. f \in Injection(S, T) /\ \A i \in S : f[i] = Rank(S, i)
  <2>1. f \in [S -> T] /\ \A i \in S : f[i] = Rank(S, i)
    BY <1>1, <1>f, <1>T
  <2>2. \A i, j \in S : f[i] = f[j] => i = j
    BY <1>3, <2>1
  <2> QED
    BY <2>1, <2>2 DEF Injection, IsInjective
<1>5. IsFiniteSet(T) /\ Cardinality(T) = n
  BY <1>0, <1>T, FS_Interval
<1>6. f \in Surjection(S, T)
  BY <1>4, <1>5, FS_Injection
<1>7. \A k \in 1 .. n : \E i \in S : Rank(S, i) = k
  BY <1>4, <1>6, <1>T DEF Surjection
<1> QED
  BY <1>0, <1>1, <1>3, <1>7

LEMMA NthRanked ==
  ASSUME NEW S \in SUBSET Nat, IsFiniteSet(S), NEW n, n = Cardinality(S)
  PROVE  /\ \A k \in 1 .. n : Nth(S, k) \in S /\ Rank(S, Nth(S, k)) = k
         /\ \A i \in S : Rank(S, i) \in 1 .. n /\ Nth(S, Rank(S, i)) = i
<1>1. ASSUME NEW k \in 1 .. n
      PROVE  Nth(S, k) \in S /\ Rank(S, Nth(S, k)) = k
  <2>1. \E i \in S : Cardinality({j \in S : j <= i}) = k
    BY Ranked DEF Rank
  <2> QED
    BY <2>1 DEF Nth, Rank
<1>2. ASSUME NEW i \in S
      PROVE  Rank(S, i) \in 1 .. n /\ Nth(S, Rank(S, i)) = i
  <2>1. Rank(S, i) \in 1 .. n
    BY Ranked
  <2>k. PICK k \in 1 .. n : k = Rank(S, i)
    BY <2>1
  <2>2. Nth(S, k) \in S /\ Rank(S, Nth(S, k)) = k
    BY <1>1
  <2>3. \A a, b \in S : Rank(S, a) = Rank(S, b) => a = b
    BY Ranked
  <2>4. Nth(S, k) = i
    BY <2>2, <2>3, <2>k
  <2> QED
    BY <2>1, <2>4, <2>k
<1> QED
  BY <1>1, <1>2

LEMMA PickedCount ==
  ASSUME NEW S, NEW s \in Seq(S), NEW P \in SUBSET DOMAIN s
  PROVE  /\ Picked(s, P) \in Seq(S) /\ Within(Picked(s, P), s)
         /\ \A d, x : CountOf(Picked(s, P), d, x) = Cardinality(CountedAt(s, d, x) \cap P)
         /\ \A k \in DOMAIN Picked(s, P) : \E i \in P : Picked(s, P)[k] = s[i]
<1>1. DOMAIN s = 1 .. Len(s) /\ Len(s) \in Nat /\ IsFiniteSet(DOMAIN s)
  BY Counted
<1>2. IsFiniteSet(P) /\ P \in SUBSET Nat
  BY <1>1, FS_Subset
<1>n. PICK n \in Nat : n = Cardinality(P)
  BY <1>2, FS_CardinalityType
<1>t. PICK t : t = Picked(s, P)
  OBVIOUS
<1>f. PICK f : f = [k \in 1 .. n |-> Nth(P, k)]
  OBVIOUS
<1>3. /\ \A k \in 1 .. n : Nth(P, k) \in P /\ Rank(P, Nth(P, k)) = k
      /\ \A i \in P : Rank(P, i) \in 1 .. n /\ Nth(P, Rank(P, i)) = i
  BY <1>2, <1>n, NthRanked
<1>4. DOMAIN t = 1 .. n /\ \A k \in 1 .. n : t[k] = s[Nth(P, k)]
  BY <1>n, <1>t DEF Picked
<1>5. t \in Seq(S) /\ Len(t) = n
  <2>1. \A k \in 1 .. n : t[k] \in S
    BY <1>1, <1>3, <1>4, ElementOfSeq
  <2>2. t = [k \in 1 .. n |-> s[Nth(P, k)]]
    BY <1>n, <1>t DEF Picked
  <2> QED
    BY <1>4, <2>1, <2>2
<1>6. Along(s, t, P, f)
  <2>1. f \in [DOMAIN t -> P] /\ \A k \in DOMAIN t : f[k] = Nth(P, k)
    BY <1>3, <1>4, <1>f
  <2>2. \A j, k \in DOMAIN t : f[j] = f[k] => j = k
    BY <1>3, <1>4, <2>1
  <2>3. \A p \in P : \E k \in DOMAIN t : f[k] = p
    BY <1>3, <1>4, <2>1
  <2> QED
    BY <1>1, <1>4, <2>1, <2>2, <2>3 DEF Along
<1>7. ASSUME NEW d, NEW x
      PROVE  CountOf(t, d, x) = Cardinality(CountedAt(s, d, x) \cap P)
  BY <1>6, AlongCount
<1>8. \A k \in DOMAIN t : \E i \in P : t[k] = s[i]
  BY <1>3, <1>4
<1>9. Within(t, s)
  BY <1>1, <1>4, <1>5, <1>8 DEF Within
<1> QED
  BY <1>5, <1>7, <1>8, <1>9, <1>t

(* What is picked and what is left make up the whole.                      *)
LEMMA PickedSplit ==
  ASSUME NEW S, NEW s \in Seq(S), NEW P \in SUBSET DOMAIN s, NEW d, NEW x
  PROVE  /\ CountOf(Picked(s, P), d, x) + CountOf(Picked(s, DOMAIN s \ P), d, x) = CountOf(s, d, x)
         /\ CountOf(Picked(s, P), d, x) \in Nat /\ CountOf(Picked(s, DOMAIN s \ P), d, x) \in Nat
<1>A. PICK A : A = CountedAt(s, d, x)
  OBVIOUS
<1>1. A \subseteq DOMAIN s /\ IsFiniteSet(A) /\ CountOf(s, d, x) = Cardinality(A)
  <2>1. A \subseteq DOMAIN s
    BY <1>A DEF CountedAt
  <2>2. IsFiniteSet(A) /\ CountOf(s, d, x) = Cardinality(A)
    BY <1>A, Counted
  <2> QED
    BY <2>1, <2>2
<1>c. \A Q \in SUBSET DOMAIN s : CountOf(Picked(s, Q), d, x) = Cardinality(A \cap Q)
  <2>1. SUFFICES ASSUME NEW Q \in SUBSET DOMAIN s
                 PROVE  CountOf(Picked(s, Q), d, x) = Cardinality(A \cap Q)
    OBVIOUS
  <2>2. CountOf(Picked(s, Q), d, x) = Cardinality(CountedAt(s, d, x) \cap Q)
    <3>1. \A e, y : CountOf(Picked(s, Q), e, y) = Cardinality(CountedAt(s, e, y) \cap Q)
      BY PickedCount
    <3> QED
      BY <3>1
  <2> QED
    BY <2>2, <1>A
<1>2. /\ CountOf(Picked(s, P), d, x) = Cardinality(A \cap P)
      /\ CountOf(Picked(s, DOMAIN s \ P), d, x) = Cardinality(A \cap (DOMAIN s \ P))
  <2>1. P \in SUBSET DOMAIN s /\ DOMAIN s \ P \in SUBSET DOMAIN s
    OBVIOUS
  <2> QED
    BY <1>c, <2>1
<1>3. A \cap (DOMAIN s \ P) = A \ P
  BY <1>1
<1>4. Cardinality(A \ P) = Cardinality(A) - Cardinality(A \cap P) /\ IsFiniteSet(A \ P)
  BY <1>1, FS_Difference
<1>5. Cardinality(A \cap P) \in Nat /\ Cardinality(A) \in Nat /\ Cardinality(A \ P) \in Nat
  <2>1. A \cap P \in SUBSET A
    OBVIOUS
  <2>2. IsFiniteSet(A \cap P)
    BY <1>1, <2>1, FS_Subset
  <2> QED
    BY <1>1, <1>4, <2>2, FS_CardinalityType
<1>6. CountOf(Picked(s, DOMAIN s \ P), d, x) = Cardinality(A \ P)
  BY <1>2, <1>3
<1> QED
  BY <1>1, <1>2, <1>4, <1>5, <1>6

(* What comes after what is there.                                         *)
LEMMA ConcatCount ==
  ASSUME NEW S, NEW s \in Seq(S), NEW t \in Seq(S), NEW d, NEW x
  PROVE  /\ s \o t \in Seq(S)
         /\ CountOf(s \o t, d, x) = CountOf(s, d, x) + CountOf(t, d, x)
<1>n. PICK m \in Nat, n \in Nat : m = Len(s) /\ n = Len(t)
  BY LenProperties
<1>v. PICK v : v = s \o t
  OBVIOUS
<1>1. /\ v \in Seq(S) /\ Len(v) = m + n
      /\ \A k \in 1 .. m + n : v[k] = IF k <= m THEN s[k] ELSE t[k - m]
  BY <1>n, <1>v, ConcatProperties
<1>2. DOMAIN s = 1 .. m /\ DOMAIN t = 1 .. n /\ DOMAIN v = 1 .. m + n
  BY <1>1, <1>n, LenProperties
<1>3. /\ IsFiniteSet(DOMAIN v) /\ IsFiniteSet(CountedAt(v, d, x))
      /\ CountOf(v, d, x) = Cardinality(CountedAt(v, d, x))
      /\ CountOf(s, d, x) \in Nat /\ CountOf(t, d, x) \in Nat
  BY <1>1, Counted
<1>P. PICK P : P = 1 .. m
  OBVIOUS
<1>Q. PICK Q : Q = m + 1 .. m + n
  OBVIOUS
<1>f. PICK f : f = [k \in 1 .. m |-> k]
  OBVIOUS
<1>g. PICK g : g = [k \in 1 .. n |-> m + k]
  OBVIOUS
<1>4. Along(v, s, P, f)
  <2>1. P \subseteq DOMAIN v
    BY <1>2, <1>n, <1>P
  <2>2. f \in [DOMAIN s -> P] /\ \A k \in DOMAIN s : f[k] = k
    BY <1>2, <1>P, <1>f
  <2>3. \A k \in DOMAIN s : s[k] = v[k]
    BY <1>1, <1>2, <1>n
  <2> QED
    BY <1>2, <1>3, <1>P, <2>1, <2>2, <2>3 DEF Along
<1>5. Along(v, t, Q, g)
  <2>1. Q \subseteq DOMAIN v
    BY <1>2, <1>n, <1>Q
  <2>2. g \in [DOMAIN t -> Q] /\ \A k \in DOMAIN t : g[k] = m + k
    BY <1>2, <1>n, <1>Q, <1>g
  <2>3. \A k \in DOMAIN t : t[k] = v[m + k]
    <3>1. ASSUME NEW k \in 1 .. n
          PROVE  t[k] = v[m + k]
      <4>1. m + k \in 1 .. m + n /\ ~(m + k <= m) /\ (m + k) - m = k
        BY <1>n, <3>1
      <4> QED
        BY <1>1, <4>1
    <3> QED
      BY <1>2, <3>1
  <2>4. \A j, k \in DOMAIN t : g[j] = g[k] => j = k
    BY <1>2, <1>n, <2>2
  <2>5. ASSUME NEW p \in Q
        PROVE  \E k \in DOMAIN t : g[k] = p
    <3>1. p - m \in DOMAIN t /\ g[p - m] = p
      BY <1>2, <1>n, <1>Q, <2>2, <2>5
    <3> QED
      BY <3>1
  <2> QED
    BY <1>3, <2>1, <2>2, <2>3, <2>4, <2>5 DEF Along
<1>A. PICK A : A = CountedAt(v, d, x)
  OBVIOUS
<1>6. CountOf(s, d, x) = Cardinality(A \cap P) /\ CountOf(t, d, x) = Cardinality(A \cap Q)
  BY <1>4, <1>5, <1>A, AlongCount
<1>7. A \cap Q = A \ P
  <2>1. A \subseteq 1 .. m + n
    BY <1>2, <1>A DEF CountedAt
  <2>2. \A k \in 1 .. m + n : k \in Q <=> k \notin P
    BY <1>n, <1>P, <1>Q
  <2> QED
    BY <2>1, <2>2
<1>8. Cardinality(A \ P) = Cardinality(A) - Cardinality(A \cap P)
  BY <1>3, <1>A, FS_Difference
<1>9. Cardinality(A) \in Nat
  BY <1>3, <1>A, FS_CardinalityType
<1>10. CountOf(t, d, x) = CountOf(v, d, x) - CountOf(s, d, x) /\ CountOf(v, d, x) \in Nat
  BY <1>3, <1>6, <1>7, <1>8, <1>9, <1>A
<1> QED
  BY <1>1, <1>3, <1>10, <1>v

LEMMA NoneCount ==
  ASSUME NEW d, NEW x
  PROVE  CountOf(<<>>, d, x) = 0
<1>1. CountedAt(<<>>, d, x) = {}
  BY DEF CountedAt
<1> QED
  BY <1>1, FS_EmptySet DEF CountOf, CountedAt

LEMMA OneCount ==
  ASSUME NEW S, NEW e \in S, NEW d, NEW x
  PROVE  CountOf(<<e>>, d, x) = OneOf(e, d, x) /\ OneOf(e, d, x) \in {0, 1}
<1>s. PICK s : s = <<>>
  OBVIOUS
<1>1. s \in Seq(S) /\ CountOf(s, d, x) = 0
  BY <1>s, NoneCount
<1>2. CountOf(Append(s, e), d, x) = CountOf(s, d, x) + OneOf(e, d, x)
  BY <1>1, AppendCount
<1>3. Append(s, e) = <<e>>
  BY <1>s
<1>4. OneOf(e, d, x) \in {0, 1}
  BY DEF OneOf
<1> QED
  BY <1>1, <1>2, <1>3, <1>4

(* The same of the fills of an order, as the model counts them.            *)
LEMMA FillsAreCounted ==
  ASSUME NEW s, NEW x
  PROVE  FillsOf(s, x) = CountOf(s, "cloid", x)
BY DEF FillsOf, CountOf

FillsAt(seq, x) == CountedAt(seq, "cloid", x)

IsFillOf(e, x) == e.type = "fill" /\ e.cloid = x

One(e, x) == IF IsFillOf(e, x) THEN 1 ELSE 0

LEMMA OneIsCounted ==
  ASSUME NEW e, NEW x
  PROVE  One(e, x) = OneOf(e, "cloid", x)
BY DEF One, OneOf, IsFillOf, IsCounted

LEMMA FillsCounted ==
  ASSUME NEW S, NEW s \in Seq(S), NEW x
  PROVE  FillsOf(s, x) \in Nat
BY Counted, FillsAreCounted

LEMMA AppendCounts ==
  ASSUME NEW S, NEW s \in Seq(S), NEW e \in S, NEW x
  PROVE  /\ Append(s, e) \in Seq(S)
         /\ FillsOf(Append(s, e), x) = FillsOf(s, x) + One(e, x)
BY AppendCount, FillsAreCounted, OneIsCounted

LEMMA RemoveAtCounts ==
  ASSUME NEW S, NEW s \in Seq(S), NEW i \in 1 .. Len(s), NEW x
  PROVE  FillsOf(s, x) = FillsOf(RemoveAt(s, i), x) + One(s[i], x)
BY RemoveAtCount, FillsAreCounted, OneIsCounted

LEMMA TailCounts ==
  ASSUME NEW S, NEW s \in Seq(S), s # <<>>, NEW x
  PROVE  FillsOf(s, x) = FillsOf(Tail(s), x) + One(Head(s), x)
BY TailCount, FillsAreCounted, OneIsCounted

LEMMA LaterCounts ==
  ASSUME NEW S, NEW s \in Seq(S), NEW n \in 0 .. Len(s), NEW x
  PROVE  /\ SubSeq(s, n + 1, Len(s)) \in Seq(S)
         /\ Within(SubSeq(s, n + 1, Len(s)), s)
         /\ FillsOf(SubSeq(s, n + 1, Len(s)), x) <= FillsOf(s, x)
BY LaterCount, FillsAreCounted

LEMMA PickedCounts ==
  ASSUME NEW S, NEW s \in Seq(S), NEW P \in SUBSET DOMAIN s
  PROVE  Picked(s, P) \in Seq(S) /\ Within(Picked(s, P), s)
BY PickedCount

LEMMA PickedSplits ==
  ASSUME NEW S, NEW s \in Seq(S), NEW P \in SUBSET DOMAIN s, NEW x
  PROVE  /\ FillsOf(Picked(s, P), x) + FillsOf(Picked(s, DOMAIN s \ P), x) = FillsOf(s, x)
         /\ FillsOf(Picked(s, P), x) \in Nat /\ FillsOf(Picked(s, DOMAIN s \ P), x) \in Nat
BY PickedSplit, FillsAreCounted

LEMMA ConcatCounts ==
  ASSUME NEW S, NEW s \in Seq(S), NEW t \in Seq(S), NEW x
  PROVE  /\ s \o t \in Seq(S)
         /\ FillsOf(s \o t, x) = FillsOf(s, x) + FillsOf(t, x)
BY ConcatCount, FillsAreCounted

LEMMA NoneCounts ==
  ASSUME NEW x
  PROVE  FillsOf(<<>>, x) = 0
BY NoneCount, FillsAreCounted

LEMMA OneCounts ==
  ASSUME NEW S, NEW e \in S, NEW x
  PROVE  FillsOf(<<e>>, x) = One(e, x) /\ One(e, x) \in {0, 1}
BY OneCount, FillsAreCounted, OneIsCounted

-----------------------------------------------------------------------------
(* The types of the gateway's state, and what a callback leaves of it that *)
(* tells nobody of a fill: `own' says to which order an oid belongs.       *)
Typed(s) ==
  /\ Good(s)
  /\ IsMap(s.clientToCloid, Clients, Cloids)
  /\ IsMap(s.cloidToClient, Cloids, Clients)
  /\ IsMap(s.oidToCloid, Nat, Cloids)
  /\ IsMap(s.cloidToOid, Cloids, Nat)
  /\ IsMap(s.cloidToState, AnyCloid, States)
  /\ s.cloidToAsset \subseteq Cloids
  /\ s.bufferedFills \in Seq(Fill)
  /\ s.told \in [Clients -> Telling]
  /\ s.unnamed \subseteq ReportKinds

Owns(own, oid, x) == oid \in DOMAIN own /\ own[oid] = x

OidsOwned(s, own) == \A oid \in DOMAIN s.oidToCloid : Owns(own, oid, s.oidToCloid[oid])

Spares(s, t, own) ==
  /\ Typed(t)
  /\ \A c \in Clients : t.told[c].filled = s.told[c].filled
  /\ t.bufferedFills = s.bufferedFills
  /\ OidsOwned(s, own) => OidsOwned(t, own)

LEMMA TypedFit ==
  ASSUME NEW s, Typed(s)
  PROVE  Fit(s, Cloids)
<1>1. \A x \in DOMAIN s.cloidToState : "isIoc" \in DOMAIN s.cloidToState[x]
  BY DEF Typed, IsMap, States
<1>2. Known(s, Cloids)
  BY DEF Typed, IsMap, Known
<1> QED
  BY <1>1, <1>2 DEF Fit, MapsTyped, Typed

LEMMA SparesTrans ==
  ASSUME NEW s, NEW t, NEW u, NEW own, Spares(s, t, own), Spares(t, u, own)
  PROVE  Spares(s, u, own)
BY DEF Spares

LEMMA SparesSelf ==
  ASSUME NEW s, NEW own, Typed(s)
  PROVE  Spares(s, s, own)
BY DEF Spares

LEMMA SparesTyped ==
  ASSUME NEW s, NEW t, NEW own, Spares(s, t, own)
  PROVE  Typed(t)
BY DEF Spares

LEMMA PutTyped ==
  ASSUME NEW f, NEW K, NEW V, IsMap(f, K, V), NEW k \in K, NEW v \in V
  PROVE  IsMap(Put(f, k, v), K, V)
BY DEF IsMap, Put

LEMMA EraseTyped ==
  ASSUME NEW f, NEW K, NEW V, IsMap(f, K, V), NEW D
  PROVE  IsMap(Erase(f, D), K, V)
BY DEF IsMap, Erase

(* OrderState.                                                             *)
LEMMA StateOfTyped ==
  ASSUME NEW s, Typed(s), NEW cloid
  PROVE  StateOf(s, cloid) \in States
<1>1. NewState \in States
  BY DEF NewState, States
<1> QED
  BY <1>1 DEF StateOf, Typed, IsMap

LEMMA SetStateSpares ==
  ASSUME NEW s, NEW own, Typed(s), NEW cloid \in AnyCloid, NEW state \in States
  PROVE  /\ Spares(s, SetState(s, cloid, state), own)
         /\ SetState(s, cloid, state).cloidToClient = s.cloidToClient
         /\ SetState(s, cloid, state).oidToCloid = s.oidToCloid
<1>t. PICK t : t = SetState(s, cloid, state)
  OBVIOUS
<1>1. Good(s) /\ Good(t)
  BY <1>t, SetStateShrinks, ShrinksGood DEF Typed
<1>2. /\ t.clientToCloid = s.clientToCloid /\ t.cloidToClient = s.cloidToClient
      /\ t.oidToCloid = s.oidToCloid /\ t.cloidToOid = s.cloidToOid
      /\ t.cloidToAsset = s.cloidToAsset /\ t.bufferedFills = s.bufferedFills
      /\ t.told = s.told /\ t.unnamed = s.unnamed
      /\ t.cloidToState = Put(s.cloidToState, cloid, state)
  BY <1>t, <1>1 DEF SetState, Good, Fields
<1>3. IsMap(t.cloidToState, AnyCloid, States)
  BY <1>2, PutTyped DEF Typed
<1>4. Typed(t)
  BY <1>1, <1>2, <1>3 DEF Typed
<1>5. Spares(s, t, own)
  BY <1>2, <1>4 DEF Spares, OidsOwned
<1> QED
  BY <1>2, <1>5, <1>t

LEMMA InitOrderStateSpares ==
  ASSUME NEW s, NEW own, Typed(s), NEW cloid \in Cloids, NEW origSz \in Nat
  PROVE  Spares(s, InitOrderState(s, cloid, origSz), own)
<1>s. PICK state : state = StateOf(s, cloid)
  OBVIOUS
<1>1. state \in States
  BY <1>s, StateOfTyped
<1>q. PICK q : q = Larger(state.requestedQty, origSz)
  OBVIOUS
<1>2. q \in Nat
  BY <1>1, <1>q DEF States, Larger
<1>n. PICK n : n = [state EXCEPT !.origSz = q, !.cumQty = 0]
  OBVIOUS
<1>3. n \in States
  BY <1>1, <1>2, <1>n DEF States
<1>4. InitOrderState(s, cloid, origSz) = SetState(s, cloid, n)
  BY <1>s, <1>q, <1>n DEF InitOrderState
<1>5. cloid \in AnyCloid
  BY DEF AnyCloid
<1> QED
  BY <1>3, <1>4, <1>5, SetStateSpares

LEMMA ApplyFillSpares ==
  ASSUME NEW s, NEW own, Typed(s), NEW cloid \in AnyCloid
  PROVE  /\ Spares(s, ApplyFill(s, cloid, 1), own)
         /\ ApplyFill(s, cloid, 1).cloidToClient = s.cloidToClient
<1>s. PICK state : state = StateOf(s, cloid)
  OBVIOUS
<1>1. state \in States
  BY <1>s, StateOfTyped
<1>n. PICK n : n = [state EXCEPT !.cumQty = @ + 1]
  OBVIOUS
<1>2. n \in States
  BY <1>1, <1>n DEF States
<1>3. ApplyFill(s, cloid, 1) = SetState(s, cloid, n)
  BY <1>s, <1>n DEF ApplyFill
<1> QED
  BY <1>2, <1>3, SetStateSpares

LEMMA EnterAmendSpares ==
  ASSUME NEW s, NEW own, Typed(s), NEW cloid \in AnyCloid, NEW qty \in Nat, NEW ioc \in BOOLEAN
  PROVE  /\ Spares(s, EnterAmend(s, cloid, qty, ioc), own)
         /\ EnterAmend(s, cloid, qty, ioc).oidToCloid = s.oidToCloid
<1>s. PICK state : state = StateOf(s, cloid)
  OBVIOUS
<1>1. state \in States
  BY <1>s, StateOfTyped
<1>n. PICK n : n = [state EXCEPT !.requestedQty = qty, !.isIoc = ioc, !.stamped = TRUE]
  OBVIOUS
<1>2. n \in States
  BY <1>1, <1>n DEF States
<1>3. EnterAmend(s, cloid, qty, ioc) = SetState(s, cloid, n)
  BY <1>s, <1>n DEF EnterAmend
<1> QED
  BY <1>2, <1>3, SetStateSpares

(* An oid is registered for the order that it belongs to.                  *)
LEMMA RegisterOidSpares ==
  ASSUME NEW s, NEW own, Typed(s), NEW oid \in Nat, NEW cloid \in Cloids, Owns(own, oid, cloid)
  PROVE  Spares(s, RegisterOid(s, oid, cloid), own)
<1>t. PICK t : t = RegisterOid(s, oid, cloid)
  OBVIOUS
<1>1. Good(s) /\ Good(t)
  BY <1>t, RegisterOidShrinks, ShrinksGood DEF Typed
<1>2. /\ t.clientToCloid = s.clientToCloid /\ t.cloidToClient = s.cloidToClient
      /\ t.cloidToState = s.cloidToState /\ t.cloidToOid = s.cloidToOid
      /\ t.cloidToAsset = s.cloidToAsset /\ t.bufferedFills = s.bufferedFills
      /\ t.told = s.told /\ t.unnamed = s.unnamed
      /\ t.oidToCloid = Put(s.oidToCloid, oid, cloid)
  BY <1>t, <1>1 DEF RegisterOid, Good, Fields
<1>3. IsMap(t.oidToCloid, Nat, Cloids)
  BY <1>2, PutTyped DEF Typed
<1>4. Typed(t)
  BY <1>1, <1>2, <1>3 DEF Typed
<1>5. ASSUME OidsOwned(s, own)
      PROVE  OidsOwned(t, own)
  BY <1>2, <1>5 DEF OidsOwned, Put
<1> QED
  BY <1>2, <1>4, <1>5, <1>t DEF Spares

LEMMA SetActiveOidSpares ==
  ASSUME NEW s, NEW own, Typed(s), NEW oid \in Nat, NEW cloid \in Cloids, Owns(own, oid, cloid)
  PROVE  Spares(s, SetActiveOid(s, oid, cloid), own)
<1>r. PICK r : r = RegisterOid(s, oid, cloid)
  OBVIOUS
<1>t. PICK t : t = SetActiveOid(s, oid, cloid)
  OBVIOUS
<1>1. Spares(s, r, own) /\ Typed(r)
  BY <1>r, RegisterOidSpares, SparesTyped
<1>2. t = [r EXCEPT !.cloidToOid = Put(s.cloidToOid, cloid, oid)]
  BY <1>r, <1>t DEF SetActiveOid
<1>3. Good(r) /\ Good(t)
  BY <1>1, <1>t, SetActiveOidShrinks, ShrinksGood DEF Typed
<1>4. /\ t.clientToCloid = r.clientToCloid /\ t.cloidToClient = r.cloidToClient
      /\ t.cloidToState = r.cloidToState /\ t.oidToCloid = r.oidToCloid
      /\ t.cloidToAsset = r.cloidToAsset /\ t.bufferedFills = r.bufferedFills
      /\ t.told = r.told /\ t.unnamed = r.unnamed
      /\ t.cloidToOid = Put(s.cloidToOid, cloid, oid)
  BY <1>2, <1>3 DEF Good, Fields
<1>5. IsMap(t.cloidToOid, Cloids, Nat)
  BY <1>4, PutTyped DEF Typed
<1>6. Typed(t)
  BY <1>1, <1>3, <1>4, <1>5 DEF Typed
<1>7. Spares(r, t, own)
  BY <1>4, <1>6 DEF Spares, OidsOwned
<1> QED
  BY <1>1, <1>7, <1>t, SparesTrans

(* Reports: only two kinds tell of a fill.                                 *)
FillReports == {"PARTIALLY_FILLED", "FILLED"}

Passes(s, t, client) ==
  \A c \in Clients :
    t.told[c].filled = IF c = client THEN s.told[c].filled + 1 ELSE s.told[c].filled

LEMMA HeardFilled ==
  ASSUME NEW told \in Telling, NEW report \in ReportKinds
  PROVE  Heard(told, report).filled =
           IF report \in FillReports THEN told.filled + 1 ELSE told.filled
<1>1. told = [acked |-> told.acked, filled |-> told.filled, ends |-> told.ends,
              asFilled |-> told.asFilled, amendRejects |-> told.amendRejects]
  BY DEF Telling
<1>2. CASE report = "NEW"
  BY <1>1, <1>2 DEF Heard, FillReports
<1>3. CASE report = "PARTIALLY_FILLED"
  BY <1>1, <1>3 DEF Heard, FillReports
<1>4. CASE report = "FILLED"
  <2>1. Heard(told, report) = [acked |-> told.acked, filled |-> told.filled + 1,
                               ends |-> told.ends + 1, asFilled |-> TRUE,
                               amendRejects |-> told.amendRejects]
    BY <1>1, <1>4 DEF Heard
  <2> QED
    BY <1>4, <2>1 DEF FillReports
<1>5. CASE report \in {"CANCELLED", "REJECTED"}
  BY <1>1, <1>5 DEF Heard, FillReports
<1>6. CASE report = "AmendReject"
  <2>1. Heard(told, report) = [acked |-> told.acked, filled |-> told.filled,
                               ends |-> told.ends, asFilled |-> told.asFilled,
                               amendRejects |-> told.amendRejects + 1]
    BY <1>1, <1>6 DEF Heard
  <2> QED
    BY <1>6, <2>1 DEF FillReports
<1>7. CASE report = "CancelReject"
  BY <1>1, <1>7 DEF Heard, FillReports
<1> QED
  BY <1>2, <1>3, <1>4, <1>5, <1>6, <1>7 DEF ReportKinds

LEMMA ReportTells ==
  ASSUME NEW s, NEW own, Typed(s), NEW client \in Clients \cup {NoClient},
         NEW report \in ReportKinds
  PROVE  /\ report \notin FillReports => Spares(s, Report(s, client, report), own)
         /\ report \in FillReports => Passes(s, Report(s, client, report), client)
         /\ Typed(Report(s, client, report))
         /\ Report(s, client, report).bufferedFills = s.bufferedFills
         /\ Report(s, client, report).oidToCloid = s.oidToCloid
         /\ Report(s, client, report).cloidToClient = s.cloidToClient
<1>t. PICK t : t = Report(s, client, report)
  OBVIOUS
<1>1. /\ Good(t)
      /\ t.clientToCloid = s.clientToCloid /\ t.cloidToClient = s.cloidToClient
      /\ t.cloidToState = s.cloidToState /\ t.oidToCloid = s.oidToCloid
      /\ t.told \in [Clients -> Telling]
      /\ \A c \in Clients : t.told[c] = IF c = client THEN Heard(s.told[c], report) ELSE s.told[c]
  BY <1>t, TypedFit, ReportFacts
<1>2. /\ t.cloidToOid = s.cloidToOid /\ t.cloidToAsset = s.cloidToAsset
      /\ t.bufferedFills = s.bufferedFills
      /\ t.unnamed = IF client = NoClient THEN s.unnamed \cup {report} ELSE s.unnamed
  BY <1>t DEF Report, Typed, Good, Fields
<1>3. Typed(t)
  BY <1>1, <1>2 DEF Typed
<1>4. \A c \in Clients : s.told[c] \in Telling
  BY DEF Typed
<1>5. ASSUME report \notin FillReports
      PROVE  Spares(s, t, own)
  <2>1. \A c \in Clients : t.told[c].filled = s.told[c].filled
    BY <1>1, <1>4, <1>5, HeardFilled
  <2> QED
    BY <1>1, <1>2, <1>3, <2>1 DEF Spares, OidsOwned
<1>6. ASSUME report \in FillReports
      PROVE  Passes(s, t, client)
  BY <1>1, <1>4, <1>6, HeardFilled DEF Passes
<1> QED
  BY <1>1, <1>2, <1>3, <1>5, <1>6, <1>t

LEMMA ReportSpares ==
  ASSUME NEW s, NEW own, Typed(s), NEW client \in Clients \cup {NoClient},
         NEW report \in ReportKinds \ FillReports
  PROVE  Spares(s, Report(s, client, report), own)
BY ReportTells

(* removeOrder.                                                            *)
LEMMA RemoveSpares ==
  ASSUME NEW s, NEW own, Typed(s), NEW cloids
  PROVE  /\ Spares(s, RemoveOrders(s, cloids), own)
         /\ RemoveOrders(s, cloids).told = s.told
<1>t. PICK t : t = RemoveOrders(s, cloids)
  OBVIOUS
<1>g. PICK clients : clients = {s.cloidToClient[x] : x \in cloids \cap DOMAIN s.cloidToClient}
  OBVIOUS
<1>o. PICK oids : oids = {oid \in DOMAIN s.oidToCloid : s.oidToCloid[oid] \in cloids}
  OBVIOUS
<1>1. Good(s) /\ Good(t)
  BY <1>t, RemoveOrdersShrinks, ShrinksGood DEF Typed
<1>f. PICK f : f = ForgetExchangeIds(s, cloids)
  OBVIOUS
<1>2. /\ DOMAIN f = Fields
      /\ f.told = s.told /\ f.clientToCloid = s.clientToCloid
      /\ f.cloidToClient = s.cloidToClient
      /\ f.cloidToState = Erase(s.cloidToState, cloids)
      /\ f.cloidToOid = Erase(s.cloidToOid, cloids)
      /\ f.oidToCloid = Erase(s.oidToCloid, oids)
      /\ f.cloidToAsset = s.cloidToAsset \ cloids
      /\ f.bufferedFills = s.bufferedFills /\ f.unnamed = s.unnamed
  BY <1>f, <1>o, <1>1 DEF ForgetExchangeIds, Good, Fields
<1>3. t = [f EXCEPT !.clientToCloid = Erase(@, clients), !.cloidToClient = Erase(@, cloids)]
  BY <1>f, <1>g, <1>t DEF RemoveOrders
<1>4. /\ t.told = s.told
      /\ t.clientToCloid = Erase(s.clientToCloid, clients)
      /\ t.cloidToClient = Erase(s.cloidToClient, cloids)
      /\ t.cloidToState = Erase(s.cloidToState, cloids)
      /\ t.cloidToOid = Erase(s.cloidToOid, cloids)
      /\ t.oidToCloid = Erase(s.oidToCloid, oids)
      /\ t.cloidToAsset = s.cloidToAsset \ cloids
      /\ t.bufferedFills = s.bufferedFills /\ t.unnamed = s.unnamed
  BY <1>2, <1>3 DEF Fields
<1>5. /\ IsMap(t.clientToCloid, Clients, Cloids) /\ IsMap(t.cloidToClient, Cloids, Clients)
      /\ IsMap(t.oidToCloid, Nat, Cloids) /\ IsMap(t.cloidToOid, Cloids, Nat)
      /\ IsMap(t.cloidToState, AnyCloid, States)
  BY <1>4, EraseTyped DEF Typed
<1>6. Typed(t)
  BY <1>1, <1>4, <1>5 DEF Typed
<1>7. OidsOwned(s, own) => OidsOwned(t, own)
  BY <1>4 DEF OidsOwned, Erase
<1>8. Spares(s, t, own)
  BY <1>4, <1>6, <1>7 DEF Spares
<1> QED
  BY <1>4, <1>8, <1>t

LEMMA ReportRemoveSpares ==
  ASSUME NEW s, NEW own, Typed(s), NEW client \in Clients \cup {NoClient},
         NEW report \in ReportKinds \ FillReports, NEW cloid
  PROVE  Spares(s, RemoveOrder(Report(s, client, report), cloid), own)
<1>t. PICK t : t = Report(s, client, report)
  OBVIOUS
<1>1. Spares(s, t, own) /\ Typed(t)
  BY <1>t, ReportSpares, SparesTyped
<1>2. Spares(t, RemoveOrder(t, cloid), own)
  BY <1>1, RemoveSpares DEF RemoveOrder
<1> QED
  BY <1>1, <1>2, <1>t, SparesTrans

LEMMA ClientTyped ==
  ASSUME NEW s, Typed(s), NEW cloid
  PROVE  LookupClientOrderId(s, cloid) \in Clients \cup {NoClient}
BY TypedFit, LookedUp

LEMMA CloidTyped ==
  ASSUME NEW s, Typed(s), NEW oid
  PROVE  LookupCloidByOid(s, oid) \in AnyCloid
BY DEF LookupCloidByOid, Typed, IsMap, AnyCloid

-----------------------------------------------------------------------------
(* The callbacks.  A timeout drops the oldest of the buffered fills.       *)
LEMMA CheckTimeoutsSpares ==
  ASSUME NEW s, NEW own, Typed(s), NEW n \in 0 .. Len(s.bufferedFills), NEW late
  PROVE  /\ Typed(CheckTimeouts(s, n, late))
         /\ \A c \in Clients : CheckTimeouts(s, n, late).told[c].filled = s.told[c].filled
         /\ CheckTimeouts(s, n, late).bufferedFills =
              SubSeq(s.bufferedFills, n + 1, Len(s.bufferedFills))
         /\ OidsOwned(s, own) => OidsOwned(CheckTimeouts(s, n, late), own)
<1>w. PICK swept : swept = late \cap DOMAIN s.cloidToClient
  OBVIOUS
<1>g. PICK clients : clients = {s.cloidToClient[cloid] : cloid \in swept}
  OBVIOUS
<1>h. PICK told : told = [c \in Clients |-> IF c \in clients THEN Heard(s.told[c], "CANCELLED")
                                                            ELSE s.told[c]]
  OBVIOUS
<1>b. PICK buffer : buffer = SubSeq(s.bufferedFills, n + 1, Len(s.bufferedFills))
  OBVIOUS
<1>a. PICK a : a = [s EXCEPT !.bufferedFills = buffer, !.told = told]
  OBVIOUS
<1>1. CheckTimeouts(s, n, late) = RemoveOrders(a, swept)
  BY <1>w, <1>g, <1>h, <1>b, <1>a DEF CheckTimeouts
<1>2. /\ DOMAIN a = DOMAIN s /\ a.told = told /\ a.bufferedFills = buffer
      /\ a.clientToCloid = s.clientToCloid /\ a.cloidToClient = s.cloidToClient
      /\ a.cloidToState = s.cloidToState /\ a.oidToCloid = s.oidToCloid
      /\ a.cloidToOid = s.cloidToOid /\ a.cloidToAsset = s.cloidToAsset
      /\ a.unnamed = s.unnamed
  BY <1>a DEF Typed, Good, Fields
<1>3. /\ told \in [Clients -> Telling]
      /\ \A c \in Clients : told[c].filled = s.told[c].filled
  <2>1. "CANCELLED" \in ReportKinds /\ "CANCELLED" \notin FillReports
    BY DEF ReportKinds, FillReports
  <2>2. \A c \in Clients : s.told[c] \in Telling
    BY DEF Typed
  <2>3. \A c \in Clients : /\ Heard(s.told[c], "CANCELLED") \in Telling
                           /\ Heard(s.told[c], "CANCELLED").filled = s.told[c].filled
    BY <2>1, <2>2, HeardFacts, HeardFilled
  <2> QED
    BY <1>h, <2>2, <2>3
<1>4. buffer \in Seq(Fill)
  BY <1>b, LaterCounts DEF Typed
<1>5. Typed(a)
  BY <1>2, <1>3, <1>4 DEF Typed, Good, Paired
<1>6. Spares(a, RemoveOrders(a, swept), own)
  BY <1>5, RemoveSpares
<1>7. OidsOwned(s, own) => OidsOwned(a, own)
  BY <1>2 DEF OidsOwned
<1> QED
  BY <1>1, <1>2, <1>3, <1>6, <1>7, <1>b DEF Spares

(* A fill is passed on to the client of the order, once.                   *)
LEMMA EmitFillPasses ==
  ASSUME NEW s, NEW own, Typed(s), NEW cloid \in AnyCloid, NEW client \in Clients \cup {NoClient}
  PROVE  /\ Typed(EmitFill(s, client, cloid))
         /\ Passes(s, EmitFill(s, client, cloid), client)
         /\ EmitFill(s, client, cloid).bufferedFills = s.bufferedFills
         /\ OidsOwned(s, own) => OidsOwned(EmitFill(s, client, cloid), own)
<1>t. PICK t : t = ApplyFill(s, cloid, 1)
  OBVIOUS
<1>u. PICK u : u = EmitFill(s, client, cloid)
  OBVIOUS
<1>p. PICK p : p = Report(t, client, "PARTIALLY_FILLED")
  OBVIOUS
<1>q. PICK q : q = Report(t, client, "FILLED")
  OBVIOUS
<1>r. PICK r : r = RemoveOrder(q, cloid)
  OBVIOUS
<1>1. Spares(s, t, own) /\ Typed(t)
  BY <1>t, ApplyFillSpares, SparesTyped
<1>2. u \in {p, q, r}
  BY <1>t, <1>u, <1>p, <1>q, <1>r DEF EmitFill
<1>3. /\ "PARTIALLY_FILLED" \in ReportKinds \cap FillReports
      /\ "FILLED" \in ReportKinds \cap FillReports
  BY DEF ReportKinds, FillReports
<1>4. Typed(p) /\ Passes(t, p, client) /\ p.bufferedFills = t.bufferedFills
      /\ p.oidToCloid = t.oidToCloid
  BY <1>1, <1>3, <1>p, ReportTells
<1>5. Typed(q) /\ Passes(t, q, client) /\ q.bufferedFills = t.bufferedFills
      /\ q.oidToCloid = t.oidToCloid
  BY <1>1, <1>3, <1>q, ReportTells
<1>6. Spares(q, r, own) /\ r.told = q.told
  BY <1>5, <1>r, RemoveSpares DEF RemoveOrder
<1>7. /\ Typed(u) /\ Passes(t, u, client) /\ u.bufferedFills = t.bufferedFills
      /\ OidsOwned(t, own) => OidsOwned(u, own)
  <2>1. CASE u = p
    BY <1>4, <2>1 DEF OidsOwned
  <2>2. CASE u = q
    BY <1>5, <2>2 DEF OidsOwned
  <2>3. CASE u = r
    <3>1. OidsOwned(t, own) => OidsOwned(q, own)
      BY <1>5 DEF OidsOwned
    <3>2. Typed(r) /\ r.bufferedFills = t.bufferedFills /\ (OidsOwned(q, own) => OidsOwned(r, own))
      BY <1>5, <1>6 DEF Spares
    <3>3. Passes(t, r, client)
      BY <1>5, <1>6 DEF Passes
    <3> QED
      BY <2>3, <3>1, <3>2, <3>3
  <2> QED
    BY <1>2, <2>1, <2>2, <2>3
<1>8. /\ Passes(s, u, client) /\ u.bufferedFills = s.bufferedFills
      /\ OidsOwned(s, own) => OidsOwned(u, own)
  BY <1>1, <1>7 DEF Spares, Passes
<1> QED
  BY <1>7, <1>8, <1>u

(* An update about an order says which oid is the order's.                 *)
Genuine(u, own) ==
  u.oid \in Nat /\ u.cloid \in Cloids /\ u.origSz \in Nat /\ Owns(own, u.oid, u.cloid)

LEMMA ReportKnownSpares ==
  ASSUME NEW s, NEW own, Typed(s), NEW client \in Clients \cup {NoClient},
         NEW report \in ReportKinds \ FillReports
  PROVE  Spares(s, ReportKnown(s, client, report), own)
BY ReportSpares, SparesSelf DEF ReportKnown

LEMMA EndReports ==
  /\ "NEW" \in ReportKinds \ FillReports
  /\ "CANCELLED" \in ReportKinds \ FillReports
  /\ "REJECTED" \in ReportKinds \ FillReports
  /\ "AmendReject" \in ReportKinds \ FillReports
  /\ "CancelReject" \in ReportKinds \ FillReports
BY DEF ReportKinds, FillReports

LEMMA OnOpenSpares ==
  ASSUME NEW s, NEW own, Typed(s), NEW u, Genuine(u, own)
  PROVE  Spares(s, OnOpen(s, u), own)
<1>g. u.oid \in Nat /\ u.cloid \in Cloids /\ u.origSz \in Nat /\ Owns(own, u.oid, u.cloid)
  BY DEF Genuine
<1>a. PICK a : a = SetActiveOid(s, u.oid, u.cloid)
  OBVIOUS
<1>b. PICK b : b = InitOrderState(a, u.cloid, u.origSz)
  OBVIOUS
<1>1. Spares(s, a, own) /\ Typed(a)
  BY <1>g, <1>a, SetActiveOidSpares, SparesTyped
<1>2. Spares(a, b, own) /\ Typed(b)
  BY <1>g, <1>1, <1>b, InitOrderStateSpares, SparesTyped
<1>3. LookupClientOrderId(b, u.cloid) \in Clients \cup {NoClient}
  BY <1>2, ClientTyped
<1>4. Spares(b, ReportKnown(b, LookupClientOrderId(b, u.cloid), "NEW"), own)
  BY <1>2, <1>3, EndReports, ReportKnownSpares
<1>5. OnOpen(s, u) = ReportKnown(b, LookupClientOrderId(b, u.cloid), "NEW")
  BY <1>a, <1>b DEF OnOpen
<1> QED
  BY <1>1, <1>2, <1>4, <1>5, SparesTrans

LEMMA OnFilledSpares ==
  ASSUME NEW s, NEW own, Typed(s), NEW u
  PROVE  Spares(s, OnFilled(s, u), own)
<1>1. LookupClientOrderId(s, u.cloid) \in Clients \cup {NoClient}
  BY ClientTyped
<1>r. PICK r : r = ReportKnown(s, LookupClientOrderId(s, u.cloid), "CANCELLED")
  OBVIOUS
<1>2. Spares(s, r, own) /\ Typed(r)
  BY <1>1, <1>r, EndReports, ReportKnownSpares, SparesTyped
<1>3. Spares(r, RemoveOrder(r, u.cloid), own) /\ Spares(s, RemoveOrder(s, u.cloid), own)
  BY <1>2, RemoveSpares DEF RemoveOrder
<1>4. OnFilled(s, u) = RemoveOrder(r, u.cloid) \/ OnFilled(s, u) = RemoveOrder(s, u.cloid)
  BY <1>r DEF OnFilled
<1> QED
  BY <1>2, <1>3, <1>4, SparesTrans

LEMMA OnEndedSpares ==
  ASSUME NEW s, NEW own, Typed(s), NEW u
  PROVE  Spares(s, OnEnded(s, u), own)
<1>1. LookupClientOrderId(s, u.cloid) \in Clients \cup {NoClient}
  BY ClientTyped
<1>2. \/ OnEnded(s, u) = s
      \/ OnEnded(s, u) =
           RemoveOrder(Report(s, LookupClientOrderId(s, u.cloid), "CANCELLED"), u.cloid)
      \/ OnEnded(s, u) =
           RemoveOrder(Report(s, LookupClientOrderId(s, u.cloid), "REJECTED"), u.cloid)
  BY DEF OnEnded
<1> QED
  BY <1>1, <1>2, EndReports, SparesSelf, ReportRemoveSpares

LEMMA OnOrderUpdateSpares ==
  ASSUME NEW s, NEW own, Typed(s), NEW u, Genuine(u, own)
  PROVE  Spares(s, OnOrderUpdate(s, u), own)
<1>t. PICK t : t = RegisterOid(s, u.oid, u.cloid)
  OBVIOUS
<1>1. Spares(s, t, own) /\ Typed(t)
  BY <1>t, RegisterOidSpares, SparesTyped DEF Genuine
<1>2. OnOrderUpdate(s, u) \in {OnOpen(t, u), t, OnFilled(t, u), OnEnded(t, u)}
  BY <1>t DEF OnOrderUpdate
<1>3. Spares(t, OnOrderUpdate(s, u), own)
  BY <1>1, <1>2, OnOpenSpares, OnFilledSpares, OnEndedSpares, SparesSelf
<1> QED
  BY <1>1, <1>3, SparesTrans

LEMMA ResponseSpares ==
  ASSUME NEW s, NEW own, Typed(s), NEW result, NEW cloid
  PROVE  /\ Spares(s, OnPlaceOrder(s, result, cloid), own)
         /\ Spares(s, OnModifyOrder(s, result, cloid), own)
         /\ Spares(s, OnCancelOrder(s, result, cloid), own)
<1>0. LookupClientOrderId(s, cloid) \in Clients \cup {NoClient}
  BY ClientTyped
<1>1. Spares(s, SendNewOrderReject(s, cloid), own)
  BY <1>0, EndReports, ReportRemoveSpares DEF SendNewOrderReject
<1>2. Spares(s, SendAmendReject(s, cloid), own)
  BY <1>0, EndReports, ReportKnownSpares DEF SendAmendReject
<1>3. Spares(s, SendCancelReject(s, cloid), own)
  BY <1>0, EndReports, ReportSpares DEF SendCancelReject
<1>4. Spares(s, s, own)
  BY SparesSelf
<1>5. Spares(s, OnPlaceOrder(s, result, cloid), own)
  BY <1>1, <1>4 DEF OnPlaceOrder
<1>6. Spares(s, OnModifyOrder(s, result, cloid), own)
  BY <1>2, <1>4 DEF OnModifyOrder
<1>7. Spares(s, OnCancelOrder(s, result, cloid), own)
  BY <1>3, <1>4 DEF OnCancelOrder
<1> QED
  BY <1>5, <1>6, <1>7

(* onNewOrder.                                                             *)
LEMMA AddOrderSpares ==
  ASSUME NEW s, NEW own, Typed(s), NEW c \in Clients, NEW x \in Cloids, NEW qty \in Nat,
         NEW ioc \in BOOLEAN, Good(AddOrder(s, c, x, qty, ioc))
  PROVE  Spares(s, AddOrder(s, c, x, qty, ioc), own)
<1>s. PICK state : state = StateOf(s, x)
  OBVIOUS
<1>1. state \in States
  BY <1>s, StateOfTyped
<1>n. PICK n : n = [state EXCEPT !.requestedQty = qty, !.isIoc = ioc, !.stamped = TRUE]
  OBVIOUS
<1>2. n \in States /\ x \in AnyCloid
  BY <1>1, <1>n DEF States, AnyCloid
<1>t. PICK t : t = AddOrder(s, c, x, qty, ioc)
  OBVIOUS
<1>3. t = [s EXCEPT !.clientToCloid = Put(s.clientToCloid, c, x),
                    !.cloidToClient = Put(s.cloidToClient, x, c),
                    !.cloidToAsset = s.cloidToAsset \cup {x},
                    !.cloidToState = Put(s.cloidToState, x, n)]
  BY <1>s, <1>n, <1>t DEF AddOrder
<1>4. /\ t.clientToCloid = Put(s.clientToCloid, c, x)
      /\ t.cloidToClient = Put(s.cloidToClient, x, c)
      /\ t.cloidToAsset = s.cloidToAsset \cup {x}
      /\ t.cloidToState = Put(s.cloidToState, x, n)
      /\ t.oidToCloid = s.oidToCloid /\ t.cloidToOid = s.cloidToOid
      /\ t.bufferedFills = s.bufferedFills /\ t.told = s.told /\ t.unnamed = s.unnamed
  BY <1>3 DEF Typed, Good, Fields
<1>5. /\ IsMap(t.clientToCloid, Clients, Cloids) /\ IsMap(t.cloidToClient, Cloids, Clients)
      /\ IsMap(t.cloidToState, AnyCloid, States)
  BY <1>2, <1>4, PutTyped DEF Typed
<1>6. Typed(t)
  BY <1>4, <1>5, <1>t DEF Typed
<1>7. Spares(s, t, own)
  BY <1>4, <1>6 DEF Spares, OidsOwned
<1> QED
  BY <1>7, <1>t

-----------------------------------------------------------------------------
(* The invariant.  Each oid belongs to one order, whoever names it; an     *)
(* order that is still to be placed has not been filled; and no more is    *)
(* passed on or under way than was filled.                                 *)
OwnedBy(own) ==
  /\ own \in [0 .. nextOid - 1 -> AnyCloid]
  /\ \A i \in 1 .. Len(stream) : Owns(own, stream[i].oid, stream[i].cloid)
  /\ \A i \in 1 .. Len(gw.bufferedFills) :
       Owns(own, gw.bufferedFills[i].oid, gw.bufferedFills[i].cloid)
  /\ \A i \in 1 .. Len(replaying) : Owns(own, replaying[i].oid, replaying[i].cloid)
  /\ OidsOwned(gw, own)
  /\ \A x \in Cloids : book[x].state = "live" => Owns(own, book[x].oid, x)

IsPlace(i) == requests[i].kind = "place"

PlaceInv ==
  /\ \A i \in 1 .. Len(requests) : IsPlace(i) => book[requests[i].cloid].state = "unknown"
  /\ \A i, j \in 1 .. Len(requests) :
       IsPlace(i) /\ IsPlace(j) /\ requests[i].cloid = requests[j].cloid => i = j
  /\ \A x \in Cloids : book[x].state = "unknown" => book[x].filled = 0

FillBound ==
  /\ \A x \in Cloids : OnTheirWay(x) <= book[x].filled
  /\ \A c \in Clients : seen[c] = "no" => gw.told[c].filled = 0
  /\ \A c \in Entered :
       gw.told[c].filled + OnTheirWay(cloidOf[c]) <= book[cloidOf[c]].filled

FillInv ==
  /\ Typed(gw) /\ replaying \in Seq(Fill)
  /\ isReplay \in BOOLEAN /\ connected \in BOOLEAN
  /\ PlaceInv /\ FillBound
  /\ \E own : OwnedBy(own)

LEMMA WayCounted ==
  ASSUME IInv, FillInv, NEW x
  PROVE  /\ FillsOf(stream, x) \in Nat /\ FillsOf(gw.bufferedFills, x) \in Nat
         /\ FillsOf(replaying, x) \in Nat /\ OnTheirWay(x) \in Nat
<1>1. stream \in Seq(Events) /\ gw.bufferedFills \in Seq(Fill) /\ replaying \in Seq(Fill)
  BY StreamTypes DEF FillInv, Typed
<1>2. /\ FillsOf(stream, x) \in Nat /\ FillsOf(gw.bufferedFills, x) \in Nat
      /\ FillsOf(replaying, x) \in Nat
  BY <1>1, FillsCounted
<1> QED
  BY <1>2 DEF OnTheirWay

LEMMA ToldTyped ==
  ASSUME IInv, FillInv, NEW c \in Clients
  PROVE  /\ gw.told[c].filled \in Nat
         /\ c \in Entered => cloidOf[c] \in Cloids /\ book[cloidOf[c]].filled \in Nat
<1>1. gw.told[c].filled \in Nat
  BY DEF FillInv, Typed, Telling
<1>2. ASSUME c \in Entered
      PROVE  cloidOf[c] \in Cloids
  BY <1>2 DEF IInv, CloidInv
<1> QED
  BY <1>1, <1>2, EntryTypes

-----------------------------------------------------------------------------
(* The exchange: what it says of an order counts what it fills.            *)
News(own, x, events) ==
  /\ events \in Seq(Events)
  /\ \A i \in 1 .. Len(events) : events[i].cloid = x /\ Owns(own, events[i].oid, x)

LEMMA NoNews ==
  ASSUME NEW own, NEW x
  PROVE  News(own, x, <<>>) /\ FillsOf(<<>>, x) = 0
BY NoneCounts DEF News

LEMMA OneNews ==
  ASSUME NEW own, NEW x, NEW a \in Events, a.cloid = x, Owns(own, a.oid, x)
  PROVE  News(own, x, <<a>>) /\ FillsOf(<<a>>, x) = (IF a.type = "fill" THEN 1 ELSE 0)
<1>1. FillsOf(<<a>>, x) = One(a, x)
  BY OneCounts
<1>2. <<a>> \in Seq(Events) /\ Len(<<a>>) = 1 /\ <<a>>[1] = a
  OBVIOUS
<1>3. \A i \in 1 .. Len(<<a>>) : i = 1
  BY <1>2
<1>4. News(own, x, <<a>>)
  BY <1>2, <1>3 DEF News
<1> QED
  BY <1>1, <1>4 DEF One, IsFillOf

LEMMA MoreNews ==
  ASSUME NEW own, NEW x, NEW s, NEW t, News(own, x, s), News(own, x, t)
  PROVE  News(own, x, s \o t) /\ FillsOf(s \o t, x) = FillsOf(s, x) + FillsOf(t, x)
<1>1. s \in Seq(Events) /\ t \in Seq(Events)
  BY DEF News
<1>v. PICK v : v = s \o t
  OBVIOUS
<1>n. PICK m \in Nat, n \in Nat : m = Len(s) /\ n = Len(t)
  BY <1>1, LenProperties
<1>2. /\ v \in Seq(Events) /\ Len(v) = m + n
      /\ \A k \in 1 .. m + n : v[k] = IF k <= m THEN s[k] ELSE t[k - m]
  BY <1>1, <1>n, <1>v, ConcatProperties
<1>3. ASSUME NEW k \in 1 .. m + n
      PROVE  v[k].cloid = x /\ Owns(own, v[k].oid, x)
  <2>1. CASE k <= m
    <3>1. k \in 1 .. Len(s) /\ v[k] = s[k]
      BY <1>2, <1>n, <2>1
    <3> QED
      BY <3>1 DEF News
  <2>2. CASE ~(k <= m)
    <3>1. k - m \in 1 .. Len(t) /\ v[k] = t[k - m]
      BY <1>2, <1>n, <2>2
    <3> QED
      BY <3>1 DEF News
  <2> QED
    BY <2>1, <2>2
<1>4. News(own, x, v)
  BY <1>2, <1>3 DEF News
<1>5. FillsOf(v, x) = FillsOf(s, x) + FillsOf(t, x)
  BY <1>1, <1>v, ConcatCounts
<1> QED
  BY <1>4, <1>5, <1>v

LEMMA NewsElsewhere ==
  ASSUME NEW own, NEW x, NEW events, News(own, x, events), NEW y, y # x
  PROVE  FillsOf(events, y) = 0
<1>1. DOMAIN events = 1 .. Len(events)
  BY LenProperties DEF News
<1>2. FillsAt(events, y) = {}
  BY <1>1 DEF FillsAt, CountedAt, News
<1> QED
  BY <1>2, FS_EmptySet DEF FillsOf, FillsAt, CountedAt

(* One order's entry changes, and its news is produced.                    *)
Turns(own, x, e, events) ==
  /\ x \in Cloids /\ e \in BookEntry
  /\ book' = [book EXCEPT ![x] = e]
  /\ e.state # "unknown"
  /\ e.state = "live" => Owns(own, e.oid, x)
  /\ News(own, x, events) /\ Produces(events)
  /\ e.filled = book[x].filled + FillsOf(events, x)

Asked(x) ==
  /\ requests' = requests \/ (requests # <<>> /\ requests' = Tail(requests))
  /\ \A i \in 1 .. Len(requests') : requests'[i].kind = "place" => requests'[i].cloid # x

LEMMA PlaceTail ==
  ASSUME IInv, PlaceInv, requests # <<>>, requests' = Tail(requests)
  PROVE  /\ \A i \in 1 .. Len(requests') : requests'[i].kind = "place" =>
              book[requests'[i].cloid].state = "unknown"
         /\ \A i, j \in 1 .. Len(requests') :
              /\ requests'[i].kind = "place" /\ requests'[j].kind = "place"
              /\ requests'[i].cloid = requests'[j].cloid
              => i = j
         /\ requests[1].kind = "place" =>
              \A i \in 1 .. Len(requests') : requests'[i].kind = "place" =>
                requests'[i].cloid # requests[1].cloid
<1>n. PICK n \in Nat : n = Len(requests) /\ 1 \in 1 .. n
  BY NextRequest, LenProperties DEF IInv, TypesOK, ExchangeTypeOK
<1>1. Len(requests') = n - 1 /\ \A i \in 1 .. n - 1 : requests'[i] = requests[i + 1]
  BY <1>n, HeadTailProperties DEF IInv, TypesOK, ExchangeTypeOK
<1>2. \A i \in 1 .. n - 1 : i + 1 \in 1 .. n /\ i + 1 # 1
  BY <1>n
<1>3. \A i, j \in 1 .. n - 1 : i + 1 = j + 1 => i = j
  BY <1>n
<1>4. /\ \A i \in 1 .. n : requests[i].kind = "place" => book[requests[i].cloid].state = "unknown"
      /\ \A i, j \in 1 .. n :
           /\ requests[i].kind = "place" /\ requests[j].kind = "place"
           /\ requests[i].cloid = requests[j].cloid
           => i = j
  BY <1>n DEF PlaceInv, IsPlace
<1>r. 1 .. Len(requests') = 1 .. n - 1
  BY <1>1
<1>5. ASSUME NEW i \in 1 .. Len(requests'), requests'[i].kind = "place"
      PROVE  book[requests'[i].cloid].state = "unknown"
  BY <1>1, <1>2, <1>4, <1>5, <1>r
<1>6. ASSUME NEW i \in 1 .. Len(requests'), NEW j \in 1 .. Len(requests'),
             requests'[i].kind = "place", requests'[j].kind = "place",
             requests'[i].cloid = requests'[j].cloid
      PROVE  i = j
  <2>1. i + 1 = j + 1
    BY <1>1, <1>2, <1>4, <1>6, <1>r
  <2> QED
    BY <1>3, <1>r, <2>1
<1>7. ASSUME requests[1].kind = "place", NEW i \in 1 .. Len(requests'), requests'[i].kind = "place"
      PROVE  requests'[i].cloid # requests[1].cloid
  BY <1>1, <1>2, <1>4, <1>7, <1>n, <1>r
<1> QED
  BY <1>5, <1>6, <1>7

(* The owners of the oids, with those of the oids handed out since.        *)
Grown(old, own) ==
  /\ OwnedBy(old)
  /\ own \in [0 .. nextOid' - 1 -> AnyCloid]
  /\ \A oid, y : Owns(old, oid, y) => Owns(own, oid, y)

LEMMA SilentTurn ==
  ASSUME IInv, NEW own, NEW x \in Cloids, NEW e \in BookEntry, NEW events,
         book' = [book EXCEPT ![x] = e], e.state # "unknown",
         e.state = "live" => Owns(own, e.oid, x),
         News(own, x, events), Produces(events), FillsOf(events, x) = 0,
         e.filled = book[x].filled
  PROVE  Turns(own, x, e, events)
<1>1. book[x].filled \in Nat
  BY EntryTypes
<1>2. e.filled = book[x].filled + FillsOf(events, x)
  BY <1>1
<1> QED
  BY <1>2 DEF Turns

LEMMA TurnKeeps ==
  ASSUME IInv, FillInv, NEW old, NEW own, Grown(old, own),
         NEW x, NEW e, NEW events, Turns(own, x, e, events), Asked(x),
         UNCHANGED gatewayVars
  PROVE  FillInv'
<1>g. /\ OwnedBy(old) /\ own \in [0 .. nextOid' - 1 -> AnyCloid]
      /\ \A oid, y : Owns(old, oid, y) => Owns(own, oid, y)
  BY DEF Grown
<1>h. UNCHANGED <<gw, replaying, seen, cloidOf, isReplay, connected>>
  BY DEF gatewayVars, history
<1>0. /\ x \in Cloids /\ e \in BookEntry /\ book' = [book EXCEPT ![x] = e]
      /\ e.state # "unknown" /\ (e.state = "live" => Owns(own, e.oid, x))
      /\ News(own, x, events) /\ events \in Seq(Events) /\ Produces(events)
      /\ e.filled = book[x].filled + FillsOf(events, x)
  BY DEF Turns, News
<1>1. /\ book \in [Cloids -> BookEntry]
      /\ book'[x] = e /\ \A y \in Cloids : y # x => book'[y] = book[y]
      /\ \A y \in Cloids : book[y].filled \in Nat
  BY <1>0, EntryTypes
<1>2. stream' = stream \/ stream' = stream \o events
  BY <1>0 DEF Produces
<1>3. stream \in Seq(Events)
  BY StreamTypes
<1>4. PlaceInv'
  <2>1. /\ \A i \in 1 .. Len(requests') : requests'[i].kind = "place" =>
              book[requests'[i].cloid].state = "unknown"
        /\ \A i, j \in 1 .. Len(requests') :
              /\ requests'[i].kind = "place" /\ requests'[j].kind = "place"
              /\ requests'[i].cloid = requests'[j].cloid
              => i = j
    <3>1. CASE requests' = requests
      BY <3>1 DEF FillInv, PlaceInv, IsPlace
    <3>2. CASE requests # <<>> /\ requests' = Tail(requests)
      BY <3>2, PlaceTail DEF FillInv
    <3> QED
      BY <3>1, <3>2 DEF Asked
  <2>2. \A i \in 1 .. Len(requests') : requests'[i].kind = "place" => requests'[i].cloid # x
    BY DEF Asked
  <2>3. ASSUME NEW i \in 1 .. Len(requests'), requests'[i].kind = "place"
        PROVE  book'[requests'[i].cloid].state = "unknown"
    <3>1. book'[requests'[i].cloid] = book[requests'[i].cloid]
      BY <1>0, <1>1, <2>2, <2>3
    <3> QED
      BY <2>1, <2>3, <3>1
  <2>4. ASSUME NEW y \in Cloids, book'[y].state = "unknown"
        PROVE  book'[y].filled = 0
    BY <1>0, <1>1, <2>4 DEF FillInv, PlaceInv
  <2> QED
    BY <2>1, <2>3, <2>4 DEF PlaceInv, IsPlace
<1>5. ASSUME NEW y \in Cloids
      PROVE  /\ OnTheirWay(y)' \in Nat
             /\ OnTheirWay(y)' + book[y].filled <= OnTheirWay(y) + book'[y].filled
  <2>n. PICK n \in Nat : n = FillsOf(events, y)
    BY <1>0, FillsCounted
  <2>1. book'[y].filled = book[y].filled + n
    <3>1. CASE y = x
      BY <1>0, <1>1, <2>n, <3>1
    <3>2. CASE y # x
      <4>1. n = 0
        BY <1>0, <2>n, <3>2, NewsElsewhere
      <4> QED
        BY <1>1, <3>2, <4>1
    <3> QED
      BY <3>1, <3>2
  <2>2. FillsOf(stream, y) \in Nat /\ (FillsOf(stream', y) = FillsOf(stream, y)
                                       \/ FillsOf(stream', y) = FillsOf(stream, y) + n)
    <3>1. FillsOf(stream, y) \in Nat
      BY WayCounted
    <3>2. FillsOf(stream \o events, y) = FillsOf(stream, y) + n
      BY <1>0, <1>3, <2>n, ConcatCounts
    <3> QED
      BY <1>2, <3>1, <3>2
  <2>3. OnTheirWay(y)' = FillsOf(stream', y) + FillsOf(gw.bufferedFills, y) + FillsOf(replaying, y)
    BY <1>h DEF OnTheirWay
  <2>4. FillsOf(gw.bufferedFills, y) \in Nat /\ FillsOf(replaying, y) \in Nat
    BY WayCounted
  <2> QED
    BY <1>1, <2>1, <2>2, <2>3, <2>4 DEF OnTheirWay
<1>6. FillBound'
  <2>1. ASSUME NEW y \in Cloids
        PROVE  (OnTheirWay(y) <= book[y].filled)'
    <3>1. OnTheirWay(y) <= book[y].filled
      BY DEF FillInv, FillBound
    <3>2. book'[y].filled \in Nat
      BY <1>0, <1>1 DEF BookEntry
    <3> QED
      BY <1>1, <1>5, <1>h, <3>1, <3>2, WayCounted
  <2>2. ASSUME NEW c \in Clients, seen[c] = "entered"
        PROVE  (gw.told[c].filled + OnTheirWay(cloidOf[c]) <= book[cloidOf[c]].filled)'
    <3>y. PICK y : y = cloidOf[c]
      OBVIOUS
    <3>0. c \in Entered /\ y \in Cloids /\ gw.told[c].filled \in Nat
      BY <2>2, <3>y, ToldTyped DEF Entered
    <3>1. gw.told[c].filled + OnTheirWay(y) <= book[y].filled
      BY <3>0, <3>y DEF FillInv, FillBound
    <3>2. book'[y].filled \in Nat
      BY <1>0, <1>1, <3>0 DEF BookEntry
    <3>n. PICK w \in Nat, v \in Nat, b \in Nat, d \in Nat :
            w = OnTheirWay(y) /\ v = OnTheirWay(y)' /\ b = book[y].filled /\ d = book'[y].filled
      BY <1>1, <1>5, <3>0, <3>2, WayCounted
    <3>4. v + b <= w + d
      BY <1>5, <3>0, <3>n
    <3>5. gw.told[c].filled + w <= b
      BY <3>1, <3>n
    <3>6. gw.told[c].filled + v <= d
      BY <3>0, <3>4, <3>5, <3>n
    <3>3. gw.told[c].filled + OnTheirWay(y)' <= book'[y].filled
      BY <3>6, <3>n
    <3> QED
      BY <1>h, <3>3, <3>y
  <2> QED
    BY <1>h, <2>1, <2>2 DEF FillBound, Entered, FillInv
<1>7. OwnedBy(own)'
  <2>1. /\ \A i \in 1 .. Len(stream) : Owns(own, stream[i].oid, stream[i].cloid)
        /\ \A i \in 1 .. Len(gw.bufferedFills) :
             Owns(own, gw.bufferedFills[i].oid, gw.bufferedFills[i].cloid)
        /\ \A i \in 1 .. Len(replaying) : Owns(own, replaying[i].oid, replaying[i].cloid)
        /\ OidsOwned(gw, own)
        /\ \A y \in Cloids : book[y].state = "live" => Owns(own, book[y].oid, y)
    BY <1>g DEF OwnedBy, OidsOwned
  <2>2. \A y \in Cloids : book'[y].state = "live" => Owns(own, book'[y].oid, y)
    BY <1>0, <1>1, <2>1
  <2>3. \A i \in 1 .. Len(stream') : Owns(own, stream'[i].oid, stream'[i].cloid)
    <3>1. CASE stream' = stream
      BY <2>1, <3>1
    <3>2. CASE stream' = stream \o events
      <4>n. PICK m \in Nat, n \in Nat : m = Len(stream) /\ n = Len(events)
        BY <1>0, <1>3, LenProperties
      <4>1. /\ Len(stream') = m + n
            /\ \A k \in 1 .. m + n : stream'[k] = IF k <= m THEN stream[k] ELSE events[k - m]
        BY <1>0, <1>3, <3>2, <4>n, ConcatProperties
      <4>2. ASSUME NEW k \in 1 .. m + n
            PROVE  Owns(own, stream'[k].oid, stream'[k].cloid)
        <5>1. CASE k <= m
          BY <2>1, <4>1, <4>n, <5>1
        <5>2. CASE ~(k <= m)
          <6>1. k - m \in 1 .. Len(events) /\ stream'[k] = events[k - m]
            BY <4>1, <4>n, <5>2
          <6> QED
            BY <1>0, <6>1 DEF News
        <5> QED
          BY <5>1, <5>2
      <4> QED
        BY <4>1, <4>2
    <3> QED
      BY <1>2, <3>1, <3>2
  <2> QED
    BY <1>g, <1>h, <2>1, <2>2, <2>3 DEF OwnedBy, OidsOwned
<1> QED
  BY <1>4, <1>6, <1>7, <1>h DEF FillInv

(* A new oid belongs to the order that it is given to.                     *)
LEMMA OwnExtended ==
  ASSUME NEW old, OwnedBy(old), nextOid \in Nat, NEW x \in Cloids, nextOid' = nextOid + 1
  PROVE  \E own : Grown(old, own) /\ Owns(own, nextOid, x)
<1>o. PICK own : own = [oid \in 0 .. nextOid |-> IF oid = nextOid THEN x ELSE old[oid]]
  OBVIOUS
<1>1. old \in [0 .. nextOid - 1 -> AnyCloid] /\ x \in AnyCloid
  BY DEF OwnedBy, AnyCloid
<1>2. nextOid' - 1 = nextOid
  OBVIOUS
<1>3. \A oid \in 0 .. nextOid : oid # nextOid => oid \in 0 .. nextOid - 1
  OBVIOUS
<1>4. own \in [0 .. nextOid' - 1 -> AnyCloid]
  BY <1>o, <1>1, <1>2, <1>3
<1>5. ASSUME NEW oid, NEW y, Owns(old, oid, y)
      PROVE  Owns(own, oid, y)
  <2>1. oid \in 0 .. nextOid - 1 /\ old[oid] = y
    BY <1>1, <1>5 DEF Owns
  <2>2. oid \in 0 .. nextOid /\ oid # nextOid
    BY <2>1
  <2> QED
    BY <1>o, <2>1, <2>2 DEF Owns
<1>6. Owns(own, nextOid, x)
  BY <1>o DEF Owns
<1>7. Grown(old, own)
  BY <1>4, <1>5 DEF Grown
<1> QED
  BY <1>6, <1>7

LEMMA OwnSame ==
  ASSUME NEW own, OwnedBy(own), nextOid' = nextOid
  PROVE  Grown(own, own)
BY DEF Grown, OwnedBy

LEMMA UpdateNews ==
  ASSUME NEW own, NEW x \in Cloids, NEW oid \in Nat, NEW qty \in Nat,
         NEW status \in {"Open", "Filled", "Canceled", "Rejected"}, Owns(own, oid, x),
         NEW a, a = Updated(x, oid, status, qty)
  PROVE  News(own, x, <<a>>) /\ FillsOf(<<a>>, x) = 0
<1>1. a \in Events /\ a.cloid = x
  BY UpdatedIsEvent
<1>2. a.oid = oid /\ a.type = "update"
  BY DEF Updated
<1> QED
  BY <1>1, <1>2, OneNews

(* A request that is handled is off the queue; if it places an order, no   *)
(* other one does.                                                         *)
LEMMA AskedOff ==
  ASSUME IInv, FillInv, requests # <<>>, requests' = Tail(requests), NEW x,
         x = Head(requests).cloid, Head(requests).kind = "place" \/ book[x].state # "unknown"
  PROVE  Asked(x)
<1>1. Head(requests) = requests[1]
  BY NextRequest
<1>2. /\ \A i \in 1 .. Len(requests') : requests'[i].kind = "place" =>
           book[requests'[i].cloid].state = "unknown"
      /\ requests[1].kind = "place" =>
           \A i \in 1 .. Len(requests') : requests'[i].kind = "place" =>
             requests'[i].cloid # requests[1].cloid
  BY PlaceTail DEF FillInv
<1>3. \A i \in 1 .. Len(requests') : requests'[i].kind = "place" => requests'[i].cloid # x
  BY <1>1, <1>2
<1> QED
  BY <1>3 DEF Asked

LEMMA AskedStill ==
  ASSUME FillInv, requests' = requests, NEW x, book[x].state # "unknown"
  PROVE  Asked(x)
BY DEF Asked, FillInv, PlaceInv, IsPlace

(* How many fills, n of them, the news makes of the order's oid, and how   *)
(* they go with what the exchange has done of that oid and has left of it: *)
(* an Open announces a new oid, of which nothing is done.                  *)
IsOpen(u) == u.type = "update" /\ u.status = "Open"

Gauged(x, e, events, n) ==
  /\ \A oid : CountOf(events, "oid", oid) = IF n = 1 /\ oid = book[x].oid THEN 1 ELSE 0
  /\ n = 1 => book[x].state = "live"
  /\ \A i \in 1 .. Len(events) : IsOpen(events[i]) =>
       n = 0 /\ events[i].oid = nextOid /\ e.oid = nextOid /\ e.left <= events[i].origSz
  /\ e.state = "live" =>
       \/ e.oid = nextOid /\ e.done = 0
       \/ /\ book[x].state = "live" /\ e.oid = book[x].oid
          /\ e.done = book[x].done + n /\ e.left + n = book[x].left

Turned ==
  \E old, own, x, e, events, n :
    /\ Grown(old, own) /\ Turns(own, x, e, events) /\ Asked(x)
    /\ n \in {0, 1} /\ Gauged(x, e, events, n)

LEMMA TurnGauged ==
  ASSUME NEW old, NEW own, NEW x, NEW e, NEW events, NEW n \in {0, 1},
         Grown(old, own), Turns(own, x, e, events), Asked(x), Gauged(x, e, events, n)
  PROVE  Turned
BY DEF Turned

(* News without a fill.                                                    *)
Silent(events) ==
  events \in Seq(Events) /\ \A i \in 1 .. Len(events) : events[i].type = "update"

LEMMA SilentCounts ==
  ASSUME NEW events, Silent(events), NEW oid
  PROVE  CountOf(events, "oid", oid) = 0
<1>1. DOMAIN events = 1 .. Len(events)
  BY LenProperties DEF Silent
<1>2. CountedAt(events, "oid", oid) = {}
  BY <1>1 DEF CountedAt, Silent
<1> QED
  BY <1>2, FS_EmptySet DEF CountOf, CountedAt

LEMMA OneAfterOther ==
  ASSUME NEW a \in Events, NEW b \in Events, NEW v, v = <<a>> \o <<b>>
  PROVE  v \in Seq(Events) /\ Len(v) = 2 /\ v[1] = a /\ v[2] = b
<1>s. PICK s, t : s = <<a>> /\ t = <<b>>
  OBVIOUS
<1>1. s \in Seq(Events) /\ t \in Seq(Events) /\ Len(s) = 1 /\ Len(t) = 1 /\ s[1] = a /\ t[1] = b
  BY <1>s
<1>2. v = s \o t
  BY <1>s
<1> QED
  BY <1>1, <1>2, ConcatProperties

LEMMA PlaceTurns ==
  ASSUME IInv, FillInv, AcceptPlace \/ RejectPlace
  PROVE  Turned
<1>r. PICK r : r = Head(requests)
  OBVIOUS
<1>x. PICK x : x = r.cloid
  OBVIOUS
<1>0. /\ requests # <<>> /\ r.kind = "place" /\ requests' = Tail(requests)
      /\ nextOid' = nextOid + 1
  BY <1>r DEF AcceptPlace, RejectPlace, IsNext
<1>1. /\ r \in Request /\ x \in Cloids /\ r.qty # 0 /\ r.qty \in Nat /\ r.ioc \in BOOLEAN
      /\ r = requests[1] /\ 1 \in 1 .. Len(requests)
  BY <1>r, <1>x, <1>0, NextRequest DEF Request
<1>2. nextOid \in Nat
  BY DEF IInv, TypesOK, ExchangeTypeOK
<1>3. book[x].state = "unknown" /\ book[x].filled = 0
  BY <1>0, <1>1, <1>x DEF FillInv, PlaceInv, IsPlace
<1>4. PICK old : OwnedBy(old)
  BY DEF FillInv
<1>5. PICK own : Grown(old, own) /\ Owns(own, nextOid, x)
  BY <1>0, <1>1, <1>2, <1>4, OwnExtended
<1>6. Asked(x)
  BY <1>0, <1>r, <1>x, AskedOff
<1>7. \E e, events : Turns(own, x, e, events) /\ Gauged(x, e, events, 0)
  <2>1. CASE AcceptPlace
    <3>e. PICK e : e = [state |-> "live", oid |-> nextOid, left |-> r.qty, done |-> 0,
                        ioc |-> r.ioc, filled |-> 0]
      OBVIOUS
    <3>a. PICK a : a = Updated(x, nextOid, "Open", r.qty)
      OBVIOUS
    <3>1. e \in BookEntry /\ e.state = "live" /\ e.oid = nextOid /\ e.filled = 0
      BY <1>1, <1>2, <3>e DEF BookEntry
    <3>2. News(own, x, <<a>>) /\ FillsOf(<<a>>, x) = 0
      BY <1>1, <1>2, <1>5, <3>a, UpdateNews
    <3>3. book' = [book EXCEPT ![x] = e] /\ Produces(<<a>>)
      BY <1>r, <1>x, <2>1, <3>e, <3>a DEF AcceptPlace
    <3>4. Gauged(x, e, <<a>>, 0)
      <4>v. PICK events : events = <<a>>
        OBVIOUS
      <4>1. /\ a.type = "update" /\ a.oid = nextOid /\ a.origSz = r.qty
            /\ e.oid = nextOid /\ e.left = r.qty /\ e.done = 0
        BY <3>e, <3>a DEF Updated
      <4>2. events \in Seq(Events) /\ Len(events) = 1 /\ events[1] = a
        BY <3>2, <4>v DEF News
      <4>3. \A i \in 1 .. Len(events) : events[i] = a
        BY <4>2
      <4>4. \A oid : CountOf(events, "oid", oid) = 0
        BY <4>1, <4>2, <4>3, SilentCounts DEF Silent
      <4> QED
        BY <1>1, <4>v, <4>1, <4>3, <4>4 DEF Gauged
    <3> QED
      BY <1>1, <1>3, <1>5, <3>1, <3>2, <3>3, <3>4, SilentTurn
  <2>2. CASE RejectPlace
    <3>e. PICK e : e = [book[x] EXCEPT !.state = "ended"]
      OBVIOUS
    <3>a. PICK a : a = Updated(x, nextOid, "Rejected", r.qty)
      OBVIOUS
    <3>1. e \in BookEntry /\ e.state = "ended" /\ e.filled = book[x].filled
      <4>1. book[x] \in BookEntry
        BY <1>1, EntryTypes
      <4> QED
        BY <3>e, <4>1 DEF BookEntry
    <3>2. News(own, x, <<a>>) /\ FillsOf(<<a>>, x) = 0
      BY <1>1, <1>2, <1>5, <3>a, UpdateNews
    <3>3. book' = [book EXCEPT ![x] = e] /\ (Produces(<<a>>) \/ Produces(<<>>))
      BY <1>r, <1>x, <2>2, <3>e, <3>a DEF RejectPlace
    <3>4. PICK events \in {<<>>, <<a>>} : Produces(events)
      BY <3>3
    <3>5. News(own, x, events) /\ FillsOf(events, x) = 0
      BY <3>2, <3>4, NoNews
    <3>6. Gauged(x, e, events, 0)
      <4>1. a.type = "update" /\ a.status = "Rejected"
        BY <3>a DEF Updated
      <4>2. \A i \in 1 .. Len(events) : events[i] = a
        BY <3>4
      <4>3. \A oid : CountOf(events, "oid", oid) = 0
        BY <3>5, <4>1, <4>2, SilentCounts DEF Silent, News
      <4> QED
        BY <3>1, <4>1, <4>2, <4>3 DEF Gauged, IsOpen
    <3> QED
      BY <1>1, <1>3, <3>1, <3>3, <3>4, <3>5, <3>6, SilentTurn
  <2> QED
    BY <2>1, <2>2
<1>8. PICK e, events : Turns(own, x, e, events) /\ Gauged(x, e, events, 0)
  BY <1>7
<1> QED
  BY <1>5, <1>6, <1>8, TurnGauged

LEMMA ModifyTurns ==
  ASSUME IInv, FillInv, AcceptModify
  PROVE  Turned
<1>r. PICK r : r = Head(requests)
  OBVIOUS
<1>x. PICK x : x = r.cloid
  OBVIOUS
<1>0. /\ requests # <<>> /\ book[x].state = "live" /\ requests' = Tail(requests)
      /\ nextOid' = nextOid + 1 /\ r.kind = "modify"
  BY <1>r, <1>x DEF AcceptModify, IsNext
<1>1. r \in Request /\ x \in Cloids /\ r.qty # 0 /\ r.qty \in Nat /\ r.ioc \in BOOLEAN
  BY <1>r, <1>x, <1>0, NextRequest DEF Request
<1>2. nextOid \in Nat
  BY DEF IInv, TypesOK, ExchangeTypeOK
<1>4. PICK old : OwnedBy(old)
  BY DEF FillInv
<1>5. PICK own : Grown(old, own) /\ Owns(own, nextOid, x)
  BY <1>0, <1>1, <1>2, <1>4, OwnExtended
<1>6. Asked(x)
  BY <1>0, <1>r, <1>x, AskedOff
<1>b. PICK b : b = book[x]
  OBVIOUS
<1>7. b \in BookEntry /\ b.oid \in Nat /\ b.left + b.done \in Nat /\ b.filled \in Nat
  BY <1>1, <1>b, EntryTypes
<1>e. PICK e : e = [b EXCEPT !.oid = nextOid, !.left = r.qty, !.done = 0, !.ioc = r.ioc]
  OBVIOUS
<1>8. e \in BookEntry /\ e.state = "live" /\ e.oid = nextOid /\ e.filled = b.filled
  BY <1>0, <1>1, <1>2, <1>7, <1>b, <1>e DEF BookEntry
<1>u. PICK u : u = Updated(x, nextOid, "Open", r.qty)
  OBVIOUS
<1>v. PICK v : v = Updated(x, b.oid, "Canceled", b.left + b.done)
  OBVIOUS
<1>9. News(own, x, <<u>>) /\ FillsOf(<<u>>, x) = 0
  BY <1>1, <1>2, <1>5, <1>u, UpdateNews
<1>10. News(own, x, <<v>>) /\ FillsOf(<<v>>, x) = 0
  <2>1. Owns(own, b.oid, x)
    BY <1>0, <1>1, <1>4, <1>5, <1>b DEF OwnedBy, Grown
  <2>2. PICK o \in Nat, q \in Nat : o = b.oid /\ q = b.left + b.done
    BY <1>7
  <2>3. Owns(own, o, x) /\ v = Updated(x, o, "Canceled", q)
    BY <1>v, <2>1, <2>2
  <2> QED
    BY <1>1, <2>3, UpdateNews
<1>s. PICK s, t, events : s = <<u>> /\ t = <<v>> /\ events = s \o t
  OBVIOUS
<1>11. News(own, x, events) /\ FillsOf(events, x) = 0
  <2>1. News(own, x, s) /\ News(own, x, t) /\ FillsOf(s, x) = 0 /\ FillsOf(t, x) = 0
    BY <1>9, <1>10, <1>s
  <2>2. News(own, x, s \o t) /\ FillsOf(s \o t, x) = FillsOf(s, x) + FillsOf(t, x)
    BY <2>1, MoreNews
  <2> QED
    BY <1>s, <2>1, <2>2
<1>12. book' = [book EXCEPT ![x] = e] /\ Produces(<<u, v>>)
  BY <1>r, <1>x, <1>b, <1>e, <1>u, <1>v DEF AcceptModify
<1>13. events = <<u, v>>
  <2>1. u \in Events /\ v \in Events
    BY <1>1, <1>2, <1>7, <1>u, <1>v, UpdatedIsEvent
  <2>3. /\ Len(events) = 2 /\ events \in Seq(Events)
        /\ events[1] = u /\ events[2] = v
    BY <1>s, <2>1, OneAfterOther
  <2>4. /\ <<u, v>> \in Seq(Events) /\ Len(<<u, v>>) = 2
        /\ <<u, v>>[1] = u /\ <<u, v>>[2] = v
    BY <2>1
  <2> QED
    BY <2>3, <2>4, SeqEqual
<1>14. Turns(own, x, e, events)
  BY <1>1, <1>5, <1>7, <1>8, <1>11, <1>12, <1>13, <1>b, SilentTurn
<1>15. Gauged(x, e, events, 0)
  <2>1. /\ u.type = "update" /\ u.oid = nextOid /\ u.origSz = r.qty
        /\ v.type = "update" /\ v.status = "Canceled"
    BY <1>u, <1>v DEF Updated
  <2>2. e.oid = nextOid /\ e.left = r.qty /\ e.done = 0
    BY <1>7, <1>8, <1>e DEF BookEntry
  <2>3. events \in Seq(Events) /\ Len(events) = 2 /\ events[1] = u /\ events[2] = v
    BY <1>11, <1>13 DEF News
  <2>4. \A i \in 1 .. Len(events) : events[i] = u \/ events[i] = v
    BY <2>3
  <2>5. \A oid : CountOf(events, "oid", oid) = 0
    BY <2>1, <2>3, <2>4, SilentCounts DEF Silent
  <2> QED
    BY <1>1, <2>1, <2>2, <2>4, <2>5 DEF Gauged, IsOpen
<1> QED
  BY <1>5, <1>6, <1>14, <1>15, TurnGauged

LEMMA EndTurns ==
  ASSUME IInv, FillInv, NEW x \in Cloids, NEW status \in {"Filled", "Canceled", "Rejected"},
         book[x].state = "live", Ends(x, status), Asked(x), nextOid' = nextOid
  PROVE  Turned
<1>1. PICK own : OwnedBy(own)
  BY DEF FillInv
<1>2. Grown(own, own) /\ Owns(own, book[x].oid, x)
  BY <1>1, OwnSame DEF OwnedBy
<1>e. PICK e : e = [book[x] EXCEPT !.state = "ended"]
  OBVIOUS
<1>a. PICK a : a = Updated(x, book[x].oid, status, book[x].left + book[x].done)
  OBVIOUS
<1>3. book[x].oid \in Nat /\ book[x].left + book[x].done \in Nat /\ book[x] \in BookEntry
      /\ book[x].filled \in Nat
  BY EntryTypes
<1>4. e \in BookEntry /\ e.state = "ended" /\ e.filled = book[x].filled
  BY <1>e, <1>3 DEF BookEntry
<1>5. News(own, x, <<a>>) /\ FillsOf(<<a>>, x) = 0
  <2>1. PICK o \in Nat, q \in Nat : o = book[x].oid /\ q = book[x].left + book[x].done
    BY <1>3
  <2>2. Owns(own, o, x) /\ a = Updated(x, o, status, q)
    BY <1>2, <1>a, <2>1
  <2> QED
    BY <2>2, UpdateNews
<1>6. book' = [book EXCEPT ![x] = e] /\ Produces(<<a>>)
  BY <1>e, <1>a DEF Ends
<1>v. PICK events : events = <<a>>
  OBVIOUS
<1>7. Turns(own, x, e, events)
  BY <1>3, <1>4, <1>5, <1>6, <1>v, SilentTurn
<1>8. Gauged(x, e, events, 0)
  <2>1. a.type = "update" /\ a.status = status
    BY <1>a DEF Updated
  <2>2. events \in Seq(Events) /\ \A i \in 1 .. Len(events) : events[i] = a
    BY <1>5, <1>v DEF News
  <2>3. \A oid : CountOf(events, "oid", oid) = 0
    BY <2>1, <2>2, SilentCounts DEF Silent
  <2> QED
    BY <1>4, <2>1, <2>2, <2>3 DEF Gauged, IsOpen
<1> QED
  BY <1>2, <1>7, <1>8, TurnGauged

LEMMA TradeTurns ==
  ASSUME IInv, FillInv, NEW x \in Cloids, Trade(x)
  PROVE  Turned
<1>b. PICK b : b = book[x]
  OBVIOUS
<1>1. /\ b \in BookEntry /\ b.state = "live" /\ b.left # 0
      /\ b.left \in Nat /\ b.done \in Nat /\ b.oid \in Nat /\ b.filled \in Nat
      /\ b.left + b.done \in Nat
  BY <1>b, EntryTypes DEF Trade
<1>2. PICK own : OwnedBy(own)
  BY DEF FillInv
<1>3. Grown(own, own) /\ Owns(own, b.oid, x)
  BY <1>1, <1>2, <1>b, OwnSame DEF OwnedBy, Trade
<1>s. PICK state \in {"live", "ended"} : state = IF b.left = 1 THEN "ended" ELSE "live"
  OBVIOUS
<1>n. PICK left \in Nat, done \in Nat, filled \in Nat :
        left = b.left - 1 /\ done = b.done + 1 /\ filled = b.filled + 1
  BY <1>1
<1>e. PICK e : e = [b EXCEPT !.left = left, !.done = done, !.filled = filled, !.state = state]
  OBVIOUS
<1>4. e \in BookEntry /\ e.state = state /\ e.filled = b.filled + 1 /\ e.oid = b.oid
  BY <1>1, <1>e, <1>n DEF BookEntry
<1>5. book' = [book EXCEPT ![x] = e]
  BY <1>b, <1>s, <1>n, <1>e DEF Trade
<1>a. PICK a : a = FillOf(x, b.oid)
  OBVIOUS
<1>u. PICK u : u = Updated(x, b.oid, "Filled", b.left + b.done)
  OBVIOUS
<1>6. News(own, x, <<a>>) /\ FillsOf(<<a>>, x) = 1
  <2>1. a \in Events /\ a.cloid = x /\ a.oid = b.oid /\ a.type = "fill"
    BY <1>1, <1>a DEF FillOf, Events, Fill
  <2> QED
    BY <1>3, <2>1, OneNews
<1>12. News(own, x, <<u>>) /\ FillsOf(<<u>>, x) = 0
  <2>1. PICK o \in Nat, q \in Nat : o = b.oid /\ q = b.left + b.done
    BY <1>1
  <2>2. Owns(own, o, x) /\ u = Updated(x, o, "Filled", q)
    BY <1>3, <1>u, <2>1
  <2> QED
    BY <2>2, UpdateNews
<1>7. PICK rest : rest \in {<<>>, <<u>>} /\ Produces(<<a>> \o rest)
  BY <1>a, <1>b, <1>u DEF Trade
<1>8. News(own, x, rest) /\ FillsOf(rest, x) = 0
  BY <1>7, <1>12, NoNews
<1>v. PICK s, events : s = <<a>> /\ events = s \o rest
  OBVIOUS
<1>9. News(own, x, events) /\ FillsOf(events, x) = 1
  <2>1. News(own, x, s) /\ FillsOf(s, x) = 1
    BY <1>6, <1>v
  <2>2. News(own, x, s \o rest) /\ FillsOf(s \o rest, x) = FillsOf(s, x) + FillsOf(rest, x)
    BY <1>8, <2>1, MoreNews
  <2> QED
    BY <1>8, <1>v, <2>1, <2>2
<1>10. Turns(own, x, e, events)
  BY <1>3, <1>4, <1>5, <1>7, <1>9, <1>b, <1>s, <1>v DEF Turns
<1>11. Asked(x)
  BY <1>1, <1>b, AskedStill DEF Trade
<1>13. Gauged(x, e, events, 1)
  <2>1. /\ a \in Events /\ a.type = "fill" /\ a.oid = b.oid
        /\ u \in Events /\ u.type = "update" /\ u.status = "Filled"
    <3>1. a \in Events /\ a.type = "fill" /\ a.oid = b.oid
      BY <1>1, <1>a DEF FillOf, Events, Fill
    <3>2. PICK o \in Nat, q \in Nat : o = b.oid /\ q = b.left + b.done
      BY <1>1
    <3>3. u = Updated(x, o, "Filled", q)
      BY <1>u, <3>2
    <3> QED
      BY <3>1, <3>3, UpdatedIsEvent DEF Updated
  <2>2. /\ s \in Seq(Events) /\ rest \in Seq(Events) /\ Silent(rest)
        /\ \A i \in 1 .. Len(events) : events[i] = a \/ events[i] = u
    <3>1. CASE rest = <<>>
      <4>1. s \in Seq(Events) /\ Len(s) = 1 /\ s[1] = a
        BY <1>v, <2>1
      <4>2. events = s
        BY <1>v, <3>1, <4>1, ConcatEmptySeq
      <4>3. Silent(rest) /\ rest \in Seq(Events)
        BY <3>1 DEF Silent
      <4>4. Len(events) = 1 /\ events[1] = a
        BY <4>1, <4>2
      <4>5. \A i \in 1 .. Len(events) : events[i] = a
        BY <4>4
      <4> QED
        BY <4>1, <4>3, <4>5
    <3>2. CASE rest = <<u>>
      <4>1. s \in Seq(Events) /\ rest \in Seq(Events) /\ Len(rest) = 1 /\ rest[1] = u
        BY <1>v, <2>1, <3>2
      <4>2. events \in Seq(Events) /\ Len(events) = 2 /\ events[1] = a /\ events[2] = u
        BY <1>v, <2>1, <3>2, OneAfterOther
      <4>3. \A i \in 1 .. Len(events) : events[i] = a \/ events[i] = u
        BY <4>2
      <4> QED
        BY <2>1, <4>1, <4>3 DEF Silent
    <3> QED
      BY <1>7, <3>1, <3>2
  <2>3. ASSUME NEW oid
        PROVE  CountOf(events, "oid", oid) = IF oid = b.oid THEN 1 ELSE 0
    <3>1. CountOf(s, "oid", oid) = OneOf(a, "oid", oid)
      BY <1>v, <2>1, OneCount
    <3>2. CountOf(rest, "oid", oid) = 0
      BY <2>2, SilentCounts
    <3>3. CountOf(s \o rest, "oid", oid) = CountOf(s, "oid", oid) + CountOf(rest, "oid", oid)
      BY <2>2, ConcatCount
    <3>4. OneOf(a, "oid", oid) = IF oid = b.oid THEN 1 ELSE 0
      BY <2>1 DEF OneOf, IsCounted
    <3> QED
      BY <1>v, <3>1, <3>2, <3>3, <3>4
  <2>4. e.done = b.done + 1 /\ e.left + 1 = b.left
    <3>1. e.done = done /\ e.left = left
      BY <1>1, <1>e DEF BookEntry
    <3> QED
      BY <1>1, <1>n, <3>1
  <2>5. \A i \in 1 .. Len(events) : ~IsOpen(events[i])
    BY <2>1, <2>2 DEF IsOpen
  <2> QED
    BY <1>1, <1>4, <1>b, <2>3, <2>4, <2>5 DEF Gauged
<1> QED
  BY <1>3, <1>10, <1>11, <1>13, TurnGauged

(* A request that the exchange refuses without a word about the order.     *)
LEMMA RefusalFills ==
  ASSUME IInv, FillInv, RejectModify \/ RejectCancel, UNCHANGED gatewayVars
  PROVE  FillInv'
<1>1. UNCHANGED <<book, stream, nextOid>> /\ requests # <<>> /\ requests' = Tail(requests)
  BY DEF RejectModify, RejectCancel, IsNext
<1>2. UNCHANGED <<gw, replaying, seen, cloidOf, isReplay, connected>>
  BY DEF gatewayVars, history
<1>3. PlaceInv'
  BY <1>1, PlaceTail DEF FillInv, PlaceInv, IsPlace
<1>4. FillBound'
  BY <1>1, <1>2 DEF FillInv, FillBound, OnTheirWay, Entered
<1>5. \E own : OwnedBy(own)'
  <2>1. PICK own : OwnedBy(own)
    BY DEF FillInv
  <2>2. OwnedBy(own)'
    BY <1>1, <1>2, <2>1 DEF OwnedBy, OidsOwned
  <2> QED
    BY <2>2
<1> QED
  BY <1>2, <1>3, <1>4, <1>5 DEF FillInv

LEMMA ExchangeTurns ==
  ASSUME IInv, FillInv, ExchangeNext
  PROVE  Turned \/ RejectModify \/ RejectCancel
<1>1. CASE AcceptCancel
  <2>x. PICK x : x = Head(requests).cloid
    OBVIOUS
  <2>1. /\ requests # <<>> /\ requests' = Tail(requests) /\ book[x].state = "live"
        /\ Ends(x, "Canceled") /\ nextOid' = nextOid
    BY <1>1, <2>x DEF AcceptCancel, IsNext
  <2>2. x \in Cloids
    BY <2>1, <2>x, NextRequest DEF Request
  <2>3. Asked(x)
    BY <2>1, <2>x, AskedOff
  <2> QED
    BY <2>1, <2>2, <2>3, EndTurns
<1>2. ASSUME NEW x \in Cloids, IocGivenUp(x) \/ ExchangeCancels(x)
      PROVE  Turned
  <2>1. /\ book[x].state = "live" /\ nextOid' = nextOid /\ requests' = requests
        /\ Ends(x, "Filled") \/ Ends(x, "Rejected") \/ Ends(x, "Canceled")
    BY <1>2 DEF IocGivenUp, ExchangeCancels
  <2>2. Asked(x)
    BY <2>1, AskedStill
  <2> QED
    BY <2>1, <2>2, EndTurns
<1> QED
  BY <1>1, <1>2, PlaceTurns, ModifyTurns, TradeTurns DEF ExchangeNext, HandleRequest

LEMMA ExchangeFills ==
  ASSUME IInv, FillInv, ExchangeNext, UNCHANGED gatewayVars
  PROVE  FillInv'
BY ExchangeTurns, RefusalFills, TurnKeeps DEF Turned

-----------------------------------------------------------------------------
(* The websocket: a client that hears of a fill hears of one of its own    *)
(* that was on the way, which then is not any more.                        *)
AllOwned(own, seq) == \A i \in 1 .. Len(seq) : Owns(own, seq[i].oid, seq[i].cloid)

Hears(passed, own) ==
  /\ UNCHANGED <<book, nextOid, seen, cloidOf>>
  /\ requests' = requests \/ requests' = <<>>
  /\ isReplay' = isReplay /\ connected' \in BOOLEAN
  /\ Typed(gw') /\ replaying' \in Seq(Fill)
  /\ \/ Passes(gw, gw', passed)
     \/ passed = NoClient /\ \A c \in Clients : gw'.told[c].filled = gw.told[c].filled
  /\ AllOwned(own, stream') /\ AllOwned(own, gw'.bufferedFills) /\ AllOwned(own, replaying')
  /\ OidsOwned(gw', own)

Dwindles(passed) ==
  /\ \A x : OnTheirWay(x)' <= OnTheirWay(x)
  /\ passed # NoClient =>
       /\ passed \in Entered
       /\ \A x : x = cloidOf[passed] => OnTheirWay(x)' + 1 <= OnTheirWay(x)

LEMMA WithinOwned ==
  ASSUME NEW own, NEW s, NEW t, Within(t, s), AllOwned(own, s)
  PROVE  AllOwned(own, t)
BY DEF Within, AllOwned

LEMMA HearsKeeps ==
  ASSUME IInv, FillInv, NEW own, OwnedBy(own), NEW passed, Hears(passed, own), Dwindles(passed),
         \A x : OnTheirWay(x)' \in Nat
  PROVE  FillInv'
<1>1. /\ UNCHANGED <<book, nextOid, seen, cloidOf>>
      /\ requests' = requests \/ requests' = <<>>
      /\ isReplay' \in BOOLEAN /\ connected' \in BOOLEAN
      /\ Typed(gw') /\ replaying' \in Seq(Fill)
  BY DEF Hears, FillInv
<1>2. PlaceInv'
  <2>1. CASE requests' = requests
    BY <1>1, <2>1 DEF FillInv, PlaceInv, IsPlace
  <2>2. CASE requests' = <<>>
    <3>1. 1 .. Len(requests') = {}
      BY <2>2
    <3> QED
      BY <1>1, <3>1 DEF FillInv, PlaceInv, IsPlace
  <2> QED
    BY <1>1, <2>1, <2>2
<1>3. OwnedBy(own)'
  <2>1. /\ OwnedBy(own) /\ AllOwned(own, stream') /\ AllOwned(own, gw'.bufferedFills)
        /\ AllOwned(own, replaying') /\ OidsOwned(gw', own)
    BY DEF Hears
  <2> QED
    BY <1>1, <2>1 DEF OwnedBy, AllOwned, OidsOwned
<1>4. ASSUME NEW c \in Clients
      PROVE  gw'.told[c].filled = (IF c = passed THEN gw.told[c].filled + 1 ELSE gw.told[c].filled)
  BY ClientsAssumption DEF Hears, Passes
<1>5. FillBound'
  <2>1. ASSUME NEW x \in Cloids
        PROVE  (OnTheirWay(x) <= book[x].filled)'
    <3>n. PICK w \in Nat, v \in Nat, b \in Nat :
            w = OnTheirWay(x) /\ v = OnTheirWay(x)' /\ b = book[x].filled
      BY WayCounted, EntryTypes
    <3>1. w <= b /\ v <= w
      BY <3>n DEF FillInv, FillBound, Dwindles
    <3>2. v <= b
      BY <3>1, <3>n
    <3> QED
      BY <1>1, <3>2, <3>n
  <2>2. ASSUME NEW c \in Clients, seen[c] = "no"
        PROVE  gw'.told[c].filled = 0
    <3>1. c # passed
      BY <2>2, ClientsAssumption DEF Dwindles, Entered
    <3> QED
      BY <1>4, <2>2, <3>1 DEF FillInv, FillBound
  <2>3. ASSUME NEW c \in Entered
        PROVE  (gw.told[c].filled + OnTheirWay(cloidOf[c]) <= book[cloidOf[c]].filled)'
    <3>y. PICK y : y = cloidOf[c]
      OBVIOUS
    <3>0. c \in Clients /\ y \in Cloids
      BY <3>y, ToldTyped DEF Entered
    <3>n. PICK w \in Nat, v \in Nat, b \in Nat, t \in Nat :
            /\ w = OnTheirWay(y) /\ v = OnTheirWay(y)' /\ b = book[y].filled
            /\ t = gw.told[c].filled
      BY <3>0, WayCounted, EntryTypes, ToldTyped
    <3>1. t + w <= b /\ v <= w
      BY <3>n, <3>y DEF FillInv, FillBound, Dwindles
    <3>2. CASE c = passed
      <4>1. v + 1 <= w
        BY <3>0, <3>2, <3>n, <3>y, ClientsAssumption DEF Dwindles
      <4>2. gw'.told[c].filled = t + 1
        BY <1>4, <3>0, <3>2, <3>n
      <4>3. t + 1 + v <= b
        BY <3>1, <3>n, <4>1
      <4>4. gw'.told[c].filled + OnTheirWay(y)' <= book'[y].filled
        BY <1>1, <3>n, <4>2, <4>3
      <4> QED
        BY <1>1, <3>y, <4>4
    <3>3. CASE c # passed
      <4>1. gw'.told[c].filled = t
        BY <1>4, <3>0, <3>3, <3>n
      <4>2. t + v <= b
        BY <3>1, <3>n
      <4>3. gw'.told[c].filled + OnTheirWay(y)' <= book'[y].filled
        BY <1>1, <3>n, <4>1, <4>2
      <4> QED
        BY <1>1, <3>y, <4>3
    <3> QED
      BY <3>2, <3>3
  <2> QED
    BY <1>1, <2>1, <2>2, <2>3 DEF FillBound, Entered
<1> QED
  BY <1>1, <1>2, <1>3, <1>5 DEF FillInv

(* Whoever a fill's oid leads to is the client of the order it belongs to. *)
Placed(s) == \A c \in DOMAIN s.clientToCloid : c \in Entered /\ s.clientToCloid[c] = cloidOf[c]

LEMMA WhoHears ==
  ASSUME NEW s, NEW own, Typed(s), OidsOwned(s, own), Placed(s),
         NEW oid, NEW x, Owns(own, oid, x),
         NEW client, client = LookupClientOrderIdByOid(s, oid),
         NEW cloid, cloid = LookupCloidByOid(s, oid)
  PROVE  /\ client \in Clients \cup {NoClient} /\ cloid \in AnyCloid
         /\ client # NoClient => client \in Entered /\ cloidOf[client] = x
<1>1. client = LookupClientOrderId(s, cloid)
  BY DEF LookupClientOrderIdByOid
<1>2. client \in Clients \cup {NoClient} /\ cloid \in AnyCloid
  BY <1>1, ClientTyped, CloidTyped
<1>3. ASSUME client # NoClient
      PROVE  client \in Entered /\ cloidOf[client] = x
  <2>1. Fit(s, Cloids)
    BY TypedFit
  <2>2. /\ cloid \in Cloids /\ client \in DOMAIN s.clientToCloid
        /\ s.clientToCloid[client] = cloid
    BY <1>1, <1>3, <2>1, LookedUp
  <2>3. oid \in DOMAIN s.oidToCloid /\ s.oidToCloid[oid] = cloid
    BY <2>2, ExchangeAssumption DEF LookupCloidByOid, NoCloid
  <2>4. cloid = x
    BY <2>3 DEF OidsOwned, Owns
  <2> QED
    BY <2>2, <2>4 DEF Placed
<1> QED
  BY <1>2, <1>3

LEMMA GatewayPlaced ==
  ASSUME IInv
  PROVE  Placed(gw)
BY HandlerTypes DEF Placed

LEMMA CheckedSpares ==
  ASSUME IInv, FillInv, NEW own, OwnedBy(own), NEW checked \in AfterCheckTimeouts
  PROVE  /\ Typed(checked) /\ Placed(checked) /\ OidsOwned(checked, own)
         /\ \A c \in Clients : checked.told[c].filled = gw.told[c].filled
         /\ checked.bufferedFills \in Seq(Fill) /\ AllOwned(own, checked.bufferedFills)
         /\ \A x : FillsOf(checked.bufferedFills, x) <= FillsOf(gw.bufferedFills, x)
<1>0. Typed(gw) /\ OidsOwned(gw, own) /\ AllOwned(own, gw.bufferedFills)
      /\ gw.bufferedFills \in Seq(Fill)
  BY DEF FillInv, OwnedBy, Typed, AllOwned
<1>1. PICK n, late : n \in 0 .. Len(gw.bufferedFills) /\ checked = CheckTimeouts(gw, n, late)
  <2>1. CASE Timeouts
    BY <2>1 DEF AfterCheckTimeouts
  <2>2. CASE ~Timeouts
    <3>1. checked = CheckTimeouts(gw, 0, {})
      BY <2>2 DEF AfterCheckTimeouts
    <3>2. 0 \in 0 .. Len(gw.bufferedFills)
      BY <1>0, LenProperties
    <3> QED
      BY <3>1, <3>2
  <2> QED
    BY <2>1, <2>2
<1>2. /\ Typed(checked)
      /\ \A c \in Clients : checked.told[c].filled = gw.told[c].filled
      /\ checked.bufferedFills = SubSeq(gw.bufferedFills, n + 1, Len(gw.bufferedFills))
      /\ OidsOwned(checked, own)
  BY <1>0, <1>1, CheckTimeoutsSpares
<1>b. PICK b : b = gw.bufferedFills
  OBVIOUS
<1>3. /\ b \in Seq(Fill) /\ n \in 0 .. Len(b) /\ checked.bufferedFills = SubSeq(b, n + 1, Len(b))
  BY <1>0, <1>1, <1>2, <1>b
<1>4. /\ checked.bufferedFills \in Seq(Fill) /\ Within(checked.bufferedFills, b)
      /\ \A x : FillsOf(checked.bufferedFills, x) <= FillsOf(b, x)
  BY <1>3, LaterCounts
<1>5. AllOwned(own, checked.bufferedFills)
  BY <1>0, <1>4, <1>b, WithinOwned
<1>6. Placed(checked)
  <2>1. Settles(gw, checked, Sent)
    BY CheckedSettles
  <2> QED
    BY <2>1, GatewayPlaced DEF Settles, Placed
<1> QED
  BY <1>2, <1>4, <1>5, <1>6, <1>b

-----------------------------------------------------------------------------
(* An order update: what it takes out of the buffer it replays.            *)
Takes(s, t, b, P) ==
  /\ Typed(t) /\ t.told = s.told /\ t.oidToCloid = s.oidToCloid
  /\ t.bufferedFills = Picked(b, DOMAIN b \ P) /\ P \in SUBSET DOMAIN b
  /\ Picked(b, P) \in Seq(Fill)

LEMMA Taken ==
  ASSUME NEW s, Typed(s), NEW oid, NEW t, t = TakeBuffered(s, oid),
         NEW b, b = s.bufferedFills, NEW P, P = FillsOfOid(b, oid)
  PROVE  Takes(s, t, b, P)
<1>1. b \in Seq(Fill) /\ P \in SUBSET DOMAIN b /\ DOMAIN b \ P \in SUBSET DOMAIN b
  BY DEF Typed, FillsOfOid
<1>q. PICK q : q = Picked(b, DOMAIN b \ P)
  OBVIOUS
<1>2. Picked(b, P) \in Seq(Fill) /\ q \in Seq(Fill)
  BY <1>1, <1>q, PickedCounts
<1>3. t = [s EXCEPT !.bufferedFills = q]
  BY <1>q DEF TakeBuffered, OtherFills
<1>4. /\ t.clientToCloid = s.clientToCloid /\ t.cloidToClient = s.cloidToClient
      /\ t.cloidToState = s.cloidToState /\ t.oidToCloid = s.oidToCloid
      /\ t.cloidToOid = s.cloidToOid /\ t.cloidToAsset = s.cloidToAsset
      /\ t.told = s.told /\ t.unnamed = s.unnamed /\ t.bufferedFills = q
      /\ DOMAIN t = DOMAIN s
  BY <1>3 DEF Typed, Good, Fields
<1>5. Good(t)
  BY TakeBufferedShrinks, ShrinksGood DEF Typed
<1>6. Typed(t)
  BY <1>2, <1>4, <1>5 DEF Typed
<1> QED
  BY <1>1, <1>2, <1>4, <1>6, <1>q DEF Takes

LEMMA StreamWithout ==
  ASSUME IInv, FillInv, NEW own, OwnedBy(own), NEW i \in 1 .. Len(stream),
         stream' = RemoveAt(stream, i)
  PROVE  /\ AllOwned(own, stream')
         /\ \A x : /\ FillsOf(stream', x) \in Nat
                   /\ FillsOf(stream, x) = FillsOf(stream', x) + One(stream[i], x)
         /\ stream[i] \in Events /\ Owns(own, stream[i].oid, stream[i].cloid)
<1>1. stream \in Seq(Events) /\ stream' \in Seq(Events) /\ Within(stream', stream)
  BY StreamTypes, RemoveAtWithin
<1>2. AllOwned(own, stream)
  BY DEF AllOwned, OwnedBy
<1>3. \A x : FillsOf(stream', x) \in Nat
  BY <1>1, FillsCounted
<1>4. \A x : FillsOf(stream, x) = FillsOf(stream', x) + One(stream[i], x)
  BY <1>1, RemoveAtCounts
<1>5. stream[i] \in Events /\ Owns(own, stream[i].oid, stream[i].cloid)
  BY <1>1, <1>2, ElementOfSeq DEF AllOwned
<1> QED
  BY <1>1, <1>2, <1>3, <1>4, <1>5, WithinOwned

LEMMA UpdateFills ==
  ASSUME IInv, FillInv, NEW i \in 1 .. Len(stream), OrderUpdateArrives(i)
  PROVE  FillInv'
<1>o. PICK own : OwnedBy(own)
  BY DEF FillInv
<1>u. PICK u : u = stream[i]
  OBVIOUS
<1>1. /\ stream' = RemoveAt(stream, i) /\ u.type = "update" /\ replaying = <<>>
      /\ UNCHANGED <<book, nextOid, seen, cloidOf, requests, isReplay, connected>>
  BY <1>u DEF OrderUpdateArrives, RestUnchanged, history
<1>2. /\ AllOwned(own, stream') /\ u \in Events /\ Owns(own, u.oid, u.cloid)
      /\ \A x : /\ FillsOf(stream', x) \in Nat
                /\ FillsOf(stream, x) = FillsOf(stream', x) + One(u, x)
  BY <1>o, <1>u, <1>1, StreamWithout
<1>3. \A x : FillsOf(stream', x) = FillsOf(stream, x)
  BY <1>1, <1>2 DEF One, IsFillOf
<1>4. Genuine(u, own)
  BY <1>1, <1>2 DEF Genuine, Events, Update, Fill
<1>5. PICK checked, s :
        /\ checked \in AfterCheckTimeouts
        /\ s = OnOrderUpdate(checked, u)
        /\ \/ /\ gw' = TakeBuffered(s, u.oid)
              /\ replaying' = Picked(s.bufferedFills, FillsOfOid(s.bufferedFills, u.oid))
           \/ gw' = s /\ replaying' = <<>>
  BY <1>u DEF OrderUpdateArrives
<1>6. /\ Typed(checked) /\ OidsOwned(checked, own)
      /\ \A c \in Clients : checked.told[c].filled = gw.told[c].filled
      /\ checked.bufferedFills \in Seq(Fill) /\ AllOwned(own, checked.bufferedFills)
      /\ \A x : FillsOf(checked.bufferedFills, x) <= FillsOf(gw.bufferedFills, x)
  BY <1>o, <1>5, CheckedSpares
<1>7. Spares(checked, s, own)
  BY <1>4, <1>5, <1>6, OnOrderUpdateSpares
<1>b. PICK b : b = s.bufferedFills
  OBVIOUS
<1>8. /\ Typed(s) /\ OidsOwned(s, own)
      /\ \A c \in Clients : s.told[c].filled = gw.told[c].filled
      /\ b \in Seq(Fill) /\ AllOwned(own, b)
      /\ \A x : FillsOf(b, x) <= FillsOf(gw.bufferedFills, x)
  BY <1>6, <1>7, <1>b DEF Spares
<1>9. /\ Typed(gw') /\ OidsOwned(gw', own) /\ replaying' \in Seq(Fill)
      /\ \A c \in Clients : gw'.told[c].filled = gw.told[c].filled
      /\ AllOwned(own, gw'.bufferedFills) /\ AllOwned(own, replaying')
      /\ \A x : /\ FillsOf(gw'.bufferedFills, x) + FillsOf(replaying', x) = FillsOf(b, x)
                /\ FillsOf(gw'.bufferedFills, x) \in Nat /\ FillsOf(replaying', x) \in Nat
  <2>1. CASE gw' = TakeBuffered(s, u.oid) /\ replaying' = Picked(b, FillsOfOid(b, u.oid))
    <3>p. PICK P : P = FillsOfOid(b, u.oid)
      OBVIOUS
    <3>1. /\ Typed(gw') /\ gw'.told = s.told /\ gw'.oidToCloid = s.oidToCloid
          /\ gw'.bufferedFills = Picked(b, DOMAIN b \ P) /\ P \in SUBSET DOMAIN b
          /\ replaying' = Picked(b, P) /\ replaying' \in Seq(Fill)
      <4>t. PICK o, t : o = u.oid /\ t = TakeBuffered(s, o)
        OBVIOUS
      <4>1. P = FillsOfOid(b, o)
        BY <3>p, <4>t
      <4>0. Typed(s)
        BY <1>8
      <4>2. Takes(s, t, b, P)
        BY <1>b, <4>0, <4>1, <4>t, Taken
      <4>3. gw' = t /\ replaying' = Picked(b, P)
        BY <2>1, <3>p, <4>t
      <4> QED
        BY <4>2, <4>3 DEF Takes
    <3>2. Within(gw'.bufferedFills, b) /\ Within(replaying', b)
      <4>1. DOMAIN b \ P \in SUBSET DOMAIN b
        OBVIOUS
      <4> QED
        BY <1>8, <3>1, <4>1, PickedCounts
    <3>3. AllOwned(own, gw'.bufferedFills) /\ AllOwned(own, replaying')
      BY <1>8, <3>2, WithinOwned
    <3>4. ASSUME NEW x
          PROVE  /\ FillsOf(gw'.bufferedFills, x) + FillsOf(replaying', x) = FillsOf(b, x)
                 /\ FillsOf(gw'.bufferedFills, x) \in Nat /\ FillsOf(replaying', x) \in Nat
      <4>n. PICK m, n : m = FillsOf(Picked(b, P), x) /\ n = FillsOf(Picked(b, DOMAIN b \ P), x)
        OBVIOUS
      <4>1. m + n = FillsOf(b, x) /\ m \in Nat /\ n \in Nat
        BY <1>8, <3>1, <4>n, PickedSplits
      <4> QED
        BY <3>1, <4>n, <4>1
    <3>5. OidsOwned(gw', own)
      BY <1>8, <3>1 DEF OidsOwned
    <3> QED
      BY <1>8, <3>1, <3>3, <3>4, <3>5
  <2>2. CASE gw' = s /\ replaying' = <<>>
    <3>1. \A x : FillsOf(b, x) \in Nat
      BY <1>8, FillsCounted
    <3>2. \A x : FillsOf(replaying', x) = 0
      BY <2>2, NoneCounts
    <3>3. AllOwned(own, replaying') /\ replaying' \in Seq(Fill)
      BY <2>2 DEF AllOwned
    <3> QED
      BY <1>8, <1>b, <2>2, <3>1, <3>2, <3>3
  <2> QED
    BY <1>5, <1>b, <2>1, <2>2
<1>10. ASSUME NEW x
       PROVE  OnTheirWay(x)' \in Nat /\ OnTheirWay(x)' <= OnTheirWay(x)
  <2>1. OnTheirWay(x)' =
          FillsOf(stream', x) + FillsOf(gw'.bufferedFills, x) + FillsOf(replaying', x)
    BY DEF OnTheirWay
  <2>2. OnTheirWay(x) = FillsOf(stream, x) + FillsOf(gw.bufferedFills, x) + FillsOf(replaying, x)
    BY DEF OnTheirWay
  <2>n. PICK k \in Nat, m \in Nat, n \in Nat, p \in Nat, q \in Nat :
          /\ k = FillsOf(stream, x) /\ m = FillsOf(gw.bufferedFills, x) /\ n = FillsOf(replaying, x)
          /\ p = FillsOf(gw'.bufferedFills, x) /\ q = FillsOf(replaying', x)
    BY <1>9, WayCounted
  <2>3. p + q <= m
    BY <1>8, <1>9, <2>n
  <2>4. OnTheirWay(x)' = k + p + q /\ OnTheirWay(x) = k + m + n
    BY <1>3, <2>1, <2>2, <2>n
  <2> QED
    BY <2>3, <2>4
<1>p. PICK passed : passed = NoClient
  OBVIOUS
<1>11. Hears(passed, own)
  BY <1>1, <1>2, <1>9, <1>p DEF Hears, FillInv
<1>12. Dwindles(passed)
  BY <1>10, <1>p DEF Dwindles
<1> QED
  BY <1>o, <1>10, <1>11, <1>12, HearsKeeps

(* A fill: it is passed on to the client that its oid leads to, or kept.   *)
Leaves(f) == \A y : OnTheirWay(y)' \in Nat /\ OnTheirWay(y)' + One(f, y) <= OnTheirWay(y)

LEMMA LeavesDwindle ==
  ASSUME IInv, FillInv, NEW f, f.type = "fill", Leaves(f), NEW passed,
         passed # NoClient => passed \in Entered /\ cloidOf[passed] = f.cloid
  PROVE  Dwindles(passed) /\ \A x : OnTheirWay(x)' \in Nat
<1>1. ASSUME NEW x
      PROVE  /\ OnTheirWay(x)' \in Nat /\ OnTheirWay(x)' <= OnTheirWay(x)
             /\ x = f.cloid => OnTheirWay(x)' + 1 <= OnTheirWay(x)
  <2>n. PICK v \in Nat, w \in Nat, n \in {0, 1} :
          v = OnTheirWay(x)' /\ w = OnTheirWay(x) /\ n = One(f, x)
    BY WayCounted DEF Leaves, One
  <2>1. v + n <= w
    BY <2>n DEF Leaves
  <2>2. x = f.cloid => n = 1
    BY <2>n DEF One, IsFillOf
  <2>3. v <= w /\ (n = 1 => v + 1 <= w)
    BY <2>1
  <2> QED
    BY <2>2, <2>3, <2>n
<1> QED
  BY <1>1 DEF Dwindles

(* The gateway's state, before the fill or after checkTimeouts.            *)
Heeds(s, own) ==
  /\ Typed(s) /\ Placed(s) /\ OidsOwned(s, own) /\ AllOwned(own, s.bufferedFills)
  /\ \A c \in Clients : s.told[c].filled = gw.told[c].filled

LEMMA FillPassed ==
  ASSUME IInv, FillInv, NEW own, OwnedBy(own), NEW s, Heeds(s, own), 
         NEW f, f.type = "fill", Owns(own, f.oid, f.cloid), Leaves(f),
         NEW client, client = LookupClientOrderIdByOid(s, f.oid),
         NEW cloid, cloid = LookupCloidByOid(s, f.oid),
         gw' = EmitFill(s, client, cloid),
         UNCHANGED <<book, nextOid, seen, cloidOf, requests, isReplay, connected>>,
         AllOwned(own, stream'), AllOwned(own, replaying'), replaying' \in Seq(Fill)
  PROVE  FillInv'
<1>o. PICK oid, x : oid = f.oid /\ x = f.cloid
  OBVIOUS
<1>1. /\ client \in Clients \cup {NoClient} /\ cloid \in AnyCloid
      /\ client # NoClient => client \in Entered /\ cloidOf[client] = x
  BY <1>o, WhoHears DEF Heeds
<1>2. /\ Typed(gw') /\ Passes(s, gw', client)
      /\ gw'.bufferedFills = s.bufferedFills /\ OidsOwned(gw', own)
  BY <1>1, EmitFillPasses DEF Heeds
<1>3. Passes(gw, gw', client)
  BY <1>2 DEF Passes, Heeds
<1>4. Hears(client, own)
  BY <1>2, <1>3 DEF Hears, FillInv, Heeds
<1>5. Dwindles(client) /\ \A y : OnTheirWay(y)' \in Nat
  BY <1>1, <1>o, LeavesDwindle
<1> QED
  BY <1>4, <1>5, HearsKeeps

Kept(s, t, f, own) ==
  /\ Typed(t) /\ t.told = s.told /\ t.oidToCloid = s.oidToCloid
  /\ AllOwned(own, t.bufferedFills)
  /\ \A x : FillsOf(t.bufferedFills, x) = FillsOf(s.bufferedFills, x) + One(f, x)

LEMMA BufferKeeps ==
  ASSUME NEW own, NEW s, Typed(s), AllOwned(own, s.bufferedFills),
         NEW f \in Fill, Owns(own, f.oid, f.cloid), NEW t, t = BufferFill(s, f)
  PROVE  Kept(s, t, f, own)
<1>b. PICK b, c : b = s.bufferedFills /\ c = Append(b, f)
  OBVIOUS
<1>1. t = [s EXCEPT !.bufferedFills = c]
  BY <1>b DEF BufferFill
<1>2. /\ t.clientToCloid = s.clientToCloid /\ t.cloidToClient = s.cloidToClient
      /\ t.cloidToState = s.cloidToState /\ t.oidToCloid = s.oidToCloid
      /\ t.cloidToOid = s.cloidToOid /\ t.cloidToAsset = s.cloidToAsset
      /\ t.told = s.told /\ t.unnamed = s.unnamed /\ t.bufferedFills = c
      /\ DOMAIN t = DOMAIN s
  BY <1>1 DEF Typed, Good, Fields
<1>3. Good(t)
  BY <1>1, <1>2 DEF Typed, Good, Paired
<1>4. b \in Seq(Fill) /\ c \in Seq(Fill) /\ \A x : FillsOf(c, x) = FillsOf(b, x) + One(f, x)
  BY <1>b, AppendCounts DEF Typed
<1>n. PICK n \in Nat : n = Len(b)
  BY <1>4, LenProperties
<1>5. Len(c) = n + 1 /\ \A k \in 1 .. n + 1 : c[k] = IF k <= n THEN b[k] ELSE f
  BY <1>4, <1>b, <1>n, AppendProperties
<1>6. AllOwned(own, c)
  BY <1>5, <1>b, <1>n DEF AllOwned
<1>7. Typed(t)
  BY <1>2, <1>3, <1>4 DEF Typed
<1> QED
  BY <1>2, <1>4, <1>6, <1>7, <1>b DEF Kept

LEMMA UserFillFills ==
  ASSUME IInv, FillInv, NEW i \in 1 .. Len(stream), UserFillArrives(i)
  PROVE  FillInv'
<1>o. PICK own : OwnedBy(own)
  BY DEF FillInv
<1>f. PICK f : f = stream[i]
  OBVIOUS
<1>1. /\ stream' = RemoveAt(stream, i) /\ f.type = "fill" /\ replaying' = replaying
      /\ UNCHANGED <<book, nextOid, seen, cloidOf, requests, isReplay, connected>>
  BY <1>f DEF UserFillArrives, RestUnchanged, history
<1>2. /\ AllOwned(own, stream') /\ f \in Events /\ Owns(own, f.oid, f.cloid)
      /\ \A x : /\ FillsOf(stream', x) \in Nat
                /\ FillsOf(stream, x) = FillsOf(stream', x) + One(f, x)
  BY <1>o, <1>f, <1>1, StreamWithout
<1>3. f \in Fill
  BY <1>1, <1>2 DEF Events, Update
<1>4. AllOwned(own, replaying') /\ replaying' \in Seq(Fill)
  BY <1>o, <1>1 DEF OwnedBy, AllOwned, FillInv
<1>5. PICK s \in AfterCheckTimeouts : gw' = OnUserFill(s, f)
  BY <1>f DEF UserFillArrives
<1>6. /\ Typed(s) /\ Placed(s) /\ OidsOwned(s, own)
      /\ \A c \in Clients : s.told[c].filled = gw.told[c].filled
      /\ s.bufferedFills \in Seq(Fill) /\ AllOwned(own, s.bufferedFills)
      /\ \A x : FillsOf(s.bufferedFills, x) <= FillsOf(gw.bufferedFills, x)
  BY <1>o, CheckedSpares
<1>7. Heeds(s, own)
  BY <1>6 DEF Heeds
<1>c. PICK client, cloid :
        client = LookupClientOrderIdByOid(s, f.oid) /\ cloid = LookupCloidByOid(s, f.oid)
  OBVIOUS
<1>w. ASSUME NEW x
      PROVE  /\ OnTheirWay(x)' =
                  FillsOf(stream', x) + FillsOf(gw'.bufferedFills, x) + FillsOf(replaying, x)
             /\ OnTheirWay(x) =
                  FillsOf(stream, x) + FillsOf(gw.bufferedFills, x) + FillsOf(replaying, x)
  BY <1>1 DEF OnTheirWay
<1>8. CASE client = NoClient
  <2>t. PICK t : t = BufferFill(s, f)
    OBVIOUS
  <2>1. gw' = t
    BY <1>5, <1>8, <1>c, <2>t DEF OnUserFill
  <2>2. Kept(s, t, f, own)
    BY <1>2, <1>3, <1>6, <2>t, BufferKeeps
  <2>3. ASSUME NEW x
        PROVE  OnTheirWay(x)' \in Nat /\ OnTheirWay(x)' <= OnTheirWay(x)
    <3>n. PICK k \in Nat, m \in Nat, n \in Nat, p \in Nat, q \in Nat, one \in Nat :
            /\ k = FillsOf(stream, x) /\ m = FillsOf(gw.bufferedFills, x)
            /\ n = FillsOf(replaying, x)
            /\ p = FillsOf(stream', x) /\ q = FillsOf(s.bufferedFills, x) /\ one = One(f, x)
      <4>1. FillsOf(s.bufferedFills, x) \in Nat
        BY <1>6, FillsCounted
      <4>2. One(f, x) \in Nat
        BY DEF One
      <4> QED
        BY <1>2, <4>1, <4>2, WayCounted
    <3>1. FillsOf(gw'.bufferedFills, x) = q + one
      BY <2>1, <2>2, <3>n DEF Kept
    <3>2. k = p + one /\ q <= m
      BY <1>2, <1>6, <3>n
    <3>3. OnTheirWay(x)' = p + (q + one) + n /\ OnTheirWay(x) = k + m + n
      BY <1>w, <3>1, <3>n
    <3> QED
      BY <3>2, <3>3
  <2>p. PICK passed : passed = NoClient
    OBVIOUS
  <2>4. Hears(passed, own)
    <3>1. /\ Typed(gw') /\ OidsOwned(gw', own) /\ AllOwned(own, gw'.bufferedFills)
          /\ \A c \in Clients : gw'.told[c].filled = gw.told[c].filled
      BY <1>6, <2>1, <2>2 DEF Kept, OidsOwned
    <3> QED
      BY <1>1, <1>2, <1>4, <2>p, <3>1 DEF Hears, FillInv
  <2>5. Dwindles(passed) /\ \A x : OnTheirWay(x)' \in Nat
    BY <2>3, <2>p DEF Dwindles
  <2> QED
    BY <1>o, <2>4, <2>5, HearsKeeps
<1>9. CASE client # NoClient
  <2>1. gw' = EmitFill(s, client, cloid)
    BY <1>5, <1>9, <1>c DEF OnUserFill
  <2>2. gw'.bufferedFills = s.bufferedFills
    <3>1. client \in Clients \cup {NoClient} /\ cloid \in AnyCloid
      BY <1>2, <1>6, <1>c, WhoHears
    <3> QED
      BY <1>6, <2>1, <3>1, EmitFillPasses
  <2>3. ASSUME NEW x
        PROVE  OnTheirWay(x)' \in Nat /\ OnTheirWay(x)' + One(f, x) <= OnTheirWay(x)
    <3>n. PICK k \in Nat, m \in Nat, n \in Nat, p \in Nat, q \in Nat, one \in Nat :
            /\ k = FillsOf(stream, x) /\ m = FillsOf(gw.bufferedFills, x)
            /\ n = FillsOf(replaying, x)
            /\ p = FillsOf(stream', x) /\ q = FillsOf(s.bufferedFills, x) /\ one = One(f, x)
      <4>1. FillsOf(s.bufferedFills, x) \in Nat
        BY <1>6, FillsCounted
      <4>2. One(f, x) \in Nat
        BY DEF One
      <4> QED
        BY <1>2, <4>1, <4>2, WayCounted
    <3>2. k = p + one /\ q <= m
      BY <1>2, <1>6, <3>n
    <3>3. OnTheirWay(x)' = p + q + n /\ OnTheirWay(x) = k + m + n
      BY <1>w, <2>2, <3>n
    <3>4. p + q + n \in Nat /\ (p + q + n) + one <= k + m + n
      BY <3>2
    <3> QED
      BY <3>3, <3>4, <3>n
  <2>4. Leaves(f)
    BY <2>3 DEF Leaves
  <2> QED
    BY <1>o, <1>1, <1>2, <1>4, <1>7, <1>c, <2>1, <2>4, FillPassed
<1> QED
  BY <1>8, <1>9

LEMMA ReplayFillFills ==
  ASSUME IInv, FillInv, ReplayFill
  PROVE  FillInv'
<1>o. PICK own : OwnedBy(own)
  BY DEF FillInv
<1>f. PICK f : f = Head(replaying)
  OBVIOUS
<1>c. PICK client, cloid :
        client = LookupClientOrderIdByOid(gw, f.oid) /\ cloid = LookupCloidByOid(gw, f.oid)
  OBVIOUS
<1>1. /\ replaying # <<>> /\ replaying' = Tail(replaying) /\ gw' = EmitFill(gw, client, cloid)
      /\ UNCHANGED <<stream, book, nextOid, seen, cloidOf, requests, isReplay, connected>>
  BY <1>c, <1>f DEF ReplayFill, RestUnchanged, history, exchangeVars
<1>2. Typed(gw) /\ replaying \in Seq(Fill) /\ AllOwned(own, replaying) /\ AllOwned(own, stream)
  BY <1>o DEF FillInv, OwnedBy, AllOwned
<1>3. /\ replaying' \in Seq(Fill) /\ Within(replaying', replaying)
      /\ f \in Fill /\ f = replaying[1] /\ 1 \in 1 .. Len(replaying)
  <2>1. Len(replaying) \in Nat /\ Len(replaying) # 0 /\ 1 \in 1 .. Len(replaying)
    BY <1>1, <1>2, EmptySeq, LenProperties
  <2>2. Head(replaying) = replaying[1] /\ replaying[1] \in Fill
    BY <1>1, <1>2, <2>1, ElementOfSeq
  <2> QED
    BY <1>1, <1>2, <1>f, <2>1, <2>2, TailWithin
<1>4. /\ AllOwned(own, replaying') /\ Owns(own, f.oid, f.cloid) /\ f.type = "fill"
  BY <1>2, <1>3, WithinOwned DEF AllOwned, Fill
<1>5. Heeds(gw, own)
  BY <1>o, <1>2, GatewayPlaced DEF Heeds, OwnedBy, AllOwned
<1>6. gw'.bufferedFills = gw.bufferedFills
  <2>1. client \in Clients \cup {NoClient} /\ cloid \in AnyCloid
    BY <1>4, <1>5, <1>c, WhoHears DEF Heeds
  <2> QED
    BY <1>1, <1>2, <2>1, EmitFillPasses
<1>7. ASSUME NEW x
      PROVE  OnTheirWay(x)' \in Nat /\ OnTheirWay(x)' + One(f, x) <= OnTheirWay(x)
  <2>1. FillsOf(replaying, x) = FillsOf(replaying', x) + One(f, x)
    BY <1>1, <1>2, <1>f, TailCounts
  <2>n. PICK k \in Nat, m \in Nat, n \in Nat, p \in Nat, one \in Nat :
          /\ k = FillsOf(stream, x) /\ m = FillsOf(gw.bufferedFills, x) /\ n = FillsOf(replaying, x)
          /\ p = FillsOf(replaying', x) /\ one = One(f, x)
    <3>1. FillsOf(replaying', x) \in Nat
      BY <1>3, FillsCounted
    <3>2. One(f, x) \in Nat
      BY DEF One
    <3> QED
      BY <3>1, <3>2, WayCounted
  <2>2. OnTheirWay(x)' = k + m + p /\ OnTheirWay(x) = k + m + n
    BY <1>1, <1>6, <2>n DEF OnTheirWay
  <2> QED
    BY <2>1, <2>2, <2>n
<1>8. Leaves(f)
  BY <1>7 DEF Leaves
<1>9. AllOwned(own, stream')
  BY <1>1, <1>2
<1> QED
  BY <1>o, <1>1, <1>3, <1>4, <1>5, <1>8, <1>9, <1>c, FillPassed

(* The other callbacks tell nobody of a fill.                              *)
LEMMA OtherFillsKeep ==
  ASSUME IInv, FillInv, NEW own, OwnedBy(own), Spares(gw, gw', own),
         UNCHANGED <<book, nextOid, seen, cloidOf, stream, replaying>>,
         requests' = requests \/ requests' = <<>>,
         isReplay' = isReplay, connected' \in BOOLEAN
  PROVE  FillInv'
<1>p. PICK passed : passed = NoClient
  OBVIOUS
<1>1. /\ Typed(gw') /\ OidsOwned(gw', own) /\ gw'.bufferedFills = gw.bufferedFills
      /\ \A c \in Clients : gw'.told[c].filled = gw.told[c].filled
      /\ replaying' \in Seq(Fill)
  BY DEF Spares, OwnedBy, FillInv
<1>2. AllOwned(own, stream') /\ AllOwned(own, gw'.bufferedFills) /\ AllOwned(own, replaying')
  BY <1>1 DEF OwnedBy, AllOwned
<1>3. Hears(passed, own)
  BY <1>1, <1>2, <1>p DEF Hears
<1>4. ASSUME NEW x
      PROVE  OnTheirWay(x)' \in Nat /\ OnTheirWay(x)' <= OnTheirWay(x)
  <2>1. OnTheirWay(x)' = OnTheirWay(x)
    BY <1>1 DEF OnTheirWay
  <2> QED
    BY <2>1, WayCounted
<1>5. Dwindles(passed) /\ \A x : OnTheirWay(x)' \in Nat
  BY <1>4, <1>p DEF Dwindles
<1> QED
  BY <1>3, <1>5, HearsKeeps

LEMMA ResponseFills ==
  ASSUME IInv, FillInv, NEW r \in responses, ResponseArrives(r)
  PROVE  FillInv'
<1>o. PICK own : OwnedBy(own)
  BY DEF FillInv
<1>c. PICK cloid : cloid = PendingCloid(r)
  OBVIOUS
<1>1. /\ gw' \in {OnPlaceOrder(gw, r.result, cloid), OnModifyOrder(gw, r.result, cloid),
                  OnCancelOrder(gw, r.result, cloid)}
      /\ UNCHANGED <<book, nextOid, seen, cloidOf, stream, replaying>>
      /\ requests' = requests /\ isReplay' = isReplay /\ connected' = connected
  BY <1>c DEF ResponseArrives, RestUnchanged, history
<1>2. Spares(gw, gw', own)
  BY <1>1, ResponseSpares DEF FillInv
<1>3. connected' \in BOOLEAN
  BY <1>1 DEF FillInv
<1> QED
  BY <1>o, <1>1, <1>2, <1>3, OtherFillsKeep

LEMMA ConnectedFills ==
  ASSUME IInv, FillInv, OnConnected
  PROVE  FillInv'
<1>o. PICK own : OwnedBy(own)
  BY DEF FillInv
<1>1. /\ UNCHANGED <<book, nextOid, seen, cloidOf, stream, replaying>> /\ gw' = gw
      /\ requests' = requests /\ isReplay' = isReplay /\ connected' \in BOOLEAN
  BY DEF OnConnected, RestUnchanged, history
<1>2. Spares(gw, gw', own)
  BY <1>1, SparesSelf DEF FillInv
<1> QED
  BY <1>o, <1>1, <1>2, OtherFillsKeep

(* A loss: fills that were on the way are not any more.                    *)
LEMMA LostFills ==
  ASSUME IInv, FillInv, NEW own, OwnedBy(own), Typed(gw'), gw'.told = gw.told,
         gw'.oidToCloid = gw.oidToCloid,
         gw'.bufferedFills = gw.bufferedFills \/ gw'.bufferedFills = <<>>,
         stream' = stream \/ stream' = <<>>,
         UNCHANGED <<book, nextOid, seen, cloidOf, replaying>>,
         requests' = requests \/ requests' = <<>>,
         isReplay' = isReplay, connected' \in BOOLEAN
  PROVE  FillInv'
<1>p. PICK passed : passed = NoClient
  OBVIOUS
<1>1. AllOwned(own, stream') /\ AllOwned(own, gw'.bufferedFills) /\ AllOwned(own, replaying')
  BY DEF OwnedBy, AllOwned
<1>2. OidsOwned(gw', own) /\ replaying' \in Seq(Fill)
  BY DEF OwnedBy, OidsOwned, FillInv
<1>3. Hears(passed, own)
  BY <1>1, <1>2, <1>p DEF Hears
<1>4. ASSUME NEW x
      PROVE  OnTheirWay(x)' \in Nat /\ OnTheirWay(x)' <= OnTheirWay(x)
  <2>n. PICK k \in Nat, m \in Nat, n \in Nat :
          /\ k = FillsOf(stream, x) /\ m = FillsOf(gw.bufferedFills, x) /\ n = FillsOf(replaying, x)
    BY WayCounted
  <2>1. PICK p \in {k, 0}, q \in {m, 0} :
          p = FillsOf(stream', x) /\ q = FillsOf(gw'.bufferedFills, x)
    BY <2>n, NoneCounts
  <2>2. OnTheirWay(x)' = p + q + n /\ OnTheirWay(x) = k + m + n
    BY <2>n, <2>1 DEF OnTheirWay
  <2> QED
    BY <2>2
<1>5. Dwindles(passed) /\ \A x : OnTheirWay(x)' \in Nat
  BY <1>4, <1>p DEF Dwindles
<1> QED
  BY <1>3, <1>5, HearsKeeps

LEMMA DisconnectedFills ==
  ASSUME IInv, FillInv, OnDisconnected
  PROVE  FillInv'
<1>o. PICK own : OwnedBy(own)
  BY DEF FillInv
<1>1. /\ UNCHANGED <<book, nextOid, seen, cloidOf, stream, replaying>>
      /\ gw' = [gw EXCEPT !.bufferedFills = <<>>]
      /\ requests' = requests /\ isReplay' = isReplay /\ connected' \in BOOLEAN
  BY DEF OnDisconnected, RestUnchanged, history, exchangeVars
<1>2. Typed(gw)
  BY DEF FillInv
<1>3. /\ gw'.clientToCloid = gw.clientToCloid /\ gw'.cloidToClient = gw.cloidToClient
      /\ gw'.cloidToState = gw.cloidToState /\ gw'.oidToCloid = gw.oidToCloid
      /\ gw'.cloidToOid = gw.cloidToOid /\ gw'.cloidToAsset = gw.cloidToAsset
      /\ gw'.told = gw.told /\ gw'.unnamed = gw.unnamed /\ gw'.bufferedFills = <<>>
      /\ DOMAIN gw' = DOMAIN gw
  BY <1>1, <1>2 DEF Typed, Good, Fields
<1>4. Good(gw')
  BY <1>2, <1>3 DEF Typed, Good, Paired
<1>5. Typed(gw')
  BY <1>2, <1>3, <1>4 DEF Typed
<1> QED
  BY <1>o, <1>1, <1>3, <1>5, LostFills

LEMMA LinkBreaksFills ==
  ASSUME IInv, FillInv, LinkBreaks
  PROVE  FillInv'
<1>o. PICK own : OwnedBy(own)
  BY DEF FillInv
<1>1. /\ UNCHANGED <<book, nextOid, seen, cloidOf, replaying>> /\ gw' = gw /\ stream' = <<>>
      /\ requests' = <<>> /\ isReplay' = isReplay /\ connected' \in BOOLEAN /\ Typed(gw')
  BY DEF LinkBreaks, history, FillInv
<1> QED
  BY <1>o, <1>1, LostFills

LEMMA WebsocketFills ==
  ASSUME IInv, FillInv, WebsocketStep
  PROVE  FillInv'
BY UpdateFills, UserFillFills, ReplayFillFills, ResponseFills, ConnectedFills, DisconnectedFills
   DEF WebsocketStep

-----------------------------------------------------------------------------
(* The main thread tells nobody of a fill, and it asks to place only an    *)
(* order that the exchange has never heard of.                             *)
Enters ==
  /\ \A c \in Clients : seen'[c] = "no" => seen[c] = "no"
  /\ \A c \in Clients : seen'[c] = "entered" =>
       \/ seen[c] = "entered" /\ cloidOf'[c] = cloidOf[c]
       \/ seen[c] = "no" /\ cloidOf'[c] \in Cloids

LEMMA MainKeeps ==
  ASSUME IInv, FillInv, NEW own, OwnedBy(own), Spares(gw, gw', own), Enters, PlaceInv',
         UNCHANGED <<book, stream, nextOid, replaying>>,
         isReplay' \in BOOLEAN, connected' \in BOOLEAN
  PROVE  FillInv'
<1>1. /\ Typed(gw') /\ OidsOwned(gw', own) /\ gw'.bufferedFills = gw.bufferedFills
      /\ \A c \in Clients : gw'.told[c].filled = gw.told[c].filled
      /\ replaying' \in Seq(Fill)
  BY DEF Spares, OwnedBy, FillInv
<1>2. OwnedBy(own)'
  BY <1>1 DEF OwnedBy, OidsOwned
<1>3. ASSUME NEW x
      PROVE  OnTheirWay(x)' = OnTheirWay(x)
  BY <1>1 DEF OnTheirWay
<1>4. FillBound'
  <2>1. ASSUME NEW x \in Cloids
        PROVE  (OnTheirWay(x) <= book[x].filled)'
    BY <1>3 DEF FillInv, FillBound
  <2>2. ASSUME NEW c \in Clients, seen'[c] = "no"
        PROVE  gw'.told[c].filled = 0
    BY <1>1, <2>2 DEF FillInv, FillBound, Enters
  <2>3. ASSUME NEW c \in Clients, seen'[c] = "entered"
        PROVE  (gw.told[c].filled + OnTheirWay(cloidOf[c]) <= book[cloidOf[c]].filled)'
    <3>y. PICK y : y = cloidOf'[c]
      OBVIOUS
    <3>1. y \in Cloids /\ gw.told[c].filled + OnTheirWay(y) <= book[y].filled
      <4>1. CASE seen[c] = "entered" /\ y = cloidOf[c]
        <5>1. c \in Entered
          BY <4>1 DEF Entered
        <5> QED
          BY <4>1, <5>1, ToldTyped DEF FillInv, FillBound
      <4>2. CASE seen[c] = "no" /\ y \in Cloids
        <5>1. gw.told[c].filled = 0 /\ OnTheirWay(y) <= book[y].filled
          BY <4>2 DEF FillInv, FillBound
        <5> QED
          BY <4>2, <5>1, WayCounted
      <4> QED
        BY <2>3, <3>y, <4>1, <4>2 DEF Enters
    <3>2. gw'.told[c].filled + OnTheirWay(y)' <= book'[y].filled
      BY <1>1, <1>3, <3>1
    <3> QED
      BY <3>2, <3>y
  <2> QED
    BY <2>1, <2>2, <2>3 DEF FillBound, Entered
<1> QED
  BY <1>1, <1>2, <1>4 DEF FillInv

LEMMA EntersNobody ==
  ASSUME UNCHANGED <<seen, cloidOf>>
  PROVE  Enters
BY DEF Enters

LEMMA PlacesNothing ==
  ASSUME FillInv, UNCHANGED <<requests, book>>
  PROVE  PlaceInv'
BY DEF FillInv, PlaceInv, IsPlace

LEMMA PlacesUnknown ==
  ASSUME IInv, FillInv, UNCHANGED book, NEW q, q.kind = "place" => NeverSent(q.cloid),
         q \in Request, requests' = Append(requests, q)
  PROVE  PlaceInv'
<1>1. requests \in Seq(Request)
  BY DEF IInv, TypesOK, ExchangeTypeOK
<1>n. PICK n \in Nat : n = Len(requests)
  BY <1>1, LenProperties
<1>a. PICK a : a = Append(requests, q)
  OBVIOUS
<1>b. /\ Len(a) = n + 1 /\ a[n + 1] = q
      /\ \A i \in 1 .. n : a[i] = requests[i]
  BY <1>1, <1>n, <1>a, AppendProperties
<1>2. /\ Len(requests') = n + 1 /\ requests'[n + 1] = q
      /\ \A i \in 1 .. n : requests'[i] = requests[i]
  BY <1>a, <1>b
<1>3. ASSUME NEW i \in 1 .. n + 1
      PROVE  (i \in 1 .. n /\ requests'[i] = requests[i]) \/ (i = n + 1 /\ requests'[i] = q)
  <2>1. i \in 1 .. n \/ i = n + 1
    OBVIOUS
  <2> QED
    BY <1>2, <2>1
<1>r. 1 .. Len(requests') = 1 .. n + 1
  BY <1>2
<1>4. /\ \A i \in 1 .. n : requests[i].kind = "place" => book[requests[i].cloid].state = "unknown"
      /\ \A i, j \in 1 .. n :
           /\ requests[i].kind = "place" /\ requests[j].kind = "place"
           /\ requests[i].cloid = requests[j].cloid
           => i = j
      /\ \A x \in Cloids : book[x].state = "unknown" => book[x].filled = 0
  BY <1>n DEF FillInv, PlaceInv, IsPlace
<1>5. q.kind = "place" => /\ book[q.cloid].state = "unknown"
                          /\ \A i \in 1 .. n :
                               requests[i].kind = "place" => requests[i].cloid # q.cloid
  BY <1>n DEF NeverSent
<1>6. ASSUME NEW i \in 1 .. n + 1, requests'[i].kind = "place"
      PROVE  book[requests'[i].cloid].state = "unknown"
  BY <1>3, <1>4, <1>5, <1>6
<1>7. ASSUME NEW i \in 1 .. n + 1, NEW j \in 1 .. n + 1,
             requests'[i].kind = "place", requests'[j].kind = "place",
             requests'[i].cloid = requests'[j].cloid
      PROVE  i = j
  BY <1>3, <1>4, <1>5, <1>7
<1> QED
  BY <1>4, <1>6, <1>7, <1>r DEF PlaceInv, IsPlace

(* The step that ends a handler.                                           *)
LEMMA SendPlaces ==
  ASSUME IInv, FillInv, main.at # "idle", NEW kind \in {"place", "modify", "cancel"},
         kind = "place" => main.at = "placing", Post(kind) \/ UNCHANGED requests, UNCHANGED book
  PROVE  PlaceInv'
<1>1. CASE UNCHANGED requests
  BY <1>1, PlacesNothing
<1>2. CASE Post(kind) /\ ~UNCHANGED requests
  <2>q. PICK q : q = [kind |-> kind, corr |-> nextCorr, cloid |-> main.cloid,
                      qty |-> main.qty, ioc |-> main.ioc]
    OBVIOUS
  <2>1. requests' = Append(requests, q)
    BY <1>2, <2>q DEF Post
  <2>2. q.kind = kind /\ q.cloid = main.cloid /\ main.cloid \in Cloids /\ q \in Request
    <3>1. main.cloid \in Cloids
      BY DEF IInv, CloidInv
    <3>2. nextCorr \in Nat /\ main.qty \in Quantities \cup {0} /\ main.ioc \in BOOLEAN
      BY DEF IInv, TypesOK, Handlers
    <3> QED
      BY <2>q, <3>1, <3>2 DEF Request
  <2>3. q.kind = "place" => NeverSent(q.cloid)
    BY <2>2 DEF IInv, GhostInv, Placing, Ghost
  <2> QED
    BY <2>1, <2>2, <2>3, PlacesUnknown
<1> QED
  BY <1>1, <1>2

LEMMA MainStepFills ==
  ASSUME IInv, FillInv, MainStep
  PROVE  FillInv'
<1>o. PICK own : OwnedBy(own)
  BY DEF FillInv
<1>1. /\ UNCHANGED <<book, stream, nextOid, replaying, seen, cloidOf, isReplay, connected>>
      /\ main.at \in {"placing", "amending", "cancelling"}
  BY DEF MainStep, PlaceOrder, PlaceOrderThrows, ModifyOrder, CancelOrderByCloid, CancelOrderFails,
         HandlerDone, WebsocketUnchanged, history
<1>2. PICK kind \in {"place", "modify", "cancel"} :
        /\ kind = "place" => main.at = "placing"
        /\ Post(kind) \/ UNCHANGED requests
  BY DEF MainStep, PlaceOrder, PlaceOrderThrows, ModifyOrder, CancelOrderByCloid, CancelOrderFails
<1>3. PlaceInv'
  <2>1. main.at # "idle"
    BY <1>1
  <2> QED
    BY <1>1, <1>2, <2>1, SendPlaces
<1>4. Typed(gw) /\ main.client \in Clients \cup {NoClient} /\ main.cloid \in AnyCloid
      /\ main.qty \in Nat /\ main.ioc \in BOOLEAN
  <2>1. main.client \in Clients \cup {NoClient} /\ main.cloid \in AnyCloid
        /\ main.qty \in Quantities \cup {0} /\ main.ioc \in BOOLEAN
    BY DEF IInv, TypesOK, Handlers
  <2>2. main.qty \in Nat
    <3>1. Quantities \cup {0} \subseteq Nat
      BY ExchangeAssumption
    <3> QED
      BY <2>1, <3>1
  <2>3. Typed(gw)
    BY DEF FillInv
  <2> QED
    BY <2>1, <2>2, <2>3
<1>5. Spares(gw, gw', own)
  <2>1. gw' \in {gw, Report(gw, main.client, "REJECTED"), Report(gw, main.client, "CancelReject"),
                 EnterAmend(gw, main.cloid, main.qty, main.ioc)}
    BY DEF MainStep, PlaceOrder, PlaceOrderThrows, ModifyOrder, CancelOrderByCloid, CancelOrderFails
  <2>2. /\ Spares(gw, gw, own)
        /\ Spares(gw, Report(gw, main.client, "REJECTED"), own)
        /\ Spares(gw, Report(gw, main.client, "CancelReject"), own)
    BY <1>4, SparesSelf, EndReports, ReportSpares
  <2>3. Spares(gw, EnterAmend(gw, main.cloid, main.qty, main.ioc), own)
    BY <1>4, EnterAmendSpares
  <2> QED
    BY <2>1, <2>2, <2>3
<1>6. isReplay' \in BOOLEAN /\ connected' \in BOOLEAN
  BY <1>1 DEF FillInv
<1> QED
  BY <1>o, <1>1, <1>3, <1>5, <1>6, MainKeeps, EntersNobody

LEMMA MainFills ==
  ASSUME IInv, FillInv, MainNext
  PROVE  FillInv'
<1>o. PICK own : OwnedBy(own)
  BY DEF FillInv
<1>t. Typed(gw)
  BY DEF FillInv
<1>1. ASSUME UNCHANGED <<book, stream, nextOid, replaying, requests, connected>>,
             isReplay' \in BOOLEAN, Enters, Spares(gw, gw', own)
      PROVE  FillInv'
  <2>1. connected' \in BOOLEAN
    BY <1>1 DEF FillInv
  <2> QED
    BY <1>o, <1>1, <2>1, PlacesNothing, MainKeeps
<1>2. CASE EndReplay
  <2>1. /\ UNCHANGED <<book, stream, nextOid, replaying, requests, connected>>
        /\ isReplay' \in BOOLEAN
        /\ UNCHANGED <<seen, cloidOf, gw>>
    BY <1>2 DEF EndReplay, WebsocketUnchanged, exchangeVars, history
  <2> QED
    BY <1>1, <1>t, <2>1, SparesSelf, EntersNobody
<1>3. ASSUME NEW c \in Clients, IgnoreNewOrder(c) \/ RejectNewOrder(c)
      PROVE  FillInv'
  <2>1. /\ UNCHANGED <<book, stream, nextOid, replaying, requests, connected>>
        /\ isReplay' = isReplay /\ cloidOf' = cloidOf /\ seen[c] = "no"
        /\ \E fate \in {"ignored", "rejected"} : seen' = [seen EXCEPT ![c] = fate]
        /\ gw' = gw \/ gw' = Report(gw, c, "REJECTED")
    BY <1>3 DEF IgnoreNewOrder, RejectNewOrder, WebsocketUnchanged, exchangeVars
  <2>2. Spares(gw, gw', own)
    BY <1>t, <2>1, SparesSelf, EndReports, ReportSpares
  <2>3. Enters
    BY <2>1 DEF Enters
  <2> QED
    BY <1>1, <2>1, <2>2, <2>3 DEF FillInv
<1>4. ASSUME NEW c \in Clients, EnterNewOrder(c)
      PROVE  FillInv'
  <2>1. /\ UNCHANGED <<book, stream, nextOid, replaying, requests, connected>>
        /\ isReplay' = isReplay /\ seen[c] = "no" /\ nextCloid \in Cloids
        /\ seen' = [seen EXCEPT ![c] = "entered"]
        /\ cloidOf' = [cloidOf EXCEPT ![c] = nextCloid]
        /\ \E qty \in Quantities, ioc \in BOOLEAN : gw' = AddOrder(gw, c, nextCloid, qty, ioc)
    BY <1>4 DEF EnterNewOrder, WebsocketUnchanged, exchangeVars
  <2>2. Spares(gw, gw', own)
    <3>1. PICK qty \in Quantities, ioc \in BOOLEAN : gw' = AddOrder(gw, c, nextCloid, qty, ioc)
      BY <2>1
    <3>2. Good(gw')
      <4>1. MapsInv'
        BY MainNextMaps DEF IInv
      <4> QED
        BY <4>1 DEF MapsInv
    <3> QED
      BY <1>t, <2>1, <3>1, <3>2, AddOrderSpares, ExchangeAssumption
  <2>3. Enters
    <3>1. cloidOf \in [Clients -> AnyCloid]
      BY HandlerTypes
    <3> QED
      BY <2>1, <3>1 DEF Enters
  <2> QED
    BY <1>1, <2>1, <2>2, <2>3 DEF FillInv
<1>5. ASSUME NEW c \in Clients, FindAmended(c) \/ FindCancelled(c) \/ RejectCancelOrder(c)
      PROVE  FillInv'
  <2>1. /\ UNCHANGED <<book, stream, nextOid, replaying, requests, connected>>
        /\ isReplay' = isReplay /\ UNCHANGED <<seen, cloidOf>>
        /\ gw' = gw \/ gw' = Report(gw, c, "CancelReject")
    BY <1>5 DEF FindAmended, FindCancelled, RejectCancelOrder, MayCancel, WebsocketUnchanged,
                exchangeVars
  <2>2. Spares(gw, gw', own)
    BY <1>t, <2>1, SparesSelf, EndReports, ReportSpares
  <2> QED
    BY <1>1, <2>1, <2>2, EntersNobody DEF FillInv
<1> QED
  BY <1>2, <1>3, <1>4, <1>5, MainStepFills DEF MainNext

-----------------------------------------------------------------------------
SeenTyped == seen \in [Clients -> {"no", "ignored", "rejected", "entered"}]

LEMMA SeenKeeps ==
  ASSUME SeenTyped, [Next]_vars
  PROVE  SeenTyped'
<1>1. CASE UNCHANGED seen
  BY <1>1 DEF SeenTyped
<1>2. ASSUME NEW c \in Clients, IgnoreNewOrder(c) \/ RejectNewOrder(c) \/ EnterNewOrder(c)
      PROVE  SeenTyped'
  <2>1. \E fate \in {"ignored", "rejected", "entered"} : seen' = [seen EXCEPT ![c] = fate]
    BY <1>2 DEF IgnoreNewOrder, RejectNewOrder, EnterNewOrder
  <2> QED
    BY <2>1 DEF SeenTyped
<1>3. CASE Exchange \/ LinkBreaks \/ UNCHANGED vars
  BY <1>1, <1>3 DEF Exchange, LinkBreaks, vars, gatewayVars, history
<1>4. CASE WebsocketStep
  <2>1. UNCHANGED seen
    BY <1>4 DEF WebsocketStep, OrderUpdateArrives, UserFillArrives, ReplayFill, ResponseArrives,
                OnConnected, OnDisconnected, RestUnchanged, history
  <2> QED
    BY <1>1, <2>1
<1>5. CASE EndReplay \/ MainStep
  <2>1. UNCHANGED seen
    BY <1>5 DEF EndReplay, MainStep, PlaceOrder, PlaceOrderThrows, ModifyOrder, CancelOrderByCloid,
                CancelOrderFails, HandlerDone, history
  <2> QED
    BY <1>1, <2>1
<1>6. ASSUME NEW c \in Clients, FindAmended(c) \/ FindCancelled(c) \/ RejectCancelOrder(c)
      PROVE  SeenTyped'
  <2>1. UNCHANGED seen
    BY <1>6 DEF FindAmended, FindCancelled, RejectCancelOrder, MayCancel
  <2> QED
    BY <1>1, <2>1
<1> QED
  BY <1>2, <1>3, <1>4, <1>5, <1>6 DEF Next, MainNext

LEMMA InitFills ==
  ASSUME Init
  PROVE  FillInv /\ SeenTyped
<1>1. /\ DOMAIN gw = Fields
      /\ gw.clientToCloid = NoEntries /\ gw.cloidToClient = NoEntries
      /\ gw.oidToCloid = NoEntries /\ gw.cloidToOid = NoEntries /\ gw.cloidToState = NoEntries
      /\ gw.cloidToAsset = {} /\ gw.bufferedFills = <<>>
      /\ gw.told = [c \in Clients |-> NothingTold] /\ gw.unnamed = {}
  BY DEF Init, GatewayInit, Fields
<1>2. DOMAIN NoEntries = {}
  BY DEF NoEntries
<1>3. /\ isReplay = TRUE /\ connected = FALSE /\ replaying = <<>>
      /\ seen = [c \in Clients |-> "no"]
  BY DEF Init, GatewayInit
<1>4. /\ requests = <<>> /\ stream = <<>>
      /\ book = [cloid \in Cloids |-> Unknown] /\ nextOid = 1
  BY DEF Init, ExchangeInit
<1>5. NothingTold \in Telling /\ NothingTold.filled = 0
  BY DEF NothingTold, Telling
<1>6. Unknown.state = "unknown" /\ Unknown.filled = 0
  BY DEF Unknown
<1>7. Typed(gw)
  <2>1. MapsInv
    BY InitEstablishes DEF IInv
  <2>2. IsMap(NoEntries, Clients, Cloids) /\ IsMap(NoEntries, Cloids, Clients)
        /\ IsMap(NoEntries, Nat, Cloids) /\ IsMap(NoEntries, Cloids, Nat)
        /\ IsMap(NoEntries, AnyCloid, States)
    BY <1>2 DEF IsMap
  <2>3. gw.bufferedFills \in Seq(Fill)
    BY <1>1
  <2> QED
    BY <1>1, <1>5, <2>1, <2>2, <2>3 DEF Typed, MapsInv
<1>8. replaying \in Seq(Fill) /\ isReplay \in BOOLEAN /\ connected \in BOOLEAN
  <2>1. <<>> \in Seq(Fill)
    OBVIOUS
  <2> QED
    BY <1>3, <2>1
<1>9. PlaceInv
  <2>1. 1 .. Len(requests) = {}
    BY <1>4
  <2> QED
    BY <1>4, <1>6, <2>1 DEF PlaceInv
<1>10. FillBound
  <2>1. ASSUME NEW x
        PROVE  OnTheirWay(x) = 0
    BY <1>1, <1>3, <1>4, NoneCounts DEF OnTheirWay
  <2>2. Entered = {}
    BY <1>3 DEF Entered
  <2> QED
    BY <1>1, <1>4, <1>5, <1>6, <2>1, <2>2 DEF FillBound
<1>11. \E own : OwnedBy(own)
  <2>o. PICK own : own = [oid \in 0 .. 0 |-> NoCloid]
    OBVIOUS
  <2>1. own \in [0 .. nextOid - 1 -> AnyCloid]
    BY <1>4, <2>o DEF AnyCloid
  <2>2. /\ 1 .. Len(stream) = {} /\ 1 .. Len(gw.bufferedFills) = {} /\ 1 .. Len(replaying) = {}
        /\ DOMAIN gw.oidToCloid = {}
    BY <1>1, <1>2, <1>3, <1>4
  <2>3. \A x \in Cloids : book[x].state # "live"
    BY <1>4, <1>6
  <2> QED
    BY <2>1, <2>2, <2>3 DEF OwnedBy, OidsOwned
<1>12. SeenTyped
  BY <1>3 DEF SeenTyped
<1> QED
  BY <1>7, <1>8, <1>9, <1>10, <1>11, <1>12 DEF FillInv

FillsInv == IInv /\ FillInv /\ SeenTyped

LEMMA FillsInvKept ==
  ASSUME FillsInv, [Next]_vars
  PROVE  FillsInv'
<1>0. IInv /\ FillInv /\ SeenTyped
  BY DEF FillsInv
<1>1. SeenTyped'
  BY <1>0, SeenKeeps
<1>2. CASE Exchange
  <2>1. ExchangeNext /\ UNCHANGED gatewayVars
    BY <1>2 DEF Exchange
  <2>2. IInv'
    BY <1>0, <2>1, ExchangeMovesOn, ExchangeKeeps
  <2>3. FillInv'
    BY <1>0, <2>1, ExchangeFills
  <2> QED
    BY <1>1, <2>2, <2>3 DEF FillsInv
<1>3. CASE WebsocketStep
  BY <1>0, <1>1, <1>3, WebsocketStepKeeps, WebsocketFills DEF FillsInv
<1>4. CASE LinkBreaks
  BY <1>0, <1>1, <1>4, LinkBreaksKeeps, LinkBreaksFills DEF FillsInv
<1>5. CASE MainNext
  BY <1>0, <1>1, <1>5, MainNextKeeps, MainFills DEF FillsInv
<1>6. CASE UNCHANGED vars
  <2>1. UNCHANGED <<requests, stream, book, nextOid, gw, isReplay, connected, replaying,
                    seen, cloidOf>>
    BY <1>6 DEF vars, exchangeVars, gatewayVars, history
  <2>2. PICK own : OwnedBy(own)
    BY <1>0 DEF FillInv
  <2>3. Spares(gw, gw', own)
    BY <1>0, <2>1, SparesSelf DEF FillInv
  <2>4. isReplay' \in BOOLEAN /\ connected' \in BOOLEAN
    BY <1>0, <2>1 DEF FillInv
  <2>5. FillInv'
    BY <1>0, <2>1, <2>2, <2>3, <2>4, MainKeeps, PlacesNothing, EntersNobody
  <2> QED
    BY <1>0, <1>1, <1>6, <2>5, StutterKeeps DEF FillsInv
<1> QED
  BY <1>2, <1>3, <1>4, <1>5, <1>6 DEF Next

(* For any number of orders, fills and lost connections, however fills and *)
(* updates overtake each other and whatever is buffered, replayed or timed *)
(* out: onUserFill and replayBufferedFills never tell a client of more     *)
(* fills than the exchange made of its own order.                          *)
THEOREM NoFillInvented == Spec => []NoInventedFills
<1>1. Init => FillsInv
  BY InitEstablishes, InitFills DEF FillsInv
<1>2. FillsInv /\ [Next]_vars => FillsInv'
  BY FillsInvKept
<1>3. FillsInv => NoInventedFills
  <2>1. ASSUME FillsInv, NEW c \in Entered
        PROVE  gw.told[c].filled <= book[cloidOf[c]].filled
    <3>0. IInv /\ FillInv /\ c \in Clients
      BY <2>1 DEF FillsInv, Entered
    <3>1. gw.told[c].filled + OnTheirWay(cloidOf[c]) <= book[cloidOf[c]].filled
      BY <3>0 DEF FillInv, FillBound
    <3>n. PICK t \in Nat, w \in Nat, b \in Nat :
            t = gw.told[c].filled /\ w = OnTheirWay(cloidOf[c]) /\ b = book[cloidOf[c]].filled
      BY <3>0, ToldTyped, WayCounted
    <3>2. t <= b
      BY <3>1, <3>n
    <3> QED
      BY <3>2, <3>n
  <2> QED
    BY <2>1 DEF NoInventedFills
<1> QED
  BY <1>1, <1>2, <1>3, PTL DEF Spec

(* The types: no map of HyperliquidOrdersHandler, no buffered or replayed  *)
(* fill and no pending request is ever anything else, in any instance.     *)
THEOREM TypesKept == Spec => []TypeOK
<1>1. Init => FillsInv
  BY InitEstablishes, InitFills DEF FillsInv
<1>2. FillsInv /\ [Next]_vars => FillsInv'
  BY FillsInvKept
<1>3. FillsInv => TypeOK
  <2> SUFFICES ASSUME FillsInv PROVE TypeOK
    OBVIOUS
  <2>1. /\ ExchangeTypeOK /\ pending \subseteq Pendings /\ nextCorr \in Nat /\ main \in Handlers
        /\ cloidOf \in [Clients -> AnyCloid] /\ nextCloid \in Nat \ {0}
    BY DEF FillsInv, IInv, TypesOK, MapsInv
  <2>2. /\ Typed(gw) /\ replaying \in Seq(Fill) /\ isReplay \in BOOLEAN /\ connected \in BOOLEAN
        /\ SeenTyped
    BY DEF FillsInv, FillInv
  <2> QED
    BY <2>1, <2>2 DEF TypeOK, GatewayTypeOK, Typed, Pendings, Handlers, SeenTyped
<1> QED
  BY <1>1, <1>2, <1>3, PTL DEF Spec

-----------------------------------------------------------------------------
(* Where no fill is given up.  If nothing times out and the connection     *)
(* once up stays up, every fill is passed on: what could still lose one is *)
(* replayBufferedFills, which looks the order up again for each fill it    *)
(* replays and would find it gone if an earlier one had filled the order.  *)
(* So the invariant says how many fills there can be of an oid: never more *)
(* than its size, which onOrderUpdate learns before it replays them.       *)
Reliable == ~Timeouts /\ MaxDisconnects = 0

(* The fills of an oid that have not been looked at, or not found an order.*)
Under(st, buffer, oid) == CountOf(st, "oid", oid) + CountOf(buffer, "oid", oid)

Linked ==
  /\ losses = 0 /\ connected = link
  /\ ~link => requests = <<>> /\ \A x \in Cloids : book[x].state # "live"

FitsSizes(st, buffer, entries) ==
  /\ \A i \in 1 .. Len(st) : IsOpen(st[i]) => Under(st, buffer, st[i].oid) <= st[i].origSz
  /\ \A x \in Cloids : entries[x].state = "live" =>
       /\ Under(st, buffer, entries[x].oid) <= entries[x].done
       /\ \A i \in 1 .. Len(st) : IsOpen(st[i]) /\ st[i].oid = entries[x].oid =>
            entries[x].done + entries[x].left <= st[i].origSz

Sized == FitsSizes(stream, gw.bufferedFills, book)

(* The order that an oid leads to is known, and takes n fills more.        *)
Room(s, oid, n) ==
  LET cloid == LookupCloidByOid(s, oid)
  IN  /\ LookupClientOrderId(s, cloid) # NoClient
      /\ StateOf(s, cloid).cumQty + n <= StateOf(s, cloid).origSz

Replayed == \A i \in 1 .. Len(replaying) : Room(gw, replaying[i].oid, Len(replaying))

NothingLost ==
  \A c \in Entered : book[cloidOf[c]].filled <= gw.told[c].filled + OnTheirWay(cloidOf[c])

KeepInv == Linked /\ Sized /\ Replayed /\ NothingLost

LEMMA UnderCounted ==
  ASSUME IInv, FillInv, NEW oid
  PROVE  /\ CountOf(stream, "oid", oid) \in Nat /\ CountOf(gw.bufferedFills, "oid", oid) \in Nat
         /\ Under(stream, gw.bufferedFills, oid) \in Nat
<1>1. stream \in Seq(Events) /\ gw.bufferedFills \in Seq(Fill)
  BY StreamTypes DEF FillInv, Typed
<1>2. CountOf(stream, "oid", oid) \in Nat /\ CountOf(gw.bufferedFills, "oid", oid) \in Nat
  BY <1>1, Counted
<1> QED
  BY <1>2 DEF Under

(* No event names an oid that has not been handed out.                     *)
LEMMA NotHandedOut ==
  ASSUME NEW S, NEW s \in Seq(S), NEW own, AllOwned(own, s), NEW oid, oid \notin DOMAIN own
  PROVE  /\ CountOf(s, "oid", oid) = 0
         /\ \A i \in 1 .. Len(s) : s[i].oid # oid
<1>1. \A i \in 1 .. Len(s) : s[i].oid # oid
  BY DEF AllOwned, Owns
<1>2. DOMAIN s = 1 .. Len(s)
  BY LenProperties
<1>3. CountedAt(s, "oid", oid) = {}
  BY <1>1, <1>2 DEF CountedAt
<1> QED
  BY <1>1, <1>3, FS_EmptySet DEF CountOf, CountedAt

-----------------------------------------------------------------------------
(* The exchange: something happens there only while the connection is up.  *)
LEMMA LinkUp ==
  ASSUME IInv, Linked, ExchangeNext
  PROVE  link = TRUE /\ link' = link
<1>1. link \in BOOLEAN
  BY DEF IInv, TypesOK, ExchangeTypeOK
<1>2. link' = link
  BY DEF ExchangeNext, HandleRequest, AcceptPlace, RejectPlace, AcceptModify, RejectModify,
         AcceptCancel, RejectCancel, Trade, IocGivenUp, ExchangeCancels
<1>3. requests # <<>> \/ \E x \in Cloids : book[x].state = "live"
  BY DEF ExchangeNext, HandleRequest, AcceptPlace, RejectPlace, AcceptModify, RejectModify,
         AcceptCancel, RejectCancel, Trade, IocGivenUp, ExchangeCancels, IsNext
<1> QED
  BY <1>1, <1>2, <1>3 DEF Linked

LEMMA TurnAdds ==
  ASSUME IInv, FillInv, link = TRUE, NEW own, NEW x, NEW e, NEW events,
         Turns(own, x, e, events), UNCHANGED gatewayVars, NEW y \in Cloids,
         NEW n, n = FillsOf(events, y)
  PROVE  n \in Nat /\ book'[y].filled = book[y].filled + n /\ OnTheirWay(y)' = OnTheirWay(y) + n
<1>0. /\ x \in Cloids /\ e \in BookEntry /\ book' = [book EXCEPT ![x] = e]
      /\ News(own, x, events) /\ events \in Seq(Events) /\ stream' = stream \o events
      /\ e.filled = book[x].filled + FillsOf(events, x)
  BY DEF Turns, News, Produces
<1>1. n \in Nat
  BY <1>0, FillsCounted
<1>2. book'[y].filled = book[y].filled + n
  <2>0. book \in [Cloids -> BookEntry] /\ book[y].filled \in Nat
    BY EntryTypes
  <2>1. CASE y = x
    BY <1>0, <2>0, <2>1
  <2>2. CASE y # x
    <3>1. n = 0
      BY <1>0, <2>2, NewsElsewhere
    <3> QED
      BY <1>0, <2>0, <2>2, <3>1
  <2> QED
    BY <2>1, <2>2
<1>3. FillsOf(stream', y) = FillsOf(stream, y) + n
  BY <1>0, StreamTypes, ConcatCounts
<1>4. gw' = gw /\ replaying' = replaying
  BY DEF gatewayVars
<1>n. PICK a \in Nat, b \in Nat, c \in Nat :
        a = FillsOf(stream, y) /\ b = FillsOf(gw.bufferedFills, y) /\ c = FillsOf(replaying, y)
  BY WayCounted
<1>5. OnTheirWay(y)' = a + n + b + c /\ OnTheirWay(y) = a + b + c
  BY <1>3, <1>4, <1>n DEF OnTheirWay
<1> QED
  BY <1>1, <1>2, <1>5

LEMMA TurnLoses ==
  ASSUME IInv, FillInv, link = TRUE, NothingLost, NEW own, NEW x, NEW e, NEW events,
         Turns(own, x, e, events), UNCHANGED gatewayVars
  PROVE  NothingLost'
<1>1. UNCHANGED <<gw, seen, cloidOf>>
  BY DEF gatewayVars, history
<1>2. ASSUME NEW c \in Clients, c \in Entered
      PROVE  book'[cloidOf[c]].filled <= gw.told[c].filled + OnTheirWay(cloidOf[c])'
  <2>y. PICK y, n : y = cloidOf[c] /\ n = FillsOf(events, y)
    OBVIOUS
  <2>0. y \in Cloids
    BY <1>2, <2>y, ToldTyped
  <2>n. PICK t \in Nat, w \in Nat, b \in Nat :
          t = gw.told[c].filled /\ w = OnTheirWay(y) /\ b = book[y].filled
    BY <1>2, <2>y, ToldTyped, WayCounted
  <2>1. n \in Nat /\ book'[y].filled = b + n /\ OnTheirWay(y)' = w + n
    BY <2>0, <2>n, <2>y, TurnAdds
  <2>2. b <= t + w
    BY <1>2, <2>n, <2>y DEF NothingLost
  <2>3. b + n <= t + (w + n)
    BY <2>1, <2>2
  <2>4. book'[y].filled <= gw.told[c].filled + OnTheirWay(y)'
    BY <2>1, <2>3, <2>n
  <2> QED
    BY <1>1, <2>4, <2>y
<1>3. Entered' = Entered /\ Entered \subseteq Clients
  BY <1>1 DEF Entered
<1> QED
  BY <1>1, <1>2, <1>3 DEF NothingLost

(* A turn adds a fill to the oid that it is of, and announces only an oid  *)
(* that nothing has been heard of.                                         *)
LEMMA TurnUnder ==
  ASSUME IInv, FillInv, link = TRUE, gw' = gw, NEW own, NEW x, NEW e, NEW events, NEW n \in {0, 1},
         Turns(own, x, e, events), Gauged(x, e, events, n),
         NEW st, NEW buffer, st = stream', buffer = gw.bufferedFills, NEW oid
  PROVE  /\ Under(st, buffer, oid) =
              Under(stream, buffer, oid) + (IF n = 1 /\ oid = book[x].oid THEN 1 ELSE 0)
         /\ Under(stream, buffer, oid) \in Nat
<1>1. events \in Seq(Events) /\ st = stream \o events
  BY DEF Turns, News, Produces
<1>2. CountOf(st, "oid", oid) = CountOf(stream, "oid", oid) + CountOf(events, "oid", oid)
  BY <1>1, StreamTypes, ConcatCount
<1>3. CountOf(events, "oid", oid) = IF n = 1 /\ oid = book[x].oid THEN 1 ELSE 0
  BY DEF Gauged
<1>n. PICK a \in Nat, b \in Nat, d \in {0, 1} :
        /\ a = CountOf(stream, "oid", oid) /\ b = CountOf(gw.bufferedFills, "oid", oid)
        /\ d = IF n = 1 /\ oid = book[x].oid THEN 1 ELSE 0
  BY UnderCounted
<1>4. Under(st, buffer, oid) = a + d + b /\ Under(stream, buffer, oid) = a + b
  BY <1>2, <1>3, <1>n DEF Under
<1>5. Under(st, buffer, oid) = Under(stream, buffer, oid) + d
  BY <1>4
<1> QED
  BY <1>4, <1>5, <1>n

Fresh ==
  /\ Under(stream, gw.bufferedFills, nextOid) = 0
  /\ \A i \in 1 .. Len(stream) : stream[i].oid # nextOid
  /\ \A x \in Cloids : book[x].state = "live" => book[x].oid # nextOid
  /\ \A x, y \in Cloids :
       book[x].state = "live" /\ book[y].state = "live" /\ book[x].oid = book[y].oid => x = y

LEMMA OidsFresh ==
  ASSUME IInv, FillInv
  PROVE  Fresh
<1>o. PICK own : OwnedBy(own)
  BY DEF FillInv
<1>1. nextOid \notin DOMAIN own
  <2>1. nextOid \in Nat /\ DOMAIN own = 0 .. nextOid - 1
    BY <1>o DEF IInv, TypesOK, ExchangeTypeOK, OwnedBy
  <2> QED
    BY <2>1
<1>2. /\ stream \in Seq(Events) /\ gw.bufferedFills \in Seq(Fill)
      /\ AllOwned(own, stream) /\ AllOwned(own, gw.bufferedFills)
  BY <1>o, StreamTypes DEF FillInv, Typed, OwnedBy, AllOwned
<1>3. /\ CountOf(stream, "oid", nextOid) = 0 /\ CountOf(gw.bufferedFills, "oid", nextOid) = 0
      /\ \A i \in 1 .. Len(stream) : stream[i].oid # nextOid
  BY <1>1, <1>2, NotHandedOut
<1>4. \A x \in Cloids : book[x].state = "live" => Owns(own, book[x].oid, x)
  BY <1>o DEF OwnedBy
<1> QED
  BY <1>1, <1>3, <1>4 DEF Fresh, Under, Owns

LEMMA TurnSized ==
  ASSUME IInv, FillInv, Sized, link = TRUE, gw' = gw,
         NEW own, NEW x, NEW e, NEW events, NEW n \in {0, 1},
         Turns(own, x, e, events), Gauged(x, e, events, n)
  PROVE  Sized'
<1>s. PICK st, buffer, entries : st = stream' /\ buffer = gw.bufferedFills /\ entries = book'
  OBVIOUS
<1>0. /\ x \in Cloids /\ e \in BookEntry /\ entries = [book EXCEPT ![x] = e]
      /\ events \in Seq(Events) /\ st = stream \o events
  BY <1>s DEF Turns, News, Produces
<1>b. entries[x] = e /\ \A y \in Cloids : y # x => entries[y] = book[y]
  BY <1>0, EntryTypes
<1>1. ASSUME NEW i \in 1 .. Len(st)
      PROVE  \/ \E j \in 1 .. Len(stream) : st[i] = stream[j]
             \/ \E j \in 1 .. Len(events) : st[i] = events[j]
  <2>n. PICK m \in Nat, k \in Nat : m = Len(stream) /\ k = Len(events)
    BY <1>0, StreamTypes, LenProperties
  <2>1. /\ Len(st) = m + k
        /\ \A j \in 1 .. m + k : st[j] = IF j <= m THEN stream[j] ELSE events[j - m]
    BY <1>0, <2>n, StreamTypes, ConcatProperties
  <2>2. i \in 1 .. m + k
    BY <1>1, <2>1
  <2>3. CASE i <= m
    BY <2>1, <2>2, <2>3, <2>n
  <2>4. CASE ~(i <= m)
    <3>1. i - m \in 1 .. Len(events) /\ st[i] = events[i - m]
      BY <2>1, <2>2, <2>4, <2>n
    <3> QED
      BY <3>1
  <2> QED
    BY <2>3, <2>4
<1>2. \A oid :
        /\ Under(st, buffer, oid) =
             Under(stream, buffer, oid) + (IF n = 1 /\ oid = book[x].oid THEN 1 ELSE 0)
        /\ Under(stream, buffer, oid) \in Nat
  BY <1>s, TurnUnder
<1>3. Fresh /\ Under(stream, buffer, nextOid) = 0
  BY <1>s, OidsFresh DEF Fresh
<1>z. FitsSizes(stream, buffer, book)
  BY <1>s DEF Sized
<1>4. \A i \in 1 .. Len(events) : IsOpen(events[i]) =>
        n = 0 /\ events[i].oid = nextOid /\ e.oid = nextOid /\ e.left <= events[i].origSz
  BY DEF Gauged
<1>5. \A i \in 1 .. Len(events) : IsOpen(events[i]) => events[i].origSz \in Nat
  <2>1. \A i \in 1 .. Len(events) : events[i] \in Events
    BY <1>0, ElementOfSeq
  <2> QED
    BY <2>1 DEF IsOpen, Events, Update, Fill
<1>6. \A i \in 1 .. Len(stream) : IsOpen(stream[i]) => stream[i].origSz \in Nat
  <2>1. \A i \in 1 .. Len(stream) : stream[i] \in Events
    BY StreamTypes, ElementOfSeq
  <2> QED
    BY <2>1 DEF IsOpen, Events, Update, Fill
<1>7. n = 1 => book[x].state = "live"
  BY DEF Gauged
<1>8. ASSUME NEW i \in 1 .. Len(st), IsOpen(st[i])
      PROVE  Under(st, buffer, st[i].oid) <= st[i].origSz
  <2>u. PICK u, oid : u = st[i] /\ oid = u.oid
    OBVIOUS
  <2>1. CASE \E j \in 1 .. Len(stream) : u = stream[j]
    <3>j. PICK j \in 1 .. Len(stream) : u = stream[j]
      BY <2>1
    <3>1. IsOpen(stream[j]) /\ u.origSz \in Nat /\ Under(stream, buffer, oid) <= u.origSz
      BY <1>z, <1>6, <1>8, <2>u, <3>j DEF FitsSizes
    <3>2. CASE n = 1 /\ oid = book[x].oid
      <4>1. book[x].state = "live"
        BY <1>7, <3>2
      <4>n. PICK d \in Nat, l \in Nat, s \in Nat, a \in Nat :
              d = book[x].done /\ l = book[x].left /\ s = u.origSz /\ a = Under(stream, buffer, oid)
        BY <1>0, <1>2, <3>1, EntryTypes
      <4>2. a <= d /\ d + l <= s /\ l # 0
        BY <1>z, <1>0, <2>u, <3>1, <3>2, <3>j, <4>1, <4>n, EntryTypes DEF FitsSizes
      <4>3. a + 1 <= s
        BY <4>2
      <4>4. Under(st, buffer, oid) = a + 1
        BY <1>2, <3>2, <4>n
      <4> QED
        BY <2>u, <4>3, <4>4, <4>n
    <3>3. CASE ~(n = 1 /\ oid = book[x].oid)
      <4>1. Under(st, buffer, oid) = Under(stream, buffer, oid)
        BY <1>2, <3>3
      <4> QED
        BY <2>u, <3>1, <4>1
    <3> QED
      BY <3>2, <3>3
  <2>2. CASE \E j \in 1 .. Len(events) : u = events[j]
    <3>1. n = 0 /\ oid = nextOid /\ u.origSz \in Nat
      BY <1>4, <1>5, <1>8, <2>2, <2>u
    <3>2. Under(st, buffer, oid) = 0
      BY <1>2, <1>3, <3>1 DEF Fresh
    <3> QED
      BY <2>u, <3>1, <3>2
  <2> QED
    BY <1>1, <2>1, <2>2, <2>u
<1>9. ASSUME NEW y \in Cloids, entries[y].state = "live"
      PROVE  /\ Under(st, buffer, entries[y].oid) <= entries[y].done
             /\ \A i \in 1 .. Len(st) : IsOpen(st[i]) /\ st[i].oid = entries[y].oid =>
                  entries[y].done + entries[y].left <= st[i].origSz
  <2>1. CASE y # x
    <3>1. /\ entries[y] = book[y] /\ book[y].state = "live" /\ book[y].oid # nextOid
          /\ Under(stream, buffer, book[y].oid) <= book[y].done
      BY <1>z, <1>3, <1>9, <1>b, <2>1 DEF Fresh, FitsSizes
    <3>2. ~(n = 1 /\ book[y].oid = book[x].oid)
      BY <1>0, <1>3, <1>7, <2>1, <3>1 DEF Fresh
    <3>3. Under(st, buffer, book[y].oid) = Under(stream, buffer, book[y].oid)
      BY <1>2, <3>2
    <3>4. ASSUME NEW i \in 1 .. Len(st), IsOpen(st[i]), st[i].oid = book[y].oid
          PROVE  book[y].done + book[y].left <= st[i].origSz
      <4>1. CASE \E j \in 1 .. Len(stream) : st[i] = stream[j]
        BY <1>z, <3>1, <3>4, <4>1 DEF FitsSizes
      <4>2. CASE \E j \in 1 .. Len(events) : st[i] = events[j]
        BY <1>4, <3>1, <3>4, <4>2
      <4> QED
        BY <1>1, <4>1, <4>2
    <3>y. PICK b : b = entries[y] /\ b = book[y]
      BY <3>1
    <3>5. Under(st, buffer, b.oid) <= b.done
      BY <3>1, <3>3, <3>y
    <3> QED
      BY <3>4, <3>5, <3>y
  <2>2. CASE y = x /\ e.oid = nextOid /\ e.done = 0
    <3>1. n = 1 => book[x].oid # nextOid
      BY <1>0, <1>3, <1>7 DEF Fresh
    <3>2. Under(st, buffer, nextOid) = 0
      BY <1>2, <1>3, <3>1 DEF Fresh
    <3>3. ASSUME NEW i \in 1 .. Len(st), IsOpen(st[i]), st[i].oid = nextOid
          PROVE  e.left <= st[i].origSz
      <4>1. ~ \E j \in 1 .. Len(stream) : st[i] = stream[j]
        BY <1>3, <3>3 DEF Fresh
      <4>2. CASE \E j \in 1 .. Len(events) : st[i] = events[j]
        BY <1>4, <3>3, <4>2
      <4> QED
        BY <1>1, <4>1, <4>2
    <3>4. e.left \in Nat /\ e.done + e.left = e.left
      <4>1. e.left \in Nat
        BY <1>0 DEF BookEntry
      <4> QED
        BY <2>2, <4>1
    <3>5. Under(st, buffer, e.oid) <= e.done
      BY <2>2, <3>2
    <3> QED
      BY <1>b, <2>2, <3>3, <3>4, <3>5
  <2>3. CASE /\ y = x /\ book[x].state = "live" /\ e.oid = book[x].oid
             /\ e.done = book[x].done + n /\ e.left + n = book[x].left
    <3>o. PICK oid : oid = book[x].oid
      OBVIOUS
    <3>n. PICK d \in Nat, l \in Nat, a \in Nat, f \in Nat, g \in Nat :
            /\ d = book[x].done /\ l = book[x].left /\ a = Under(stream, buffer, oid)
            /\ f = e.done /\ g = e.left
      <4>1. e.done \in Nat /\ e.left \in Nat
        BY <1>0 DEF BookEntry
      <4> QED
        BY <1>0, <1>2, <4>1, EntryTypes
    <3>1. f = d + n /\ g + n = l /\ a <= d
      BY <1>z, <1>0, <2>3, <3>n, <3>o DEF FitsSizes
    <3>2. Under(st, buffer, oid) = a + n
      BY <1>2, <3>n, <3>o
    <3>3. a + n <= f /\ f + g = d + l
      BY <3>1
    <3>4. ASSUME NEW i \in 1 .. Len(st), IsOpen(st[i]), st[i].oid = oid
          PROVE  d + l <= st[i].origSz
      <4>1. CASE \E j \in 1 .. Len(stream) : st[i] = stream[j]
        BY <1>z, <1>0, <2>3, <3>4, <3>n, <3>o, <4>1 DEF FitsSizes
      <4>2. CASE \E j \in 1 .. Len(events) : st[i] = events[j]
        BY <1>0, <1>3, <1>4, <2>3, <3>4, <3>o, <4>2 DEF Fresh
      <4> QED
        BY <1>1, <4>1, <4>2
    <3>5. Under(st, buffer, e.oid) <= e.done
      BY <2>3, <3>2, <3>3, <3>n, <3>o
    <3>6. e.done + e.left = d + l /\ e.oid = oid
      BY <2>3, <3>3, <3>n, <3>o
    <3> QED
      BY <1>b, <2>3, <3>4, <3>5, <3>6
  <2>4. y = x => e.state = "live"
    BY <1>9, <1>b
  <2> QED
    BY <2>1, <2>2, <2>3, <2>4 DEF Gauged
<1> QED
  BY <1>8, <1>9, <1>s DEF Sized, FitsSizes

LEMMA ExchangeConserves ==
  ASSUME IInv, FillInv, KeepInv, ExchangeNext, UNCHANGED gatewayVars
  PROVE  KeepInv'
<1>0. Linked /\ Sized /\ Replayed /\ NothingLost
  BY DEF KeepInv
<1>1. link = TRUE /\ link' = link
  BY <1>0, LinkUp
<1>2. UNCHANGED <<gw, connected, replaying, losses, seen, cloidOf>>
  BY DEF gatewayVars, history
<1>3. Linked'
  BY <1>0, <1>1, <1>2 DEF Linked
<1>4. Replayed'
  BY <1>0, <1>2 DEF Replayed, Room
<1>5. Sized' /\ NothingLost'
  <2>1. CASE Turned
    <3>1. PICK old, own, x, e, events, n :
            /\ n \in {0, 1} /\ Grown(old, own) /\ Turns(own, x, e, events)
            /\ Gauged(x, e, events, n)
      BY <2>1 DEF Turned
    <3> QED
      BY <1>0, <1>1, <1>2, <3>1, TurnSized, TurnLoses
  <2>2. CASE RejectModify \/ RejectCancel
    <3>1. UNCHANGED <<book, stream>>
      BY <2>2 DEF RejectModify, RejectCancel
    <3> QED
      BY <1>0, <1>2, <3>1 DEF Sized, NothingLost, OnTheirWay, Entered
  <2> QED
    BY <2>1, <2>2, ExchangeTurns
<1> QED
  BY <1>3, <1>4, <1>5 DEF KeepInv

-----------------------------------------------------------------------------
(* What the other steps have in common.                                    *)
LEMMA LinkedKeeps ==
  ASSUME Linked, UNCHANGED <<link, connected, losses, book>>, requests' = requests \/ link
  PROVE  Linked'
BY DEF Linked

LEMMA SizedShrinks ==
  ASSUME IInv, FillInv, Sized, book' = book, Within(stream', stream),
         NEW st, NEW buffer, st = stream', buffer = gw'.bufferedFills,
         \A oid : /\ Under(st, buffer, oid) \in Nat
                  /\ Under(st, buffer, oid) <= Under(stream, gw.bufferedFills, oid)
  PROVE  Sized'
<1>b. PICK old : old = gw.bufferedFills
  OBVIOUS
<1>0. FitsSizes(stream, old, book)
  BY <1>b DEF Sized
<1>1. \A oid : /\ Under(st, buffer, oid) \in Nat /\ Under(stream, old, oid) \in Nat
               /\ Under(st, buffer, oid) <= Under(stream, old, oid)
  BY <1>b, UnderCounted
<1>2. ASSUME NEW i \in 1 .. Len(st), IsOpen(st[i])
      PROVE  Under(st, buffer, st[i].oid) <= st[i].origSz
  <2>1. PICK j \in 1 .. Len(stream) : st[i] = stream[j]
    BY <1>2 DEF Within
  <2>u. PICK u, oid : u = st[i] /\ oid = u.oid
    OBVIOUS
  <2>2. stream[j] \in Events
    BY StreamTypes, ElementOfSeq
  <2>n. PICK q \in Nat : q = u.origSz
    BY <1>2, <2>1, <2>2, <2>u DEF IsOpen, Events, Update, Fill
  <2>3. Under(stream, old, oid) <= q
    BY <1>0, <1>2, <2>1, <2>n, <2>u DEF FitsSizes
  <2>4. Under(st, buffer, oid) <= q
    BY <1>1, <2>3
  <2> QED
    BY <2>4, <2>n, <2>u
<1>3. ASSUME NEW x \in Cloids, book[x].state = "live"
      PROVE  /\ Under(st, buffer, book[x].oid) <= book[x].done
             /\ \A i \in 1 .. Len(st) : IsOpen(st[i]) /\ st[i].oid = book[x].oid =>
                  book[x].done + book[x].left <= st[i].origSz
  <2>n. PICK d, oid : d \in Nat /\ d = book[x].done /\ oid = book[x].oid
    BY EntryTypes
  <2>1. Under(stream, old, oid) <= d
    BY <1>0, <1>3, <2>n DEF FitsSizes
  <2>2. Under(st, buffer, oid) <= d
    BY <1>1, <2>1, <2>n
  <2>3. ASSUME NEW i \in 1 .. Len(st), IsOpen(st[i]), st[i].oid = book[x].oid
        PROVE  book[x].done + book[x].left <= st[i].origSz
    <3>1. PICK j \in 1 .. Len(stream) : st[i] = stream[j]
      BY <2>3 DEF Within
    <3> QED
      BY <1>0, <1>3, <2>3, <3>1 DEF FitsSizes
  <2> QED
    BY <2>2, <2>3, <2>n
<1>4. FitsSizes(st, buffer, book)
  BY <1>2, <1>3 DEF FitsSizes
<1> QED
  BY <1>4 DEF Sized

(* Nobody hears of a fill, and none that was on the way is gone.           *)
Stays ==
  /\ UNCHANGED <<book, seen, cloidOf>>
  /\ \A c \in Clients : gw'.told[c].filled = gw.told[c].filled
  /\ \A y : OnTheirWay(y)' = OnTheirWay(y)

LEMMA StayConserves ==
  ASSUME IInv, FillInv, NothingLost, Stays
  PROVE  NothingLost'
<1>1. ASSUME NEW c \in Entered
      PROVE  book[cloidOf[c]].filled <= gw'.told[c].filled + OnTheirWay(cloidOf[c])'
  <2>y. PICK y : y = cloidOf[c]
    OBVIOUS
  <2>1. c \in Clients /\ book[y].filled <= gw.told[c].filled + OnTheirWay(y)
    BY <2>y DEF NothingLost, Entered
  <2>2. OnTheirWay(y)' = OnTheirWay(y) /\ gw'.told[c].filled = gw.told[c].filled
    BY <2>1 DEF Stays
  <2>3. book[y].filled <= gw'.told[c].filled + OnTheirWay(y)'
    BY <2>1, <2>2
  <2>4. y = cloidOf'[c]
    BY <2>y DEF Stays
  <2> QED
    BY <2>3, <2>y, <2>4 DEF Stays
<1> QED
  BY <1>1 DEF NothingLost, Stays, Entered

(* A client hears of a fill that was on the way to it, and no other does.  *)
Reaches(f, client) ==
  /\ UNCHANGED <<book, seen, cloidOf>>
  /\ f.type = "fill" /\ client \in Entered /\ cloidOf[client] = f.cloid
  /\ Passes(gw, gw', client)
  /\ \A y : OnTheirWay(y)' \in Nat /\ OnTheirWay(y)' + One(f, y) = OnTheirWay(y)

LEMMA ReachConserves ==
  ASSUME IInv, FillInv, NothingLost, NEW f, NEW client, Reaches(f, client)
  PROVE  NothingLost'
<1>1. ASSUME NEW c \in Entered
      PROVE  book[cloidOf[c]].filled <= gw'.told[c].filled + OnTheirWay(cloidOf[c])'
  <2>y. PICK y : y = cloidOf[c]
    OBVIOUS
  <2>0. c \in Clients /\ y \in Cloids
    BY <2>y, ToldTyped DEF Entered
  <2>n. PICK t \in Nat, w \in Nat, v \in Nat, b \in Nat, one \in {0, 1} :
          /\ t = gw.told[c].filled /\ w = OnTheirWay(y) /\ v = OnTheirWay(y)' /\ b = book[y].filled
          /\ one = One(f, y)
    BY <2>0, ToldTyped, WayCounted, EntryTypes DEF Reaches, One
  <2>1. v + one = w /\ b <= t + w
    BY <2>n, <2>y DEF Reaches, NothingLost
  <2>2. gw'.told[c].filled = t + one
    <3>1. CASE c = client
      <4>1. one = 1
        BY <2>n, <2>y, <3>1 DEF Reaches, One, IsFillOf
      <4> QED
        BY <2>0, <2>n, <3>1, <4>1 DEF Reaches, Passes
    <3>2. CASE c # client
      <4>1. y # f.cloid
        BY <2>y, <3>2 DEF Reaches, IInv, CloidInv
      <4>2. one = 0
        BY <2>n, <4>1 DEF One, IsFillOf
      <4> QED
        BY <2>0, <2>n, <3>2, <4>2 DEF Reaches, Passes
    <3> QED
      BY <3>1, <3>2
  <2>3. b <= (t + one) + v
    BY <2>1
  <2>4. book[y].filled <= gw'.told[c].filled + OnTheirWay(y)'
    BY <2>2, <2>3, <2>n
  <2>5. y = cloidOf'[c]
    BY <2>y DEF Reaches
  <2> QED
    BY <2>4, <2>5 DEF Reaches
<1> QED
  BY <1>1 DEF NothingLost, Reaches, Entered

-----------------------------------------------------------------------------
(* Room for fills, through the changes that the two threads make.          *)
SameOrders(s, t) ==
  /\ t.oidToCloid = s.oidToCloid /\ t.cloidToClient = s.cloidToClient
  /\ t.cloidToState = s.cloidToState

LEMMA RoomSame ==
  ASSUME NEW s, NEW t, SameOrders(s, t), NEW oid, NEW n, Room(s, oid, n)
  PROVE  Room(t, oid, n)
BY DEF SameOrders, Room, LookupCloidByOid, LookupClientOrderId, StateOf

LEMMA RoomReported ==
  ASSUME NEW s, Typed(s), NEW client \in Clients \cup {NoClient}, NEW report \in ReportKinds
  PROVE  SameOrders(s, Report(s, client, report))
BY TypedFit, ReportFacts DEF SameOrders

LEMMA RoomAmended ==
  ASSUME NEW s, Typed(s), NEW cloid, NEW qty, NEW ioc, NEW oid, NEW n, Room(s, oid, n)
  PROVE  Room(EnterAmend(s, cloid, qty, ioc), oid, n)
<1>s. PICK state : state = StateOf(s, cloid)
  OBVIOUS
<1>1. state \in States
  BY <1>s, StateOfTyped
<1>n. PICK new : new = [state EXCEPT !.requestedQty = qty, !.isIoc = ioc, !.stamped = TRUE]
  OBVIOUS
<1>2. new.cumQty = state.cumQty /\ new.origSz = state.origSz
  BY <1>1, <1>n DEF States
<1>t. PICK t : t = EnterAmend(s, cloid, qty, ioc)
  OBVIOUS
<1>3. t = [s EXCEPT !.cloidToState = Put(s.cloidToState, cloid, new)]
  BY <1>s, <1>n, <1>t DEF EnterAmend, SetState
<1>4. /\ t.oidToCloid = s.oidToCloid /\ t.cloidToClient = s.cloidToClient
      /\ t.cloidToState = Put(s.cloidToState, cloid, new)
  BY <1>3 DEF Typed, Good, Fields
<1>5. \A x : StateOf(t, x) = IF x = cloid THEN new ELSE StateOf(s, x)
  BY <1>4 DEF StateOf, Put
<1>6. Room(t, oid, n)
  BY <1>2, <1>4, <1>5, <1>s DEF Room, LookupCloidByOid, LookupClientOrderId
<1> QED
  BY <1>6, <1>t

LEMMA RoomEntered ==
  ASSUME NEW s, Typed(s), NEW c \in Clients, NEW cloid, NEW qty, NEW ioc, NEW oid, NEW n,
         Room(s, oid, n)
  PROVE  Room(AddOrder(s, c, cloid, qty, ioc), oid, n)
<1>s. PICK state : state = StateOf(s, cloid)
  OBVIOUS
<1>1. state \in States
  BY <1>s, StateOfTyped
<1>n. PICK new : new = [state EXCEPT !.requestedQty = qty, !.isIoc = ioc, !.stamped = TRUE]
  OBVIOUS
<1>2. new.cumQty = state.cumQty /\ new.origSz = state.origSz
  BY <1>1, <1>n DEF States
<1>t. PICK t : t = AddOrder(s, c, cloid, qty, ioc)
  OBVIOUS
<1>3. t = [s EXCEPT !.clientToCloid = Put(s.clientToCloid, c, cloid),
                    !.cloidToClient = Put(s.cloidToClient, cloid, c),
                    !.cloidToAsset = s.cloidToAsset \cup {cloid},
                    !.cloidToState = Put(s.cloidToState, cloid, new)]
  BY <1>s, <1>n, <1>t DEF AddOrder
<1>4. /\ t.oidToCloid = s.oidToCloid /\ t.cloidToClient = Put(s.cloidToClient, cloid, c)
      /\ t.cloidToState = Put(s.cloidToState, cloid, new)
  BY <1>3 DEF Typed, Good, Fields
<1>5. \A x : StateOf(t, x) = IF x = cloid THEN new ELSE StateOf(s, x)
  BY <1>4 DEF StateOf, Put
<1>6. \A x : LookupClientOrderId(t, x) = IF x = cloid THEN c ELSE LookupClientOrderId(s, x)
  BY <1>4 DEF LookupClientOrderId, Put
<1>7. Room(t, oid, n)
  BY <1>2, <1>4, <1>5, <1>6, <1>s, ClientsAssumption DEF Room, LookupCloidByOid
<1> QED
  BY <1>7, <1>t

(* A fill that leaves room for more does not end the order.                *)
LEMMA RoomFilled ==
  ASSUME NEW s, Typed(s), NEW n \in Nat, n > 1, NEW head, Room(s, head, n),
         NEW cloid, cloid = LookupCloidByOid(s, head),
         NEW client, client = LookupClientOrderId(s, cloid),
         NEW oid, Room(s, oid, n)
  PROVE  Room(EmitFill(s, client, cloid), oid, n - 1)
<1>s. PICK state : state = StateOf(s, cloid)
  OBVIOUS
<1>1. state \in States /\ state.cumQty \in Nat /\ state.origSz \in Nat
  BY <1>s, StateOfTyped DEF States
<1>n. PICK new : new = [state EXCEPT !.cumQty = @ + 1]
  OBVIOUS
<1>2. new.cumQty = state.cumQty + 1 /\ new.origSz = state.origSz
  BY <1>1, <1>n DEF States
<1>t. PICK t : t = ApplyFill(s, cloid, 1)
  OBVIOUS
<1>3. t = [s EXCEPT !.cloidToState = Put(s.cloidToState, cloid, new)]
  BY <1>s, <1>n, <1>t DEF ApplyFill, SetState
<1>4. /\ t.oidToCloid = s.oidToCloid /\ t.cloidToClient = s.cloidToClient
      /\ t.cloidToState = Put(s.cloidToState, cloid, new)
  BY <1>3 DEF Typed, Good, Fields
<1>5. \A x : StateOf(t, x) = IF x = cloid THEN new ELSE StateOf(s, x)
  BY <1>4 DEF StateOf, Put
<1>6. state.cumQty + n <= state.origSz
  BY <1>s DEF Room
<1>7. new.cumQty < new.origSz
  BY <1>1, <1>2, <1>6
<1>u. PICK u : u = EmitFill(s, client, cloid)
  OBVIOUS
<1>8. u = Report(t, client, "PARTIALLY_FILLED")
  BY <1>5, <1>7, <1>t, <1>u DEF EmitFill
<1>9. SameOrders(t, u)
  <2>1. client \in Clients \cup {NoClient} /\ cloid \in AnyCloid
    BY ClientTyped, CloidTyped
  <2>2. Typed(t)
    BY <1>t, <2>1, ApplyFillSpares, SparesTyped
  <2>3. "PARTIALLY_FILLED" \in ReportKinds
    BY DEF ReportKinds
  <2> QED
    BY <1>8, <2>1, <2>2, <2>3, RoomReported
<1>10. Room(t, oid, n - 1)
  <2>x. PICK x : x = LookupCloidByOid(s, oid)
    OBVIOUS
  <2>1. /\ LookupCloidByOid(t, oid) = x /\ LookupClientOrderId(t, x) # NoClient
        /\ StateOf(s, x).cumQty + n <= StateOf(s, x).origSz
    BY <1>4, <2>x DEF Room, LookupCloidByOid, LookupClientOrderId
  <2>n. PICK q \in Nat, z \in Nat : q = StateOf(s, x).cumQty /\ z = StateOf(s, x).origSz
    BY StateOfTyped DEF States
  <2>2. StateOf(t, x).cumQty \in {q, q + 1} /\ StateOf(t, x).origSz = z
    BY <1>2, <1>5, <1>s, <2>n
  <2>3. StateOf(t, x).cumQty + (n - 1) <= StateOf(t, x).origSz
    BY <2>1, <2>2, <2>n
  <2> QED
    BY <2>1, <2>3 DEF Room
<1>11. Room(u, oid, n - 1)
  BY <1>9, <1>10, RoomSame
<1> QED
  BY <1>11, <1>u

(* An order that opens has room for as many fills as its size.             *)
LEMMA RoomOpened ==
  ASSUME NEW s, NEW own, Typed(s), NEW u, Genuine(u, own), u.status = "Open",
         NEW t, t = OnOrderUpdate(s, u), LookupClientOrderId(t, u.cloid) # NoClient,
         NEW n \in Nat, n <= u.origSz
  PROVE  Room(t, u.oid, n)
<1>c. PICK oid \in Nat, cloid \in Cloids, size \in Nat :
        oid = u.oid /\ cloid = u.cloid /\ size = u.origSz /\ Owns(own, oid, cloid)
  BY DEF Genuine
<1>r. PICK r : r = RegisterOid(s, oid, cloid)
  OBVIOUS
<1>a. PICK a : a = SetActiveOid(r, oid, cloid)
  OBVIOUS
<1>s. PICK state : state = StateOf(a, cloid)
  OBVIOUS
<1>n. PICK new : new = [state EXCEPT !.origSz = Larger(state.requestedQty, size), !.cumQty = 0]
  OBVIOUS
<1>b. PICK b : b = InitOrderState(a, cloid, size)
  OBVIOUS
<1>1. Typed(r) /\ Typed(a) /\ Typed(b)
  <2>1. Typed(r)
    BY <1>c, <1>r, RegisterOidSpares, SparesTyped
  <2>2. Typed(a)
    BY <1>c, <1>a, <2>1, SetActiveOidSpares, SparesTyped
  <2> QED
    BY <1>b, <2>1, <2>2, InitOrderStateSpares, SparesTyped
<1>2. a.oidToCloid = Put(r.oidToCloid, oid, cloid)
  <2>q. PICK q : q = RegisterOid(r, oid, cloid)
    OBVIOUS
  <2>1. Typed(q) /\ q = [r EXCEPT !.oidToCloid = Put(r.oidToCloid, oid, cloid)]
    BY <1>1, <1>c, <2>q, RegisterOidSpares, SparesTyped DEF RegisterOid
  <2>2. q.oidToCloid = Put(r.oidToCloid, oid, cloid)
    BY <1>1, <2>1 DEF Typed, Good, Fields
  <2>3. a = [q EXCEPT !.cloidToOid = Put(r.cloidToOid, cloid, oid)]
    BY <1>a, <2>q DEF SetActiveOid
  <2> QED
    BY <2>1, <2>2, <2>3 DEF Typed, Good, Fields
<1>3. b = [a EXCEPT !.cloidToState = Put(a.cloidToState, cloid, new)]
  BY <1>b, <1>n, <1>s DEF InitOrderState, SetState
<1>4. /\ b.oidToCloid = Put(r.oidToCloid, oid, cloid)
      /\ b.cloidToState = Put(a.cloidToState, cloid, new)
  BY <1>1, <1>2, <1>3 DEF Typed, Good, Fields
<1>5. state \in States /\ new.cumQty = 0 /\ new.origSz = Larger(state.requestedQty, size)
      /\ state.requestedQty \in Nat
  BY <1>1, <1>n, <1>s, StateOfTyped DEF States
<1>6. LookupCloidByOid(b, oid) = cloid /\ StateOf(b, cloid) = new
  BY <1>4 DEF LookupCloidByOid, StateOf, Put
<1>7. new.cumQty + n <= new.origSz
  BY <1>5, <1>c DEF Larger
<1>8. SameOrders(b, t)
  <2>1. t = ReportKnown(b, LookupClientOrderId(b, cloid), "NEW")
    BY <1>a, <1>b, <1>c, <1>r DEF OnOrderUpdate, OnOpen
  <2>2. LookupClientOrderId(b, cloid) \in Clients \cup {NoClient} /\ "NEW" \in ReportKinds
    BY <1>1, ClientTyped DEF ReportKinds
  <2>3. SameOrders(b, b)
    BY DEF SameOrders
  <2> QED
    BY <1>1, <2>1, <2>2, <2>3, RoomReported DEF ReportKnown
<1>9. LookupCloidByOid(t, oid) = cloid /\ StateOf(t, cloid) = new
  BY <1>6, <1>8 DEF SameOrders, LookupCloidByOid, StateOf
<1> QED
  BY <1>7, <1>9, <1>c DEF Room

LEMMA RoomTaken ==
  ASSUME NEW s, Typed(s), NEW oid, NEW n, NEW taken, Room(s, oid, n)
  PROVE  Room(TakeBuffered(s, taken), oid, n)
<1>t. PICK t, q : t = TakeBuffered(s, taken) /\ q = OtherFills(s.bufferedFills, taken)
  OBVIOUS
<1>1. t = [s EXCEPT !.bufferedFills = q]
  BY <1>t DEF TakeBuffered
<1>2. SameOrders(s, t)
  BY <1>1 DEF SameOrders, Typed, Good, Fields
<1> QED
  BY <1>2, <1>t, RoomSame

-----------------------------------------------------------------------------
(* The websocket's callbacks, when checkTimeouts finds nothing.            *)
LEMMA CheckedSame ==
  ASSUME IInv, FillInv, ~Timeouts, NEW own, OwnedBy(own), NEW checked \in AfterCheckTimeouts
  PROVE  /\ Typed(checked) /\ Placed(checked) /\ OidsOwned(checked, own)
         /\ \A c \in Clients : checked.told[c].filled = gw.told[c].filled
         /\ checked.bufferedFills = gw.bufferedFills
<1>1. /\ Typed(checked) /\ Placed(checked) /\ OidsOwned(checked, own)
      /\ \A c \in Clients : checked.told[c].filled = gw.told[c].filled
  BY CheckedSpares
<1>b. PICK b : b = gw.bufferedFills
  OBVIOUS
<1>n. PICK n \in Nat : n = Len(b)
  BY <1>b, LenProperties DEF FillInv, Typed
<1>2. Typed(gw) /\ b \in Seq(Fill) /\ 0 \in 0 .. n
  BY <1>b, <1>n DEF FillInv, Typed
<1>3. checked = CheckTimeouts(gw, 0, {})
  BY DEF AfterCheckTimeouts
<1>4. checked.bufferedFills = SubSeq(b, 0 + 1, n)
  BY <1>2, <1>3, <1>b, <1>n, CheckTimeoutsSpares
<1>t. PICK t : t = SubSeq(b, 1, n)
  OBVIOUS
<1>5. \A i \in 1 .. n : b[i] \in Fill
  BY <1>2, <1>n, ElementOfSeq
<1>6. t \in Seq(Fill) /\ Len(t) = n /\ \A i \in 1 .. n : t[i] = b[i]
  <2>1. /\ t \in Seq(Fill) /\ Len(t) = IF 1 <= n THEN n - 1 + 1 ELSE 0
        /\ \A i \in 1 .. n - 1 + 1 : t[i] = b[1 + i - 1]
    BY <1>5, <1>t, <1>n, SubSeqProperties
  <2>2. \A i \in 1 .. n : 1 + i - 1 = i
    OBVIOUS
  <2> QED
    BY <1>n, <2>1, <2>2
<1>7. t = b
  BY <1>2, <1>6, <1>n, SeqEqual
<1> QED
  BY <1>1, <1>4, <1>7, <1>b, <1>t

LEMMA PickedLen ==
  ASSUME NEW S, NEW s \in Seq(S), NEW P \in SUBSET DOMAIN s, NEW n \in Nat, n = Cardinality(P)
  PROVE  Len(Picked(s, P)) = n
<1>t. PICK t : t = Picked(s, P)
  OBVIOUS
<1>1. t \in Seq(S) /\ DOMAIN t = 1 .. n
  BY <1>t, PickedCount DEF Picked
<1>2. Len(t) \in Nat /\ DOMAIN t = 1 .. Len(t)
  BY <1>1, LenProperties
<1>3. Len(t) = n
  BY <1>1, <1>2
<1> QED
  BY <1>3, <1>t

(* The fills that replayBufferedFills takes are all of the oid.            *)
LEMMA AllOfOid ==
  ASSUME NEW b \in Seq(Fill), NEW oid, NEW P, P = FillsOfOid(b, oid), NEW t, t = Picked(b, P)
  PROVE  /\ t \in Seq(Fill) /\ Len(t) = CountOf(b, "oid", oid)
         /\ \A i \in 1 .. Len(t) : t[i].oid = oid
<1>1. P \in SUBSET DOMAIN b /\ \A i \in P : b[i].oid = oid
  BY DEF FillsOfOid
<1>2. \A i \in DOMAIN b : b[i].type = "fill"
  <2>1. DOMAIN b = 1 .. Len(b) /\ \A i \in 1 .. Len(b) : b[i] \in Fill
    BY ElementOfSeq, LenProperties
  <2> QED
    BY <2>1 DEF Fill
<1>3. CountedAt(b, "oid", oid) = P
  BY <1>2 DEF CountedAt, FillsOfOid
<1>n. PICK n : n = CountOf(b, "oid", oid)
  OBVIOUS
<1>4. n = Cardinality(P) /\ n \in Nat
  BY <1>3, <1>n, Counted
<1>5. Len(t) = n
  BY <1>1, <1>4, PickedLen
<1>6. t \in Seq(Fill) /\ \A k \in DOMAIN t : \E i \in P : t[k] = b[i]
  BY <1>1, PickedCount
<1>7. \A k \in 1 .. Len(t) : t[k].oid = oid
  BY <1>1, <1>6, LenProperties
<1> QED
  BY <1>5, <1>6, <1>7, <1>n

LEMMA UpdateCounts ==
  ASSUME IInv, FillInv, NEW i \in 1 .. Len(stream), stream[i].type = "update",
         stream' = RemoveAt(stream, i), NEW d, NEW x
  PROVE  CountOf(stream', d, x) = CountOf(stream, d, x) /\ CountOf(stream, d, x) \in Nat
<1>s. PICK s, t : s = stream /\ t = RemoveAt(s, i)
  OBVIOUS
<1>1. s \in Seq(Events) /\ t \in Seq(Events)
  BY <1>s, StreamTypes, RemoveAtWithin
<1>2. CountOf(s, d, x) \in Nat /\ CountOf(t, d, x) \in Nat
  BY <1>1, Counted
<1>3. CountOf(s, d, x) = CountOf(t, d, x) + OneOf(s[i], d, x)
  BY <1>1, <1>s, RemoveAtCount
<1>4. OneOf(s[i], d, x) = 0
  BY <1>s DEF OneOf, IsCounted
<1>5. CountOf(s, d, x) = CountOf(t, d, x)
  BY <1>2, <1>3, <1>4
<1> QED
  BY <1>2, <1>5, <1>s

(* What an order update leaves of the fills: it moves them, if any.        *)
Moves(b, o) ==
  \/ gw'.bufferedFills = OtherFills(b, o) /\ replaying' = Picked(b, FillsOfOid(b, o))
  \/ gw'.bufferedFills = b /\ replaying' = <<>>

LEMMA MoveCounts ==
  ASSUME NEW b \in Seq(Fill), NEW o, Moves(b, o), NEW d, NEW x
  PROVE  /\ CountOf(gw'.bufferedFills, d, x) \in Nat /\ CountOf(replaying', d, x) \in Nat
         /\ CountOf(gw'.bufferedFills, d, x) + CountOf(replaying', d, x) = CountOf(b, d, x)
<1>1. CASE gw'.bufferedFills = OtherFills(b, o) /\ replaying' = Picked(b, FillsOfOid(b, o))
  <2>p. PICK P : P = FillsOfOid(b, o)
    OBVIOUS
  <2>1. P \in SUBSET DOMAIN b
    BY <2>p DEF FillsOfOid
  <2>q. PICK q, r : q = Picked(b, DOMAIN b \ P) /\ r = Picked(b, P)
    OBVIOUS
  <2>2. CountOf(r, d, x) + CountOf(q, d, x) = CountOf(b, d, x)
        /\ CountOf(r, d, x) \in Nat /\ CountOf(q, d, x) \in Nat
    BY <2>1, <2>q, PickedSplit
  <2>3. gw'.bufferedFills = q /\ replaying' = r
    BY <1>1, <2>p, <2>q DEF OtherFills
  <2> QED
    BY <2>2, <2>3
<1>2. CASE gw'.bufferedFills = b /\ replaying' = <<>>
  <2>1. CountOf(b, d, x) \in Nat
    BY Counted
  <2>2. CountOf(replaying', d, x) = 0
    BY <1>2, NoneCount
  <2> QED
    BY <1>2, <2>1, <2>2
<1> QED
  BY <1>1, <1>2 DEF Moves

LEMMA UpdateConserves ==
  ASSUME IInv, FillInv, KeepInv, ~Timeouts, NEW i \in 1 .. Len(stream), OrderUpdateArrives(i)
  PROVE  KeepInv'
<1>0. Linked /\ Sized /\ NothingLost
  BY DEF KeepInv
<1>o. PICK own : OwnedBy(own)
  BY DEF FillInv
<1>u. PICK u, o : u = stream[i] /\ o = u.oid
  OBVIOUS
<1>1. /\ stream' = RemoveAt(stream, i) /\ u.type = "update" /\ replaying = <<>>
      /\ UNCHANGED <<book, seen, cloidOf, requests, link, connected, losses>>
  BY <1>u DEF OrderUpdateArrives, RestUnchanged, history
<1>2. u \in Events /\ Owns(own, u.oid, u.cloid)
  BY <1>o, <1>u, <1>1, StreamWithout
<1>3. Genuine(u, own)
  BY <1>1, <1>2 DEF Genuine, Events, Update, Fill
<1>4. PICK checked, s :
        /\ checked \in AfterCheckTimeouts
        /\ s = OnOrderUpdate(checked, u)
        /\ \/ /\ u.status = "Open" /\ LookupClientOrderId(s, u.cloid) # NoClient
              /\ gw' = TakeBuffered(s, o)
              /\ replaying' = Picked(s.bufferedFills, FillsOfOid(s.bufferedFills, o))
           \/ gw' = s /\ replaying' = <<>>
  BY <1>u DEF OrderUpdateArrives
<1>5. /\ Typed(checked)
      /\ \A c \in Clients : checked.told[c].filled = gw.told[c].filled
      /\ checked.bufferedFills = gw.bufferedFills
  BY <1>o, <1>4, CheckedSame
<1>6. Spares(checked, s, own)
  BY <1>3, <1>4, <1>5, OnOrderUpdateSpares
<1>b. PICK b : b = s.bufferedFills
  OBVIOUS
<1>7. /\ Typed(s) /\ b = gw.bufferedFills /\ b \in Seq(Fill)
      /\ \A c \in Clients : s.told[c].filled = gw.told[c].filled
  BY <1>5, <1>6, <1>b DEF Spares, Typed
<1>8. Moves(b, o) /\ gw'.told = s.told
  <2>1. CASE gw' = TakeBuffered(s, o)
    <3>t. PICK P, t : P = FillsOfOid(b, o) /\ t = TakeBuffered(s, o)
      OBVIOUS
    <3>1. Typed(s)
      BY <1>7
    <3>2. Takes(s, t, b, P)
      BY <1>b, <3>1, <3>t, Taken
    <3>3. t.told = s.told /\ t.bufferedFills = OtherFills(b, o)
      BY <3>2, <3>t DEF Takes, OtherFills
    <3>4. gw' = t
      BY <2>1, <3>t
    <3>5. gw'.bufferedFills = b => replaying' = <<>> \/ replaying' = Picked(b, FillsOfOid(b, o))
      BY <1>4, <1>b
    <3> QED
      BY <1>4, <1>b, <3>3, <3>4, <3>5 DEF Moves
  <2>2. CASE gw' = s /\ replaying' = <<>>
    BY <1>b, <2>2 DEF Moves
  <2> QED
    BY <1>4, <2>1, <2>2
<1>9. \A d, x : /\ CountOf(gw'.bufferedFills, d, x) \in Nat /\ CountOf(replaying', d, x) \in Nat
                /\ CountOf(gw'.bufferedFills, d, x) + CountOf(replaying', d, x) = CountOf(b, d, x)
                /\ CountOf(stream', d, x) = CountOf(stream, d, x) /\ CountOf(stream, d, x) \in Nat
  BY <1>1, <1>7, <1>8, <1>u, MoveCounts, UpdateCounts
<1>10. Linked'
  BY <1>0, <1>1, LinkedKeeps
<1>11. Sized'
  <2>s. PICK st, buffer : st = stream' /\ buffer = gw'.bufferedFills
    OBVIOUS
  <2>1. ASSUME NEW x
        PROVE  /\ Under(st, buffer, x) \in Nat
               /\ Under(st, buffer, x) <= Under(stream, gw.bufferedFills, x)
    <3>n. PICK k \in Nat, m \in Nat, n \in Nat :
            /\ k = CountOf(stream, "oid", x) /\ m = CountOf(buffer, "oid", x)
            /\ n = CountOf(replaying', "oid", x)
      BY <1>9, <2>s
    <3>1. CountOf(gw.bufferedFills, "oid", x) = m + n /\ CountOf(st, "oid", x) = k
      BY <1>7, <1>9, <2>s, <3>n
    <3>2. Under(st, buffer, x) = k + m /\ Under(stream, gw.bufferedFills, x) = k + (m + n)
      BY <3>1, <3>n DEF Under
    <3> QED
      BY <3>2
  <2>2. Within(stream', stream)
    BY <1>1, StreamTypes, RemoveAtWithin
  <2> QED
    BY <1>0, <1>1, <2>1, <2>2, <2>s, SizedShrinks
<1>12. NothingLost'
  <2>1. ASSUME NEW y
        PROVE  OnTheirWay(y)' = OnTheirWay(y)
    <3>n. PICK k \in Nat, m \in Nat, n \in Nat :
            /\ k = FillsOf(stream, y) /\ m = FillsOf(gw'.bufferedFills, y)
            /\ n = FillsOf(replaying', y)
      BY <1>9, FillsAreCounted
    <3>1. /\ FillsOf(gw.bufferedFills, y) = m + n /\ FillsOf(stream', y) = k
          /\ FillsOf(replaying, y) = 0
      BY <1>1, <1>7, <1>9, <3>n, FillsAreCounted, NoneCount
    <3>2. OnTheirWay(y)' = k + m + n /\ OnTheirWay(y) = k + (m + n) + 0
      BY <3>1, <3>n DEF OnTheirWay
    <3> QED
      BY <3>2
  <2>2. Stays
    BY <1>1, <1>7, <1>8, <2>1 DEF Stays
  <2> QED
    BY <1>0, <2>2, StayConserves
<1>13. Replayed'
  <2>1. CASE replaying' = <<>>
    <3>1. 1 .. Len(replaying') = {}
      BY <2>1
    <3> QED
      BY <3>1 DEF Replayed
  <2>2. CASE /\ u.status = "Open" /\ LookupClientOrderId(s, u.cloid) # NoClient
             /\ gw' = TakeBuffered(s, o) /\ replaying' = Picked(b, FillsOfOid(b, o))
    <3>t. PICK t, P, n : t = Picked(b, P) /\ P = FillsOfOid(b, o) /\ n = Len(t)
      OBVIOUS
    <3>1. n = CountOf(b, "oid", o) /\ \A k \in 1 .. Len(t) : t[k].oid = o
      BY <1>7, <3>t, AllOfOid
    <3>2. n \in Nat /\ n <= u.origSz
      <4>n. PICK k \in Nat, m \in Nat, q \in Nat :
              k = CountOf(stream, "oid", o) /\ m = CountOf(b, "oid", o) /\ q = u.origSz
        BY <1>3, <1>7, UnderCounted DEF Genuine
      <4>1. IsOpen(u)
        BY <1>1, <2>2 DEF IsOpen
      <4>2. Under(stream, b, o) <= q
        BY <1>0, <1>7, <1>u, <4>1, <4>n DEF Sized, FitsSizes
      <4>3. Under(stream, b, o) = k + m
        BY <4>n DEF Under
      <4>4. m <= q
        BY <4>2, <4>3
      <4> QED
        BY <3>1, <4>4, <4>n
    <3>3. Room(s, o, n)
      BY <1>3, <1>4, <1>5, <1>u, <2>2, <3>2, RoomOpened
    <3>4. Room(TakeBuffered(s, o), o, n)
      BY <1>7, <3>3, RoomTaken
    <3>g. PICK g, r : g = gw' /\ r = replaying'
      OBVIOUS
    <3>5. g = TakeBuffered(s, o) /\ r = t
      BY <2>2, <3>g, <3>t
    <3>6. \A k \in 1 .. Len(r) : Room(g, r[k].oid, Len(r))
      BY <3>1, <3>4, <3>5, <3>t
    <3> QED
      BY <3>6, <3>g DEF Replayed
  <2> QED
    BY <1>4, <1>b, <2>1, <2>2
<1> QED
  BY <1>10, <1>11, <1>12, <1>13 DEF KeepInv

LEMMA ArrivalCounts ==
  ASSUME IInv, FillInv, NEW i \in 1 .. Len(stream), stream' = RemoveAt(stream, i),
         NEW f, f = stream[i], NEW d, NEW x
  PROVE  /\ CountOf(stream', d, x) \in Nat /\ OneOf(f, d, x) \in {0, 1}
         /\ CountOf(stream, d, x) = CountOf(stream', d, x) + OneOf(f, d, x)
<1>s. PICK s, t : s = stream /\ t = RemoveAt(s, i)
  OBVIOUS
<1>1. s \in Seq(Events) /\ t \in Seq(Events)
  BY <1>s, StreamTypes, RemoveAtWithin
<1>2. CountOf(t, d, x) \in Nat
  BY <1>1, Counted
<1>3. CountOf(s, d, x) = CountOf(t, d, x) + OneOf(s[i], d, x)
  BY <1>1, <1>s, RemoveAtCount
<1>4. OneOf(f, d, x) \in {0, 1}
  BY DEF OneOf
<1> QED
  BY <1>2, <1>3, <1>4, <1>s

LEMMA UserFillConserves ==
  ASSUME IInv, FillInv, KeepInv, ~Timeouts, NEW i \in 1 .. Len(stream), UserFillArrives(i)
  PROVE  KeepInv'
<1>0. Linked /\ Sized /\ NothingLost
  BY DEF KeepInv
<1>o. PICK own : OwnedBy(own)
  BY DEF FillInv
<1>f. PICK f, b : f = stream[i] /\ b = gw.bufferedFills
  OBVIOUS
<1>1. /\ stream' = RemoveAt(stream, i) /\ f.type = "fill" /\ replaying = <<>>
      /\ replaying' = replaying
      /\ UNCHANGED <<book, seen, cloidOf, requests, link, connected, losses>>
  BY <1>f DEF UserFillArrives, RestUnchanged, history
<1>2. f \in Events /\ Owns(own, f.oid, f.cloid)
  BY <1>o, <1>f, <1>1, StreamWithout
<1>3. f \in Fill
  BY <1>1, <1>2 DEF Events, Update
<1>4. PICK s \in AfterCheckTimeouts : gw' = OnUserFill(s, f)
  BY <1>f DEF UserFillArrives
<1>5. /\ Typed(s) /\ Placed(s) /\ OidsOwned(s, own) /\ s.bufferedFills = b /\ b \in Seq(Fill)
      /\ \A c \in Clients : s.told[c].filled = gw.told[c].filled
  BY <1>o, <1>f, CheckedSame DEF Typed
<1>c. PICK client, cloid :
        client = LookupClientOrderIdByOid(s, f.oid) /\ cloid = LookupCloidByOid(s, f.oid)
  OBVIOUS
<1>6. \A d, x : /\ CountOf(stream', d, x) \in Nat /\ OneOf(f, d, x) \in {0, 1}
                /\ CountOf(stream, d, x) = CountOf(stream', d, x) + OneOf(f, d, x)
                /\ CountOf(b, d, x) \in Nat
  BY <1>1, <1>5, <1>f, ArrivalCounts, Counted
<1>7. ASSUME client = NoClient
      PROVE  /\ NothingLost'
             /\ \A x : CountOf(gw'.bufferedFills, "oid", x) =
                        CountOf(b, "oid", x) + OneOf(f, "oid", x)
  <2>t. PICK t : t = BufferFill(s, f)
    OBVIOUS
  <2>1. gw' = t
    BY <1>4, <1>7, <1>c, <2>t DEF OnUserFill
  <2>2. t.bufferedFills = Append(b, f) /\ t.told = s.told
    BY <1>5, <2>t DEF BufferFill, Typed, Good, Fields
  <2>3. \A d, x : CountOf(t.bufferedFills, d, x) = CountOf(b, d, x) + OneOf(f, d, x)
    BY <1>3, <1>5, <2>2, AppendCount
  <2>4. Stays
    <3>1. ASSUME NEW y
          PROVE  OnTheirWay(y)' = OnTheirWay(y)
      <4>n. PICK k \in Nat, m \in Nat, n \in Nat, one \in {0, 1} :
              /\ k = FillsOf(stream', y) /\ m = FillsOf(gw.bufferedFills, y)
              /\ n = FillsOf(replaying, y) /\ one = OneOf(f, "cloid", y)
        BY <1>6, WayCounted, FillsAreCounted
      <4>1. FillsOf(stream, y) = k + one /\ FillsOf(gw'.bufferedFills, y) = m + one
        BY <1>6, <1>f, <2>1, <2>3, <4>n, FillsAreCounted
      <4>2. OnTheirWay(y)' = k + (m + one) + n /\ OnTheirWay(y) = (k + one) + m + n
        BY <1>1, <4>1, <4>n DEF OnTheirWay
      <4> QED
        BY <4>2
    <3> QED
      BY <1>1, <1>5, <2>1, <2>2, <3>1 DEF Stays
  <2>5. \A x : CountOf(gw'.bufferedFills, "oid", x) = CountOf(b, "oid", x) + OneOf(f, "oid", x)
    BY <2>1, <2>3
  <2> QED
    BY <1>0, <2>4, <2>5, StayConserves
<1>8. ASSUME client # NoClient
      PROVE  NothingLost' /\ gw'.bufferedFills = b
  <2>1. gw' = EmitFill(s, client, cloid)
    BY <1>4, <1>8, <1>c DEF OnUserFill
  <2>x. PICK oid, x : oid = f.oid /\ x = f.cloid
    OBVIOUS
  <2>2. /\ client \in Clients \cup {NoClient} /\ cloid \in AnyCloid
        /\ client \in Entered /\ cloidOf[client] = f.cloid
    BY <1>2, <1>5, <1>8, <1>c, <2>x, WhoHears
  <2>3. Passes(s, gw', client) /\ gw'.bufferedFills = b
    BY <1>5, <2>1, <2>2, EmitFillPasses
  <2>4. Passes(gw, gw', client)
    BY <1>5, <2>3 DEF Passes
  <2>5. ASSUME NEW y
        PROVE  OnTheirWay(y)' \in Nat /\ OnTheirWay(y)' + One(f, y) = OnTheirWay(y)
    <3>n. PICK k \in Nat, m \in Nat, n \in Nat, one \in {0, 1} :
            /\ k = FillsOf(stream', y) /\ m = FillsOf(gw.bufferedFills, y)
            /\ n = FillsOf(replaying, y) /\ one = OneOf(f, "cloid", y)
      BY <1>6, WayCounted, FillsAreCounted
    <3>1. FillsOf(stream, y) = k + one /\ One(f, y) = one
      BY <1>6, <3>n, FillsAreCounted, OneIsCounted
    <3>2. OnTheirWay(y)' = k + m + n /\ OnTheirWay(y) = (k + one) + m + n
      BY <1>1, <1>f, <2>3, <3>1, <3>n DEF OnTheirWay
    <3> QED
      BY <3>1, <3>2
  <2>6. Reaches(f, client)
    BY <1>1, <2>2, <2>4, <2>5 DEF Reaches
  <2> QED
    BY <1>0, <2>3, <2>6, ReachConserves
<1>9. Sized'
  <2>s. PICK st, buffer : st = stream' /\ buffer = gw'.bufferedFills
    OBVIOUS
  <2>1. ASSUME NEW x
        PROVE  /\ Under(st, buffer, x) \in Nat
               /\ Under(st, buffer, x) <= Under(stream, gw.bufferedFills, x)
    <3>n. PICK k \in Nat, m \in Nat, one \in {0, 1} :
            /\ k = CountOf(st, "oid", x) /\ m = CountOf(b, "oid", x) /\ one = OneOf(f, "oid", x)
            /\ CountOf(stream, "oid", x) = k + one
      BY <1>6, <2>s
    <3>1. CountOf(buffer, "oid", x) \in {m, m + one}
      BY <1>7, <1>8, <2>s, <3>n
    <3>2. Under(stream, gw.bufferedFills, x) = (k + one) + m
      BY <1>f, <3>n DEF Under
    <3>3. Under(st, buffer, x) \in {k + m, k + (m + one)}
      BY <3>1, <3>n DEF Under
    <3> QED
      BY <3>2, <3>3
  <2>2. Within(stream', stream)
    BY <1>1, StreamTypes, RemoveAtWithin
  <2> QED
    BY <1>0, <1>1, <2>1, <2>2, <2>s, SizedShrinks
<1>10. Replayed'
  <2>1. 1 .. Len(replaying') = {}
    BY <1>1
  <2> QED
    BY <2>1 DEF Replayed
<1>11. Linked'
  BY <1>0, <1>1, LinkedKeeps
<1> QED
  BY <1>7, <1>8, <1>9, <1>10, <1>11 DEF KeepInv

(* What is replayed finds its order, as there is room for all of it.       *)
LEMMA ReplayConserves ==
  ASSUME IInv, FillInv, KeepInv, ReplayFill
  PROVE  KeepInv'
<1>0. Linked /\ Sized /\ NothingLost /\ Replayed
  BY DEF KeepInv
<1>o. PICK own : OwnedBy(own)
  BY DEF FillInv
<1>f. PICK f, r : f = Head(replaying) /\ r = replaying
  OBVIOUS
<1>c. PICK client, cloid :
        client = LookupClientOrderIdByOid(gw, f.oid) /\ cloid = LookupCloidByOid(gw, f.oid)
  OBVIOUS
<1>1. /\ r # <<>> /\ replaying' = Tail(r) /\ gw' = EmitFill(gw, client, cloid)
      /\ UNCHANGED <<stream, book, seen, cloidOf, requests, link, connected, losses>>
  BY <1>c, <1>f DEF ReplayFill, RestUnchanged, history, exchangeVars
<1>2. Typed(gw) /\ r \in Seq(Fill) /\ Placed(gw) /\ OidsOwned(gw, own)
  BY <1>o, <1>f, GatewayPlaced DEF FillInv, OwnedBy
<1>n. PICK n \in Nat : n = Len(r) /\ n # 0 /\ 1 \in 1 .. n
  <2>1. Len(r) \in Nat /\ Len(r) # 0
    BY <1>1, <1>2, EmptySeq, LenProperties
  <2> QED
    BY <2>1
<1>3. f = r[1] /\ f \in Fill /\ f.type = "fill" /\ Owns(own, f.oid, f.cloid)
  <2>1. f = r[1] /\ r[1] \in Fill
    BY <1>1, <1>2, <1>f, <1>n, ElementOfSeq
  <2> QED
    BY <1>o, <1>f, <1>n, <2>1 DEF OwnedBy, Fill
<1>t. PICK t : t = Tail(r)
  OBVIOUS
<1>4. t \in Seq(Fill) /\ Len(t) = n - 1 /\ \A i \in 1 .. n - 1 : t[i] = r[i + 1]
  BY <1>1, <1>2, <1>n, <1>t, HeadTailProperties
<1>5. \A i \in 1 .. n : Room(gw, r[i].oid, n)
  BY <1>0, <1>f, <1>n DEF Replayed
<1>6. Room(gw, f.oid, n) /\ client = LookupClientOrderId(gw, cloid) /\ client # NoClient
  BY <1>3, <1>5, <1>c, <1>n DEF Room, LookupClientOrderIdByOid
<1>7. /\ client \in Clients \cup {NoClient} /\ cloid \in AnyCloid
      /\ client \in Entered /\ cloidOf[client] = f.cloid
  <2>x. PICK oid, x : oid = f.oid /\ x = f.cloid
    OBVIOUS
  <2> QED
    BY <1>2, <1>3, <1>6, <1>c, <2>x, WhoHears
<1>8. Passes(gw, gw', client) /\ gw'.bufferedFills = gw.bufferedFills
  BY <1>1, <1>2, <1>7, EmitFillPasses
<1>9. NothingLost'
  <2>1. ASSUME NEW y
        PROVE  OnTheirWay(y)' \in Nat /\ OnTheirWay(y)' + One(f, y) = OnTheirWay(y)
    <3>n. PICK k \in Nat, m \in Nat, q \in Nat, one \in {0, 1} :
            /\ k = FillsOf(stream, y) /\ m = FillsOf(gw.bufferedFills, y)
            /\ q = FillsOf(t, y) /\ one = One(f, y)
      <4>1. FillsOf(t, y) \in Nat
        BY <1>4, FillsCounted
      <4>2. One(f, y) \in {0, 1}
        BY DEF One
      <4> QED
        BY <4>1, <4>2, WayCounted
    <3>1. FillsOf(r, y) = q + one
      BY <1>1, <1>2, <1>f, <1>t, <3>n, TailCounts
    <3>2. OnTheirWay(y)' = k + m + q /\ OnTheirWay(y) = k + m + (q + one)
      BY <1>1, <1>8, <1>f, <1>t, <3>1, <3>n DEF OnTheirWay
    <3> QED
      BY <3>2, <3>n
  <2>2. Reaches(f, client)
    BY <1>1, <1>3, <1>7, <1>8, <2>1 DEF Reaches
  <2> QED
    BY <1>0, <2>2, ReachConserves
<1>10. Sized' /\ Linked'
  BY <1>0, <1>1, <1>8, LinkedKeeps DEF Sized
<1>11. Replayed'
  <2>g. PICK g, h : g = gw' /\ h = f.oid
    OBVIOUS
  <2>1. ASSUME NEW i \in 1 .. n - 1
        PROVE  Room(g, t[i].oid, n - 1)
    <3>p. PICK p : p = t[i].oid
      OBVIOUS
    <3>1. n > 1 /\ i + 1 \in 1 .. n /\ p = r[i + 1].oid
      BY <1>4, <1>n, <2>1, <3>p
    <3>2. Room(gw, p, n) /\ Room(gw, h, n)
      BY <1>5, <1>6, <2>g, <3>1
    <3>3. Room(EmitFill(gw, client, cloid), p, n - 1)
      BY <1>2, <1>6, <1>c, <2>g, <3>1, <3>2, RoomFilled
    <3> QED
      BY <1>1, <2>g, <3>3, <3>p
  <2>2. \A i \in 1 .. Len(t) : Room(g, t[i].oid, Len(t))
    BY <1>4, <2>1
  <2> QED
    BY <1>1, <1>t, <2>2, <2>g DEF Replayed
<1> QED
  BY <1>9, <1>10, <1>11 DEF KeepInv

(* Steps that tell nobody of a fill and leave every fill where it is.      *)
Quiet(t) ==
  /\ UNCHANGED <<book, stream, replaying, connected, losses>>
  /\ link' = link /\ (requests' = requests \/ link)
  /\ t = gw' /\ t.bufferedFills = gw.bufferedFills
  /\ \A c \in Clients : t.told[c].filled = gw.told[c].filled
  /\ \A oid, n : Room(gw, oid, n) => Room(t, oid, n)
  /\ \A c \in Clients : seen'[c] = "entered" =>
       \/ seen[c] = "entered" /\ cloidOf'[c] = cloidOf[c]
       \/ cloidOf'[c] \in Cloids /\ book[cloidOf'[c]].filled = 0

LEMMA QuietConserves ==
  ASSUME IInv, FillInv, KeepInv, NEW t, Quiet(t)
  PROVE  KeepInv'
<1>0. Linked /\ Sized /\ Replayed /\ NothingLost
  BY DEF KeepInv
<1>1. Linked' /\ Sized'
  BY <1>0, LinkedKeeps DEF Quiet, Sized
<1>2. Replayed'
  BY <1>0 DEF Quiet, Replayed
<1>3. \A y : OnTheirWay(y)' = OnTheirWay(y)
  BY DEF Quiet, OnTheirWay
<1>4. ASSUME NEW c \in Clients, seen'[c] = "entered"
      PROVE  book[cloidOf'[c]].filled <= gw'.told[c].filled + OnTheirWay(cloidOf[c])'
  <2>y. PICK y : y = cloidOf'[c]
    OBVIOUS
  <2>1. gw'.told[c].filled = gw.told[c].filled /\ OnTheirWay(y)' = OnTheirWay(y)
    BY <1>3 DEF Quiet
  <2>2. book[y].filled <= gw.told[c].filled + OnTheirWay(y)
    <3>1. CASE seen[c] = "entered" /\ y = cloidOf[c]
      BY <1>0, <3>1 DEF NothingLost, Entered
    <3>2. CASE y \in Cloids /\ book[y].filled = 0
      <4>n. PICK n \in Nat, w \in Nat : n = gw.told[c].filled /\ w = OnTheirWay(y)
        BY ToldTyped, WayCounted
      <4>1. 0 <= n + w
        OBVIOUS
      <4> QED
        BY <3>2, <4>1, <4>n
    <3> QED
      BY <1>4, <2>y, <3>1, <3>2 DEF Quiet
  <2>3. book[y].filled <= gw'.told[c].filled + OnTheirWay(y)'
    BY <2>1, <2>2
  <2> QED
    BY <2>3, <2>y
<1>5. NothingLost'
  BY <1>4 DEF NothingLost, Entered, Quiet
<1> QED
  BY <1>1, <1>2, <1>5 DEF KeepInv

(* Nothing moves but what a report, or an amend, changes.                  *)
Settled(t) ==
  /\ UNCHANGED <<book, stream, replaying, connected, losses, seen, cloidOf>>
  /\ link' = link /\ (requests' = requests \/ link)
  /\ t = gw'

LEMMA SettledConserves ==
  ASSUME IInv, FillInv, KeepInv, NEW t, Settled(t), NEW own, Spares(gw, t, own),
         \A oid, n : Room(gw, oid, n) => Room(t, oid, n)
  PROVE  KeepInv'
<1>1. Quiet(t)
  BY DEF Settled, Spares, Quiet
<1> QED
  BY <1>1, QuietConserves

LEMMA ReportQuiet ==
  ASSUME FillInv, NEW c \in Clients \cup {NoClient}, NEW report \in ReportKinds \ FillReports,
         NEW own, NEW t, t = gw \/ t = Report(gw, c, report)
  PROVE  Spares(gw, t, own) /\ \A oid, n : Room(gw, oid, n) => Room(t, oid, n)
<1>0. Typed(gw) /\ report \in ReportKinds
  BY DEF FillInv
<1>1. Spares(gw, t, own)
  BY <1>0, SparesSelf, ReportSpares
<1>2. SameOrders(gw, t)
  <2>1. SameOrders(gw, gw)
    BY DEF SameOrders
  <2>2. SameOrders(gw, Report(gw, c, report))
    BY <1>0, RoomReported
  <2> QED
    BY <2>1, <2>2
<1>3. ASSUME NEW oid, NEW n, Room(gw, oid, n)
      PROVE  Room(t, oid, n)
  BY <1>2, <1>3, RoomSame
<1> QED
  BY <1>1, <1>3

(* A response finds nothing being replayed.                                *)
LEMMA ResponseConserves ==
  ASSUME IInv, FillInv, KeepInv, NEW r \in responses, ResponseArrives(r)
  PROVE  KeepInv'
<1>0. Linked /\ Sized /\ Replayed /\ NothingLost
  BY DEF KeepInv
<1>o. PICK own : OwnedBy(own)
  BY DEF FillInv
<1>c. PICK cloid : cloid = PendingCloid(r)
  OBVIOUS
<1>1. /\ gw' \in {OnPlaceOrder(gw, r.result, cloid), OnModifyOrder(gw, r.result, cloid),
                  OnCancelOrder(gw, r.result, cloid)}
      /\ UNCHANGED <<book, seen, cloidOf, stream, replaying, requests, link, connected, losses>>
      /\ replaying = <<>>
  BY <1>c DEF ResponseArrives, RestUnchanged, history
<1>2. Spares(gw, gw', own)
  BY <1>1, ResponseSpares DEF FillInv
<1>3. Linked' /\ Sized'
  BY <1>0, <1>1, <1>2, LinkedKeeps DEF Spares, Sized
<1>4. Replayed'
  <2>1. 1 .. Len(replaying') = {}
    BY <1>1
  <2> QED
    BY <2>1 DEF Replayed
<1>5. Stays
  BY <1>1, <1>2 DEF Spares, Stays, OnTheirWay
<1> QED
  BY <1>0, <1>3, <1>4, <1>5, StayConserves DEF KeepInv

LEMMA WebsocketConserves ==
  ASSUME IInv, FillInv, KeepInv, ~Timeouts, WebsocketStep
  PROVE  KeepInv'
<1>0. Linked /\ Sized /\ Replayed /\ NothingLost
  BY DEF KeepInv
<1>1. CASE OnConnected
  <2>1. /\ UNCHANGED <<book, seen, cloidOf, stream, replaying, gw, losses>>
        /\ link' = TRUE /\ connected' = TRUE
    BY <1>1 DEF OnConnected, RestUnchanged, history
  <2>2. Linked'
    BY <1>0, <2>1 DEF Linked
  <2> QED
    BY <1>0, <2>1, <2>2 DEF KeepInv, Sized, Replayed, NothingLost, OnTheirWay, Entered
<1>2. ~OnDisconnected
  BY <1>0 DEF OnDisconnected, Linked
<1>3. CASE \E i \in 1 .. Len(stream) : OrderUpdateArrives(i) \/ UserFillArrives(i)
  BY <1>3, UpdateConserves, UserFillConserves
<1> QED
  BY <1>1, <1>2, <1>3, ReplayConserves, ResponseConserves DEF WebsocketStep

LEMMA LinkBreaksNot ==
  ASSUME IInv, KeepInv, MaxDisconnects = 0
  PROVE  ~LinkBreaks
BY DEF KeepInv, Linked, LinkBreaks

-----------------------------------------------------------------------------
(* The main thread: what it changes of an order leaves room for its fills. *)
LEMMA UnsentUnfilled ==
  ASSUME IInv, FillInv, nextCloid \in Cloids
  PROVE  book[nextCloid].filled = 0
<1>1. nextCloid >= nextCloid
  <2>1. nextCloid \in Nat
    BY DEF IInv, TypesOK, MapsInv
  <2> QED
    BY <2>1
<1>2. book[nextCloid].state = "unknown"
  BY <1>1 DEF IInv, GhostInv, Ghost, NeverSent
<1> QED
  BY <1>2 DEF FillInv, PlaceInv

LEMMA MainStepConserves ==
  ASSUME IInv, FillInv, KeepInv, MainStep
  PROVE  KeepInv'
<1>o. PICK own : OwnedBy(own)
  BY DEF FillInv
<1>t. PICK t : t = gw'
  OBVIOUS
<1>1. UNCHANGED <<book, stream, replaying, connected, losses, seen, cloidOf>> /\ link' = link
  BY DEF MainStep, PlaceOrder, PlaceOrderThrows, ModifyOrder, CancelOrderByCloid, CancelOrderFails,
         HandlerDone, WebsocketUnchanged, history
<1>2. requests' = requests \/ link
  BY DEF MainStep, PlaceOrder, PlaceOrderThrows, ModifyOrder, CancelOrderByCloid, CancelOrderFails,
         Post
<1>3. Settled(t)
  BY <1>1, <1>2, <1>t DEF Settled
<1>4. /\ Typed(gw) /\ main.client \in Clients \cup {NoClient} /\ main.cloid \in AnyCloid
      /\ main.qty \in Nat /\ main.ioc \in BOOLEAN
  <2>1. main.client \in Clients \cup {NoClient} /\ main.cloid \in AnyCloid
        /\ main.qty \in Quantities \cup {0} /\ main.ioc \in BOOLEAN
    BY DEF IInv, TypesOK, Handlers
  <2>2. Quantities \cup {0} \subseteq Nat
    BY ExchangeAssumption
  <2> QED
    BY <2>1, <2>2 DEF FillInv
<1>5. CASE t = EnterAmend(gw, main.cloid, main.qty, main.ioc)
  <2>1. Spares(gw, t, own)
    BY <1>4, <1>5, EnterAmendSpares
  <2>2. \A oid, n : Room(gw, oid, n) => Room(t, oid, n)
    BY <1>4, <1>5, RoomAmended
  <2> QED
    BY <1>3, <2>1, <2>2, SettledConserves
<1>6. CASE \/ t = gw
           \/ t = Report(gw, main.client, "REJECTED")
           \/ t = Report(gw, main.client, "CancelReject")
  <2>1. PICK report \in ReportKinds \ FillReports : t = gw \/ t = Report(gw, main.client, report)
    BY <1>6, EndReports
  <2>2. Spares(gw, t, own) /\ \A oid, n : Room(gw, oid, n) => Room(t, oid, n)
    BY <1>4, <2>1, ReportQuiet
  <2> QED
    BY <1>3, <2>2, SettledConserves
<1> QED
  BY <1>5, <1>6, <1>t
     DEF MainStep, PlaceOrder, PlaceOrderThrows, ModifyOrder, CancelOrderByCloid, CancelOrderFails

LEMMA EnterConserves ==
  ASSUME IInv, FillInv, KeepInv, NEW c \in Clients, EnterNewOrder(c), Good(gw')
  PROVE  KeepInv'
<1>o. PICK own : OwnedBy(own)
  BY DEF FillInv
<1>t. PICK t : t = gw'
  OBVIOUS
<1>1. /\ UNCHANGED <<book, stream, replaying, connected, losses>>
      /\ link' = link /\ requests' = requests
      /\ nextCloid \in Cloids /\ seen' = [seen EXCEPT ![c] = "entered"]
      /\ cloidOf' = [cloidOf EXCEPT ![c] = nextCloid]
      /\ \E qty \in Quantities, ioc \in BOOLEAN : gw' = AddOrder(gw, c, nextCloid, qty, ioc)
  BY DEF EnterNewOrder, WebsocketUnchanged, exchangeVars
<1>2. PICK qty, ioc : qty \in Nat /\ ioc \in BOOLEAN /\ t = AddOrder(gw, c, nextCloid, qty, ioc)
  BY <1>1, <1>t, ExchangeAssumption
<1>3. Typed(gw) /\ Good(t)
  BY <1>t DEF FillInv
<1>4. Spares(gw, t, own)
  BY <1>1, <1>2, <1>3, AddOrderSpares
<1>5. \A oid, n : Room(gw, oid, n) => Room(t, oid, n)
  BY <1>2, <1>3, RoomEntered
<1>6. \A d \in Clients : seen'[d] = "entered" =>
        \/ seen[d] = "entered" /\ cloidOf'[d] = cloidOf[d]
        \/ cloidOf'[d] \in Cloids /\ book[cloidOf'[d]].filled = 0
  <2>1. cloidOf \in [Clients -> AnyCloid] /\ book[nextCloid].filled = 0
    BY <1>1, HandlerTypes, UnsentUnfilled
  <2>2. ASSUME NEW d \in Clients, seen'[d] = "entered"
        PROVE  \/ seen[d] = "entered" /\ cloidOf'[d] = cloidOf[d]
               \/ cloidOf'[d] \in Cloids /\ book[cloidOf'[d]].filled = 0
    <3>1. CASE d = c
      BY <1>1, <2>1, <3>1
    <3>2. CASE d # c
      BY <1>1, <2>1, <2>2, <3>2
    <3> QED
      BY <3>1, <3>2
  <2> QED
    BY <2>2
<1>7. Quiet(t)
  BY <1>1, <1>4, <1>5, <1>6, <1>t DEF Spares, Quiet
<1> QED
  BY <1>7, QuietConserves

LEMMA MainConserves ==
  ASSUME IInv, FillInv, KeepInv, MainNext
  PROVE  KeepInv'
<1>o. PICK own : OwnedBy(own)
  BY DEF FillInv
<1>t. PICK t : t = gw'
  OBVIOUS
<1>1. CASE EndReplay
  <2>1. UNCHANGED <<book, stream, replaying, connected, losses, seen, cloidOf, link, requests, gw>>
    BY <1>1 DEF EndReplay, WebsocketUnchanged, exchangeVars, history
  <2> QED
    BY <2>1 DEF KeepInv, Linked, Sized, Replayed, NothingLost, OnTheirWay, Entered
<1>2. ASSUME NEW c \in Clients, IgnoreNewOrder(c) \/ RejectNewOrder(c)
      PROVE  KeepInv'
  <2>1. /\ UNCHANGED <<book, stream, replaying, connected, losses>>
        /\ link' = link /\ requests' = requests /\ cloidOf' = cloidOf
        /\ \E fate \in {"ignored", "rejected"} : seen' = [seen EXCEPT ![c] = fate]
        /\ t = gw \/ t = Report(gw, c, "REJECTED")
    BY <1>2, <1>t DEF IgnoreNewOrder, RejectNewOrder, WebsocketUnchanged, exchangeVars
  <2>2. Spares(gw, t, own) /\ \A oid, n : Room(gw, oid, n) => Room(t, oid, n)
    <3>1. c \in Clients \cup {NoClient}
      OBVIOUS
    <3> QED
      BY <2>1, <3>1, EndReports, ReportQuiet
  <2>3. \A d \in Clients : seen'[d] = "entered" => seen[d] = "entered"
    BY <2>1
  <2>4. Quiet(t)
    BY <1>t, <2>1, <2>2, <2>3 DEF Spares, Quiet
  <2> QED
    BY <2>4, QuietConserves
<1>3. ASSUME NEW c \in Clients, EnterNewOrder(c)
      PROVE  KeepInv'
  <2>1. MapsInv'
    BY MainNextMaps DEF IInv
  <2>2. Good(gw')
    BY <2>1 DEF MapsInv
  <2> QED
    BY <1>3, <2>2, EnterConserves
<1>4. ASSUME NEW c \in Clients, FindAmended(c) \/ FindCancelled(c) \/ RejectCancelOrder(c)
      PROVE  KeepInv'
  <2>1. /\ UNCHANGED <<book, stream, replaying, connected, losses, seen, cloidOf>>
        /\ link' = link /\ requests' = requests
        /\ t = gw \/ t = Report(gw, c, "CancelReject")
    BY <1>4, <1>t DEF FindAmended, FindCancelled, RejectCancelOrder, MayCancel, WebsocketUnchanged,
                      exchangeVars
  <2>2. Spares(gw, t, own) /\ \A oid, n : Room(gw, oid, n) => Room(t, oid, n)
    <3>1. c \in Clients \cup {NoClient}
      OBVIOUS
    <3> QED
      BY <2>1, <3>1, EndReports, ReportQuiet
  <2>3. Settled(t)
    BY <1>t, <2>1 DEF Settled
  <2> QED
    BY <2>2, <2>3, SettledConserves
<1> QED
  BY <1>1, <1>2, <1>3, <1>4, MainStepConserves DEF MainNext

-----------------------------------------------------------------------------
LEMMA InitConserves ==
  ASSUME Init
  PROVE  KeepInv
<1>1. /\ requests = <<>> /\ stream = <<>> /\ link = FALSE
      /\ book = [cloid \in Cloids |-> Unknown] /\ Unknown.state = "unknown"
      /\ connected = FALSE /\ replaying = <<>> /\ losses = 0
      /\ seen = [c \in Clients |-> "no"]
  BY DEF Init, ExchangeInit, GatewayInit, Unknown
<1>2. 1 .. Len(stream) = {} /\ 1 .. Len(replaying) = {}
  BY <1>1
<1>3. \A x \in Cloids : book[x].state # "live"
  BY <1>1
<1>4. Entered = {}
  BY <1>1 DEF Entered
<1> QED
  BY <1>1, <1>2, <1>3, <1>4 DEF KeepInv, Linked, Sized, FitsSizes, Replayed, NothingLost

LEMMA KeepInvKept ==
  ASSUME FillsInv, KeepInv, Reliable, [Next]_vars
  PROVE  KeepInv'
<1>0. IInv /\ FillInv /\ ~Timeouts /\ MaxDisconnects = 0
  BY DEF FillsInv, Reliable
<1>1. CASE Exchange
  BY <1>0, <1>1, ExchangeConserves DEF Exchange
<1>2. CASE WebsocketStep
  BY <1>0, <1>2, WebsocketConserves
<1>3. CASE MainNext
  BY <1>0, <1>3, MainConserves
<1>4. ~LinkBreaks
  BY <1>0, LinkBreaksNot
<1>5. CASE UNCHANGED vars
  <2>1. UNCHANGED <<book, stream, replaying, connected, losses, seen, cloidOf, link, requests, gw>>
    BY <1>5 DEF vars, exchangeVars, gatewayVars, history
  <2> QED
    BY <2>1 DEF KeepInv, Linked, Sized, Replayed, NothingLost, OnTheirWay, Entered
<1> QED
  BY <1>1, <1>2, <1>3, <1>4, <1>5 DEF Next

(* If nothing times out and the connection, once up, stays up: for any     *)
(* number of orders and fills, and however updates, fills, responses and   *)
(* the main thread's amends and cancels overtake each other, onUserFill    *)
(* and replayBufferedFills neither lose a fill nor pass one on twice or to *)
(* another client than its order's.                                        *)
THEOREM FillsAllPassedOn == Reliable => (Spec => []FillsConserved)
<1> SUFFICES ASSUME Reliable PROVE Spec => []FillsConserved
  OBVIOUS
<1> DEFINE Inv == FillsInv /\ KeepInv
<1>1. Init => Inv
  BY InitEstablishes, InitFills, InitConserves DEF FillsInv
<1>2. Inv /\ [Next]_vars => Inv'
  BY FillsInvKept, KeepInvKept
<1>3. Inv => FillsConserved
  <2>1. ASSUME Inv, NEW c \in Entered
        PROVE  gw.told[c].filled + OnTheirWay(cloidOf[c]) = book[cloidOf[c]].filled
    <3>0. IInv /\ FillInv /\ NothingLost /\ c \in Clients
      BY <2>1 DEF FillsInv, KeepInv, Entered
    <3>n. PICK t \in Nat, w \in Nat, b \in Nat :
            t = gw.told[c].filled /\ w = OnTheirWay(cloidOf[c]) /\ b = book[cloidOf[c]].filled
      BY <3>0, ToldTyped, WayCounted
    <3>1. t + w <= b
      BY <3>0, <3>n DEF FillInv, FillBound
    <3>2. b <= t + w
      BY <3>0, <3>n DEF NothingLost
    <3>3. t + w = b
      BY <3>1, <3>2
    <3> QED
      BY <3>3, <3>n
  <2> QED
    BY <2>1 DEF FillsConserved
<1> QED
  BY <1>1, <1>2, <1>3, PTL DEF Spec
=============================================================================
