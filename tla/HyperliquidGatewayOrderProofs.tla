------------------- MODULE HyperliquidGatewayOrderProofs -------------------
(***************************************************************************)
(* Proofs about HyperliquidGateway: an order that lives at the exchange is *)
(* not reported over and stays in the maps, and FILLED is reported only of *)
(* an order of which nothing is left.  Both need that nothing times out,   *)
(* that the connection, once up, stays up, and that fills come first.      *)
(*                                                                         *)
(* The gateway knows the exchange's order only by what has come of it: the *)
(* oid it takes for the active one, the size that oid's Open named, and    *)
(* the fills it has counted since.  All three may be those of an oid that  *)
(* a modification has replaced already.  The invariant says, order by      *)
(* order, how they and what is still on its way lead to the entry of the   *)
(* exchange's book (Order):                                                *)
(*                                                                         *)
(*   Announced   what the events on their way may say of the order         *)
(*   ActiveFits  the active oid is the order's, none of a later date, and  *)
(*               the Opens on their way are of later ones                  *)
(*   Followed    while the order is in the maps: an event of an oid finds  *)
(*               it active, or finds its Open before it; and what was      *)
(*               counted of the active oid, with what is on its way of it, *)
(*               is less than the size, unless the oid is the book's, of   *)
(*               which no more is counted than was done (Measured)         *)
(*                                                                         *)
(* So an update that ends the active oid ends the order, a stale one is    *)
(* taken for stale, and cumQty reaches origSz with the order's last fill.  *)
(* A step of the gateway leaves each order so, and tells clients of no end *)
(* that has not happened (GatewayOrders); Held, FullOnly and PlaceAnswered *)
(* follow.                                                                 *)
(***************************************************************************)
EXTENDS HyperliquidGatewayFillProofs

-----------------------------------------------------------------------------
(* What is on its way about an order y that the exchange has as b: in the  *)
(* stream st, in the buffer of fills of unknown oids and among the fills   *)
(* rp being replayed.  Only oids that the exchange has used for the order  *)
(* are named in Opens and fills; one that ends its present oid ends it; an *)
(* Open comes before the fills of its oid, and of a later one; and the     *)
(* size an Open announces is not reached by the fills that are still to be *)
(* told, unless the order's present oid is full.                           *)
IsEnd(u) == u.type = "update" /\ u.status # "Open"

HandedOut(y, b, seq) ==
  \A i \in 1 .. Len(seq) :
    seq[i].cloid = y /\ ~IsEnd(seq[i]) => 0 < seq[i].oid /\ seq[i].oid <= b.oid

EndsDated(y, b, st) ==
  \A i \in 1 .. Len(st) :
    st[i].cloid = y /\ IsEnd(st[i]) /\ b.oid <= st[i].oid => b.state = "ended"

InOrder(y, st) ==
  \A i, j \in 1 .. Len(st) :
    i < j /\ st[i].cloid = y /\ st[j].cloid = y /\ IsOpen(st[i]) =>
      /\ IsOpen(st[j]) => st[i].oid < st[j].oid
      /\ st[j].type = "fill" => st[i].oid <= st[j].oid

OpensFit(y, b, st, buffer) ==
  \A i \in 1 .. Len(st) : st[i].cloid = y /\ IsOpen(st[i]) =>
    /\ st[i].oid = b.oid =>
         Under(st, buffer, st[i].oid) <= b.done /\ b.done + b.left <= st[i].origSz
    /\ st[i].oid < b.oid => Under(st, buffer, st[i].oid) < st[i].origSz

Announced(y, b, st, buffer, rp) ==
  /\ HandedOut(y, b, st) /\ HandedOut(y, b, buffer) /\ HandedOut(y, b, rp)
  /\ EndsDated(y, b, st) /\ InOrder(y, st) /\ OpensFit(y, b, st, buffer)

(* What the gateway's maps s make of it.  The oid it takes for the order's *)
(* active one leads back to the order and is older than the ones that are  *)
(* still to be announced.                                                  *)
IsCurrent(s, y, oid) == y \in DOMAIN s.cloidToOid /\ s.cloidToOid[y] = oid

Opened(st, y, oid) ==
  \E j \in 1 .. Len(st) : st[j].cloid = y /\ IsOpen(st[j]) /\ st[j].oid = oid

ActiveFits(y, b, s, st) ==
  y \in DOMAIN s.cloidToOid =>
    /\ Owns(s.oidToCloid, s.cloidToOid[y], y)
    /\ 0 < s.cloidToOid[y] /\ s.cloidToOid[y] <= b.oid
    /\ \A i \in 1 .. Len(st) :
         st[i].cloid = y /\ IsOpen(st[i]) => s.cloidToOid[y] < st[i].oid

(* And as long as the gateway knows the order: whatever is on its way is   *)
(* of the active oid, or the Open of its oid is still to come.             *)
Registered(y, s) ==
  \A oid \in DOMAIN s.oidToCloid :
    s.oidToCloid[oid] = y => y \in DOMAIN s.cloidToOid /\ oid <= s.cloidToOid[y]

FillsLed(y, s, st) ==
  \A i \in 1 .. Len(st) : st[i].cloid = y /\ st[i].type = "fill" =>
    IsCurrent(s, y, st[i].oid) \/ Opened(st, y, st[i].oid)

BufferLed(y, st, buffer) ==
  \A i \in 1 .. Len(buffer) : buffer[i].cloid = y => Opened(st, y, buffer[i].oid)

BookLed(y, b, s, st) == b.oid # 0 => IsCurrent(s, y, b.oid) \/ Opened(st, y, b.oid)

Passed(u, oid, b) == u.oid < oid \/ (u.oid = oid /\ oid = b.oid)

EndsLed(y, b, s, st) ==
  \A i \in 1 .. Len(st) : st[i].cloid = y /\ IsEnd(st[i]) =>
    \/ b.oid = 0
    \/ \E oid \in Nat : IsCurrent(s, y, oid) /\ Passed(st[i], oid, b)
    \/ \E j \in 1 .. i - 1 :
         st[j].cloid = y /\ IsOpen(st[j]) /\ Passed(st[i], st[j].oid, b)

ReplayLed(y, s, rp) ==
  \A i \in 1 .. Len(rp) : rp[i].cloid = y => IsCurrent(s, y, rp[i].oid)

(* What the gateway has counted, with what it is still to be told of the   *)
(* active oid, reaches the size it expects only if the oid is full.        *)
Tally(s, st, rp, y, oid) ==
  StateOf(s, y).cumQty + CountOf(st, "oid", oid) + CountOf(rp, "oid", oid)

Measured(y, b, s, st, rp) ==
  \A oid : IsCurrent(s, y, oid) =>
    /\ oid = b.oid =>
         Tally(s, st, rp, y, oid) <= b.done /\ b.done + b.left <= StateOf(s, y).origSz
    /\ oid < b.oid => Tally(s, st, rp, y, oid) < StateOf(s, y).origSz

Followed(y, b, s, st, rp) ==
  /\ Registered(y, s) /\ FillsLed(y, s, st) /\ BufferLed(y, st, s.bufferedFills)
  /\ BookLed(y, b, s, st) /\ EndsLed(y, b, s, st) /\ ReplayLed(y, s, rp)
  /\ Measured(y, b, s, st, rp)

Order(y, b, s, st, rp) ==
  /\ Announced(y, b, st, s.bufferedFills, rp)
  /\ ActiveFits(y, b, s, st)
  /\ y \in DOMAIN s.cloidToClient => Followed(y, b, s, st, rp)

Orders(entries, s, st, rp) == \A y \in Cloids : Order(y, entries[y], s, st, rp)

(* The types, and to which order each oid belongs.                         *)
Owned(own, s, st, rp) ==
  /\ Typed(s) /\ st \in Seq(Events) /\ rp \in Seq(Fill)
  /\ AllOwned(own, st) /\ AllOwned(own, s.bufferedFills) /\ AllOwned(own, rp)
  /\ OidsOwned(s, own)

LEMMA EventTypes ==
  ASSUME NEW st \in Seq(Events), NEW i \in 1 .. Len(st)
  PROVE  /\ st[i] \in Events /\ st[i].oid \in Nat /\ st[i].cloid \in Cloids
         /\ st[i].type \in {"update", "fill"}
         /\ st[i].type = "update" => st[i].origSz \in Nat
<1>1. st[i] \in Events
  BY ElementOfSeq
<1> QED
  BY <1>1 DEF Events, Update, Fill

LEMMA FillTypes ==
  ASSUME NEW st \in Seq(Fill), NEW i \in 1 .. Len(st)
  PROVE  st[i] \in Fill /\ st[i].oid \in Nat /\ st[i].cloid \in Cloids /\ st[i].type = "fill"
<1>1. st[i] \in Fill
  BY ElementOfSeq
<1> QED
  BY <1>1 DEF Fill

LEMMA ActiveTypes ==
  ASSUME NEW s, Typed(s), NEW y, NEW oid, IsCurrent(s, y, oid)
  PROVE  oid \in Nat /\ StateOf(s, y).cumQty \in Nat /\ StateOf(s, y).origSz \in Nat
<1>1. oid \in Nat
  BY DEF IsCurrent, Typed, IsMap
<1>2. StateOf(s, y) \in States
  BY StateOfTyped
<1> QED
  BY <1>1, <1>2 DEF States

LEMMA TallyTypes ==
  ASSUME NEW own, NEW s, NEW st, NEW rp, Owned(own, s, st, rp), NEW y, NEW oid, IsCurrent(s, y, oid)
  PROVE  /\ CountOf(st, "oid", oid) \in Nat /\ CountOf(rp, "oid", oid) \in Nat
         /\ StateOf(s, y).cumQty \in Nat /\ StateOf(s, y).origSz \in Nat
         /\ Tally(s, st, rp, y, oid) \in Nat
<1>1. CountOf(st, "oid", oid) \in Nat /\ CountOf(rp, "oid", oid) \in Nat
  BY Counted DEF Owned
<1>2. StateOf(s, y).cumQty \in Nat /\ StateOf(s, y).origSz \in Nat
  BY ActiveTypes DEF Owned
<1> QED
  BY <1>1, <1>2 DEF Tally

LEMMA UnderTypes ==
  ASSUME NEW own, NEW s, NEW st, NEW rp, Owned(own, s, st, rp), NEW oid
  PROVE  /\ CountOf(st, "oid", oid) \in Nat /\ CountOf(s.bufferedFills, "oid", oid) \in Nat
         /\ Under(st, s.bufferedFills, oid) \in Nat
<1>1. CountOf(st, "oid", oid) \in Nat /\ CountOf(s.bufferedFills, "oid", oid) \in Nat
  BY Counted DEF Owned, Typed
<1> QED
  BY <1>1 DEF Under

(* The active oid belongs to the order.                                    *)
LEMMA ActiveOwned ==
  ASSUME NEW own, NEW s, NEW st, NEW rp, Owned(own, s, st, rp), NEW y, NEW b,
         ActiveFits(y, b, s, st), NEW oid, IsCurrent(s, y, oid)
  PROVE  Owns(own, oid, y) /\ Owns(s.oidToCloid, oid, y)
BY DEF Owned, ActiveFits, IsCurrent, OidsOwned, Owns

-----------------------------------------------------------------------------
(* A step after which there is less on the way about an order.  Its events *)
(* come in the order in which they came before, and none is new.           *)
Fewer(y, st, st2) ==
  /\ \A i \in 1 .. Len(st2) : st2[i].cloid = y => \E p \in 1 .. Len(st) : st2[i] = st[p]
  /\ \A i, j \in 1 .. Len(st2) : i < j /\ st2[i].cloid = y /\ st2[j].cloid = y =>
       \E p, q \in 1 .. Len(st) : p < q /\ st2[i] = st[p] /\ st2[j] = st[q]

(* And none of its Opens goes.                                             *)
SameNews(y, st, st2) ==
  /\ Fewer(y, st, st2)
  /\ \A i \in 1 .. Len(st2) : st2[i].cloid = y =>
       \E p \in 1 .. Len(st) :
         /\ st2[i] = st[p]
         /\ \A q \in 1 .. p - 1 :
              st[q].cloid = y /\ IsOpen(st[q]) => \E j \in 1 .. i - 1 : st2[j] = st[q]
  /\ \A p \in 1 .. Len(st) :
       st[p].cloid = y /\ IsOpen(st[p]) => \E i \in 1 .. Len(st2) : st2[i] = st[p]

SomeOf(y, t, s) ==
  \A i \in 1 .. Len(t) : t[i].cloid = y => \E j \in 1 .. Len(s) : t[i] = s[j]

NoMoreUnder(own, y, st, buffer, st2, buffer2) ==
  \A oid : Owns(own, oid, y) => Under(st2, buffer2, oid) <= Under(st, buffer, oid)

LEMMA AnnouncedStill ==
  ASSUME NEW own, NEW y, NEW b, b.done \in Nat,
         NEW s, NEW st, NEW rp, Owned(own, s, st, rp), NEW buffer, buffer = s.bufferedFills,
         NEW s2, NEW st2, NEW rp2, Owned(own, s2, st2, rp2), NEW buffer2, buffer2 = s2.bufferedFills,
         Announced(y, b, st, buffer, rp), Fewer(y, st, st2),
         HandedOut(y, b, buffer2), HandedOut(y, b, rp2),
         NoMoreUnder(own, y, st, buffer, st2, buffer2)
  PROVE  Announced(y, b, st2, buffer2, rp2)
<1>1. \A i \in 1 .. Len(st2) : st2[i].cloid = y => \E p \in 1 .. Len(st) : st2[i] = st[p]
  BY DEF Fewer
<1>2. \A i, j \in 1 .. Len(st2) : i < j /\ st2[i].cloid = y /\ st2[j].cloid = y =>
        \E p, q \in 1 .. Len(st) : p < q /\ st2[i] = st[p] /\ st2[j] = st[q]
  BY DEF Fewer
<1>3. HandedOut(y, b, st2)
  BY <1>1 DEF Announced, HandedOut
<1>4. EndsDated(y, b, st2)
  BY <1>1 DEF Announced, EndsDated
<1>5. InOrder(y, st2)
  <2>0. InOrder(y, st)
    BY DEF Announced
  <2>1. SUFFICES ASSUME NEW i \in 1 .. Len(st2), NEW j \in 1 .. Len(st2), i < j,
                        st2[i].cloid = y, st2[j].cloid = y, IsOpen(st2[i])
                 PROVE  /\ IsOpen(st2[j]) => st2[i].oid < st2[j].oid
                        /\ st2[j].type = "fill" => st2[i].oid <= st2[j].oid
    BY DEF InOrder
  <2>2. \E p, q \in 1 .. Len(st) : p < q /\ st2[i] = st[p] /\ st2[j] = st[q]
    BY <1>2, <2>1
  <2>3. PICK p, q \in 1 .. Len(st) : p < q /\ st2[i] = st[p] /\ st2[j] = st[q]
    BY <2>2
  <2> QED
    BY <2>0, <2>1, <2>3 DEF InOrder
<1>6. OpensFit(y, b, st2, buffer2)
  <2>1. SUFFICES ASSUME NEW i \in 1 .. Len(st2), st2[i].cloid = y, IsOpen(st2[i])
                 PROVE  /\ st2[i].oid = b.oid =>
                             /\ Under(st2, buffer2, st2[i].oid) <= b.done
                             /\ b.done + b.left <= st2[i].origSz
                        /\ st2[i].oid < b.oid => Under(st2, buffer2, st2[i].oid) < st2[i].origSz
    BY DEF OpensFit
  <2>p. PICK p \in 1 .. Len(st) : st2[i] = st[p]
    BY <1>1, <2>1
  <2>o. PICK oid, z : oid = st2[i].oid /\ z = st2[i].origSz
    OBVIOUS
  <2>2. Owns(own, oid, y) /\ z \in Nat
    BY <2>1, <2>o, EventTypes DEF Owned, AllOwned, IsOpen
  <2>n. PICK n \in Nat, m \in Nat : n = Under(st, buffer, oid) /\ m = Under(st2, buffer2, oid)
    BY UnderTypes
  <2>3. m <= n
    BY <2>2, <2>n DEF NoMoreUnder
  <2>4. /\ oid = b.oid => n <= b.done /\ b.done + b.left <= z
        /\ oid < b.oid => n < z
    BY <2>1, <2>n, <2>o, <2>p DEF Announced, OpensFit
  <2>5. /\ oid = b.oid => m <= b.done /\ b.done + b.left <= z
        /\ oid < b.oid => m < z
    BY <2>2, <2>3, <2>4
  <2> QED
    BY <2>5, <2>n, <2>o
<1> QED
  BY <1>3, <1>4, <1>5, <1>6 DEF Announced

(* The gateway still follows an order whose Opens are still to come, and   *)
(* of which it counts no more than it did.                                 *)
SameActive(y, s, s2) ==
  /\ y \in DOMAIN s2.cloidToClient => y \in DOMAIN s.cloidToClient
  /\ \A oid : IsCurrent(s2, y, oid) <=> IsCurrent(s, y, oid)
  /\ \A oid : IsCurrent(s2, y, oid) /\ Owns(s.oidToCloid, oid, y) => Owns(s2.oidToCloid, oid, y)

CountsNoMore(y, s, st, rp, s2, st2, rp2) ==
  /\ StateOf(s2, y).origSz = StateOf(s, y).origSz
  /\ \A oid : IsCurrent(s, y, oid) => Tally(s2, st2, rp2, y, oid) <= Tally(s, st, rp, y, oid)

LEMMA Carried ==
  ASSUME NEW own, NEW y, NEW b, b.done \in Nat,
         NEW s, NEW st, NEW rp, Owned(own, s, st, rp), Order(y, b, s, st, rp),
         NEW s2, NEW st2, NEW rp2, Owned(own, s2, st2, rp2),
         SameNews(y, st, st2), SameActive(y, s, s2),
         NoMoreUnder(own, y, st, s.bufferedFills, st2, s2.bufferedFills),
         CountsNoMore(y, s, st, rp, s2, st2, rp2),
         HandedOut(y, b, s2.bufferedFills), SomeOf(y, rp2, rp),
         y \in DOMAIN s2.cloidToClient =>
           Registered(y, s2) /\ BufferLed(y, st2, s2.bufferedFills)
  PROVE  Order(y, b, s2, st2, rp2)
<1>b. PICK buffer, buffer2 : buffer = s.bufferedFills /\ buffer2 = s2.bufferedFills
  OBVIOUS
<1>1. /\ \A i \in 1 .. Len(st2) : st2[i].cloid = y => \E p \in 1 .. Len(st) : st2[i] = st[p]
      /\ Fewer(y, st, st2)
  BY DEF SameNews, Fewer
<1>3. \A oid : Opened(st, y, oid) => Opened(st2, y, oid)
  BY DEF Opened, SameNews
<1>4. \A oid : IsCurrent(s2, y, oid) <=> IsCurrent(s, y, oid)
  BY DEF SameActive
<1>6. Announced(y, b, st2, buffer2, rp2)
  <2>0. Announced(y, b, st, buffer, rp)
    BY <1>b DEF Order
  <2>1. HandedOut(y, b, rp2)
    BY <2>0 DEF Announced, HandedOut, SomeOf
  <2>2. HandedOut(y, b, buffer2) /\ NoMoreUnder(own, y, st, buffer, st2, buffer2)
    BY <1>b
  <2> QED
    BY <1>b, <1>1, <2>0, <2>1, <2>2, AnnouncedStill
<1>7. ActiveFits(y, b, s2, st2)
  <2>1. ASSUME NEW a, IsCurrent(s2, y, a)
        PROVE  /\ Owns(s2.oidToCloid, a, y) /\ 0 < a /\ a <= b.oid
               /\ \A i \in 1 .. Len(st2) : st2[i].cloid = y /\ IsOpen(st2[i]) => a < st2[i].oid
    <3>1. IsCurrent(s, y, a)
      BY <1>4, <2>1
    <3>2. /\ Owns(s.oidToCloid, a, y) /\ 0 < a /\ a <= b.oid
          /\ \A i \in 1 .. Len(st) : st[i].cloid = y /\ IsOpen(st[i]) => a < st[i].oid
      BY <3>1 DEF Order, ActiveFits, IsCurrent
    <3> QED
      BY <1>1, <2>1, <3>2 DEF SameActive
  <2> QED
    BY <2>1 DEF ActiveFits, IsCurrent
<1>8. ASSUME y \in DOMAIN s2.cloidToClient
      PROVE  Followed(y, b, s2, st2, rp2)
  <2>0. Followed(y, b, s, st, rp)
    BY <1>8 DEF Order, SameActive
  <2>1. Registered(y, s2) /\ BufferLed(y, st2, buffer2)
    BY <1>8, <1>b
  <2>2. FillsLed(y, s2, st2)
    BY <1>1, <1>3, <1>4, <2>0 DEF Followed, FillsLed
  <2>4. BookLed(y, b, s2, st2)
    BY <1>3, <1>4, <2>0 DEF Followed, BookLed
  <2>5. EndsLed(y, b, s2, st2)
    <3>1. SUFFICES ASSUME NEW i \in 1 .. Len(st2), st2[i].cloid = y, IsEnd(st2[i])
                   PROVE  \/ b.oid = 0
                          \/ \E oid \in Nat : IsCurrent(s2, y, oid) /\ Passed(st2[i], oid, b)
                          \/ \E j \in 1 .. i - 1 :
                               st2[j].cloid = y /\ IsOpen(st2[j]) /\ Passed(st2[i], st2[j].oid, b)
      BY DEF EndsLed
    <3>p. PICK p \in 1 .. Len(st) :
            /\ st2[i] = st[p]
            /\ \A q \in 1 .. p - 1 :
                 st[q].cloid = y /\ IsOpen(st[q]) => \E j \in 1 .. i - 1 : st2[j] = st[q]
      BY <3>1 DEF SameNews
    <3>2. \/ b.oid = 0
          \/ \E oid \in Nat : IsCurrent(s, y, oid) /\ Passed(st[p], oid, b)
          \/ \E q \in 1 .. p - 1 : st[q].cloid = y /\ IsOpen(st[q]) /\ Passed(st[p], st[q].oid, b)
      BY <2>0, <3>1, <3>p DEF Followed, EndsLed
    <3>3. CASE \E q \in 1 .. p - 1 : st[q].cloid = y /\ IsOpen(st[q]) /\ Passed(st[p], st[q].oid, b)
      <4>1. PICK q \in 1 .. p - 1 : st[q].cloid = y /\ IsOpen(st[q]) /\ Passed(st[p], st[q].oid, b)
        BY <3>3
      <4>2. PICK j \in 1 .. i - 1 : st2[j] = st[q]
        BY <3>p, <4>1
      <4> QED
        BY <3>p, <4>1, <4>2
    <3> QED
      BY <1>4, <3>2, <3>3, <3>p
  <2>6. ReplayLed(y, s2, rp2)
    BY <1>4, <2>0 DEF Followed, ReplayLed, SomeOf
  <2>7. Measured(y, b, s2, st2, rp2)
    <3>1. SUFFICES ASSUME NEW oid, IsCurrent(s2, y, oid)
                   PROVE  /\ oid = b.oid =>
                               /\ Tally(s2, st2, rp2, y, oid) <= b.done
                               /\ b.done + b.left <= StateOf(s2, y).origSz
                          /\ oid < b.oid => Tally(s2, st2, rp2, y, oid) < StateOf(s2, y).origSz
      BY DEF Measured
    <3>2. IsCurrent(s, y, oid)
      BY <1>4, <3>1
    <3>n. PICK n \in Nat, m \in Nat, z \in Nat :
            /\ n = Tally(s, st, rp, y, oid) /\ m = Tally(s2, st2, rp2, y, oid)
            /\ z = StateOf(s, y).origSz
      BY <3>1, <3>2, TallyTypes
    <3>4. m <= n /\ StateOf(s2, y).origSz = z
      BY <3>2, <3>n DEF CountsNoMore
    <3>6. /\ oid = b.oid => n <= b.done /\ b.done + b.left <= z
          /\ oid < b.oid => n < z
      BY <2>0, <3>2, <3>n DEF Followed, Measured
    <3>7. /\ oid = b.oid => m <= b.done /\ b.done + b.left <= z
          /\ oid < b.oid => m < z
      BY <3>4, <3>6
    <3> QED
      BY <3>4, <3>7, <3>n
  <2> QED
    BY <1>b, <2>1, <2>2, <2>4, <2>5, <2>6, <2>7 DEF Followed
<1> QED
  BY <1>b, <1>6, <1>7, <1>8 DEF Order

(* A step that is not about the order at all.                              *)
SameEntries(y, s, s2) ==
  /\ y \in DOMAIN s2.cloidToClient => y \in DOMAIN s.cloidToClient
  /\ \A oid : IsCurrent(s2, y, oid) <=> IsCurrent(s, y, oid)
  /\ \A oid : Owns(s2.oidToCloid, oid, y) <=> Owns(s.oidToCloid, oid, y)
  /\ StateOf(s2, y).cumQty = StateOf(s, y).cumQty /\ StateOf(s2, y).origSz = StateOf(s, y).origSz

LEMMA SameRegistered ==
  ASSUME NEW y, NEW s, NEW s2, SameEntries(y, s, s2), Registered(y, s)
  PROVE  Registered(y, s2)
<1>1. ASSUME NEW oid \in DOMAIN s2.oidToCloid, s2.oidToCloid[oid] = y
      PROVE  y \in DOMAIN s2.cloidToOid /\ oid <= s2.cloidToOid[y]
  <2>1. Owns(s.oidToCloid, oid, y)
    BY <1>1 DEF SameEntries, Owns
  <2>2. y \in DOMAIN s.cloidToOid /\ oid <= s.cloidToOid[y]
    BY <2>1 DEF Registered, Owns
  <2>3. IsCurrent(s2, y, s.cloidToOid[y])
    BY <2>2 DEF SameEntries, IsCurrent
  <2> QED
    BY <2>2, <2>3 DEF IsCurrent
<1> QED
  BY <1>1 DEF Registered

LEMMA Apart ==
  ASSUME NEW own, NEW y, NEW b, b.done \in Nat,
         NEW s, NEW st, NEW rp, Owned(own, s, st, rp), Order(y, b, s, st, rp),
         NEW s2, NEW st2, NEW rp2, Owned(own, s2, st2, rp2),
         SameNews(y, st, st2), SameEntries(y, s, s2),
         SomeOf(y, s2.bufferedFills, s.bufferedFills), SomeOf(y, rp2, rp),
         NoMoreUnder(own, y, st, s.bufferedFills, st2, s2.bufferedFills),
         \A oid : Owns(own, oid, y) =>
           /\ CountOf(st2, "oid", oid) <= CountOf(st, "oid", oid)
           /\ CountOf(rp2, "oid", oid) <= CountOf(rp, "oid", oid)
  PROVE  Order(y, b, s2, st2, rp2)
<1>1. SameActive(y, s, s2)
  BY DEF SameActive, SameEntries
<1>2. CountsNoMore(y, s, st, rp, s2, st2, rp2)
  <2>1. ASSUME NEW oid, IsCurrent(s, y, oid)
        PROVE  Tally(s2, st2, rp2, y, oid) <= Tally(s, st, rp, y, oid)
    <3>1. Owns(own, oid, y) /\ IsCurrent(s2, y, oid)
      BY <2>1, ActiveOwned DEF Order, SameEntries
    <3>n. PICK c \in Nat, k \in Nat, m \in Nat, k2 \in Nat, m2 \in Nat :
            /\ c = StateOf(s, y).cumQty
            /\ k = CountOf(st, "oid", oid) /\ m = CountOf(rp, "oid", oid)
            /\ k2 = CountOf(st2, "oid", oid) /\ m2 = CountOf(rp2, "oid", oid)
      BY <2>1, <3>1, TallyTypes
    <3>2. k2 <= k /\ m2 <= m
      BY <3>1, <3>n
    <3>3. Tally(s, st, rp, y, oid) = c + k + m /\ Tally(s2, st2, rp2, y, oid) = c + k2 + m2
      BY <3>n DEF Tally, SameEntries
    <3> QED
      BY <3>2, <3>3
  <2> QED
    BY <2>1 DEF CountsNoMore, SameEntries
<1>3. HandedOut(y, b, s2.bufferedFills)
  BY DEF Order, Announced, HandedOut, SomeOf
<1>4. ASSUME y \in DOMAIN s2.cloidToClient
      PROVE  Registered(y, s2) /\ BufferLed(y, st2, s2.bufferedFills)
  <2>1. Followed(y, b, s, st, rp)
    BY <1>4 DEF Order, SameEntries
  <2>2. \A oid : Opened(st, y, oid) => Opened(st2, y, oid)
    BY DEF Opened, SameNews
  <2>3. BufferLed(y, st2, s2.bufferedFills)
    BY <2>1, <2>2 DEF Followed, BufferLed, SomeOf
  <2> QED
    BY <2>1, <2>3, SameRegistered DEF Followed
<1> QED
  BY <1>1, <1>2, <1>3, <1>4, Carried

-----------------------------------------------------------------------------
(* The exchange: one event more.                                           *)
Says(st, e, st2) == st2 = Append(st, e)

LEMMA AppendFacts ==
  ASSUME NEW st \in Seq(Events), NEW e \in Events, NEW st2, Says(st, e, st2)
  PROVE  /\ Len(st) \in Nat /\ st2 \in Seq(Events) /\ Len(st2) = Len(st) + 1
         /\ \A i \in 1 .. Len(st) : st2[i] = st[i]
         /\ st2[Len(st) + 1] = e
BY AppendProperties, LenProperties DEF Says

LEMMA AppendSame ==
  ASSUME NEW st \in Seq(Events), NEW e \in Events, NEW st2, Says(st, e, st2),
         NEW y, e.cloid # y
  PROVE  SameNews(y, st, st2)
<1>n. PICK n : n = Len(st)
  OBVIOUS
<1>1. /\ n \in Nat /\ Len(st2) = n + 1
      /\ \A i \in 1 .. n : st2[i] = st[i]
      /\ st2[n + 1] = e
  BY <1>n, AppendFacts
<1>2. \A i \in 1 .. n + 1 : st2[i].cloid = y => i \in 1 .. n
  BY <1>1
<1>3. ASSUME NEW i \in 1 .. n
      PROVE  \A q \in 1 .. i - 1 : \E j \in 1 .. i - 1 : st2[j] = st[q]
  BY <1>1
<1>4. ASSUME NEW i \in 1 .. Len(st2), st2[i].cloid = y
      PROVE  \E p \in 1 .. Len(st) :
               /\ st2[i] = st[p]
               /\ \A q \in 1 .. p - 1 :
                    st[q].cloid = y /\ IsOpen(st[q]) => \E j \in 1 .. i - 1 : st2[j] = st[q]
  BY <1>n, <1>1, <1>2, <1>3, <1>4
<1>5. \A p \in 1 .. n : \E i \in 1 .. n + 1 : st2[i] = st[p]
  BY <1>1
<1>6. ASSUME NEW i \in 1 .. Len(st2), NEW j \in 1 .. Len(st2), i < j,
             st2[i].cloid = y, st2[j].cloid = y
      PROVE  \E p, q \in 1 .. Len(st) : p < q /\ st2[i] = st[p] /\ st2[j] = st[q]
  BY <1>n, <1>1, <1>2, <1>6
<1> QED
  <2>1. Fewer(y, st, st2)
    BY <1>4, <1>6 DEF Fewer
  <2> QED
    BY <1>n, <1>1, <1>4, <1>5, <2>1 DEF SameNews

LEMMA AppendUnder ==
  ASSUME NEW own, NEW s, NEW st, NEW rp, Owned(own, s, st, rp),
         NEW e \in Events, NEW st2, Says(st, e, st2), NEW oid
  PROVE  /\ CountOf(st2, "oid", oid) = CountOf(st, "oid", oid) + OneOf(e, "oid", oid)
         /\ OneOf(e, "oid", oid) = (IF e.type = "fill" /\ e.oid = oid THEN 1 ELSE 0)
         /\ Under(st2, s.bufferedFills, oid) =
              Under(st, s.bufferedFills, oid) + OneOf(e, "oid", oid)
<1>1. CountOf(st2, "oid", oid) = CountOf(st, "oid", oid) + OneOf(e, "oid", oid)
  BY AppendCount DEF Owned, Says
<1>2. OneOf(e, "oid", oid) = IF e.type = "fill" /\ e.oid = oid THEN 1 ELSE 0
  BY DEF OneOf, IsCounted
<1>n. PICK a \in Nat, d \in Nat, m \in {0, 1} :
        /\ a = CountOf(st, "oid", oid) /\ d = CountOf(s.bufferedFills, "oid", oid)
        /\ m = OneOf(e, "oid", oid)
  BY <1>2, UnderTypes
<1>3. Under(st2, s.bufferedFills, oid) = a + m + d /\ Under(st, s.bufferedFills, oid) = a + d
  BY <1>1, <1>n DEF Under
<1> QED
  BY <1>1, <1>2, <1>3, <1>n

LEMMA AppendOwned ==
  ASSUME NEW own, NEW s, NEW st, NEW rp, Owned(own, s, st, rp),
         NEW e \in Events, Owns(own, e.oid, e.cloid), NEW st2, Says(st, e, st2)
  PROVE  Owned(own, s, st2, rp)
<1>n. PICK n : n = Len(st)
  OBVIOUS
<1>1. /\ n \in Nat /\ Len(st2) = n + 1 /\ st2 \in Seq(Events)
      /\ \A i \in 1 .. n : st2[i] = st[i]
      /\ st2[n + 1] = e
  BY <1>n, AppendFacts DEF Owned
<1>2. \A i \in 1 .. n + 1 : Owns(own, st2[i].oid, st2[i].cloid)
  <2>1. \A i \in 1 .. n : Owns(own, st[i].oid, st[i].cloid)
    BY <1>n DEF Owned, AllOwned
  <2> QED
    BY <1>1, <2>1
<1>3. AllOwned(own, st2)
  BY <1>1, <1>2 DEF AllOwned
<1> QED
  BY <1>1, <1>3 DEF Owned

(* To another order.                                                       *)
LEMMA SaidElsewhere ==
  ASSUME NEW own, NEW y, NEW b, b.done \in Nat,
         NEW s, NEW st, NEW rp, Owned(own, s, st, rp), Order(y, b, s, st, rp),
         NEW e \in Events, Owns(own, e.oid, e.cloid), e.cloid # y,
         NEW st2, Says(st, e, st2)
  PROVE  Order(y, b, s, st2, rp)
<1>1. Owned(own, s, st2, rp)
  BY AppendOwned
<1>2. SameNews(y, st, st2)
  BY AppendSame DEF Owned
<1>3. SameEntries(y, s, s) /\ SomeOf(y, s.bufferedFills, s.bufferedFills) /\ SomeOf(y, rp, rp)
  BY DEF SameEntries, SomeOf
<1>4. ASSUME NEW oid, Owns(own, oid, y)
      PROVE  /\ Under(st2, s.bufferedFills, oid) <= Under(st, s.bufferedFills, oid)
             /\ CountOf(st2, "oid", oid) <= CountOf(st, "oid", oid)
             /\ CountOf(rp, "oid", oid) <= CountOf(rp, "oid", oid)
  <2>1. e.oid # oid
    BY <1>4 DEF Owns
  <2>2. OneOf(e, "oid", oid) = 0
    BY <2>1 DEF OneOf, IsCounted
  <2>n. PICK a \in Nat, d \in Nat, m \in Nat :
          /\ a = CountOf(st, "oid", oid) /\ d = Under(st, s.bufferedFills, oid)
          /\ m = CountOf(rp, "oid", oid)
    BY UnderTypes, Counted DEF Owned
  <2>3. /\ CountOf(st2, "oid", oid) = CountOf(st, "oid", oid) + OneOf(e, "oid", oid)
        /\ Under(st2, s.bufferedFills, oid) = Under(st, s.bufferedFills, oid) + OneOf(e, "oid", oid)
    BY AppendUnder
  <2> QED
    BY <2>2, <2>3, <2>n
<1> QED
  <2>1. NoMoreUnder(own, y, st, s.bufferedFills, st2, s.bufferedFills)
    BY <1>4 DEF NoMoreUnder
  <2> QED
    BY <1>1, <1>2, <1>3, <1>4, <2>1, Apart

(* The order ends.                                                         *)
LEMMA OrderEnds ==
  ASSUME NEW y, NEW b, NEW s, NEW st, NEW rp, Order(y, b, s, st, rp),
         NEW b2, b2.oid = b.oid, b2.left = b.left, b2.done = b.done, b2.state = "ended"
  PROVE  Order(y, b2, s, st, rp)
<1>1. Announced(y, b2, st, s.bufferedFills, rp)
  BY DEF Order, Announced, HandedOut, EndsDated, OpensFit
<1>2. ActiveFits(y, b2, s, st)
  BY DEF Order, ActiveFits
<1>3. ASSUME y \in DOMAIN s.cloidToClient
      PROVE  Followed(y, b2, s, st, rp)
  <2>1. Followed(y, b, s, st, rp)
    BY <1>3 DEF Order
  <2>2. EndsLed(y, b2, s, st) /\ BookLed(y, b2, s, st)
    BY <2>1 DEF Followed, EndsLed, BookLed, Passed
  <2>3. Measured(y, b2, s, st, rp)
    BY <2>1 DEF Followed, Measured
  <2> QED
    BY <2>1, <2>2, <2>3 DEF Followed
<1>4. y \in DOMAIN s.cloidToClient => Followed(y, b2, s, st, rp)
  BY <1>3
<1> QED
  BY <1>1, <1>2, <1>4 DEF Order

(* The indices of what is said of an order.                                *)
LEMMA SaidFacts ==
  ASSUME NEW st \in Seq(Events), NEW e \in Events, NEW st2, Says(st, e, st2)
  PROVE  /\ \A i \in 1 .. Len(st2) :
              \/ i \in 1 .. Len(st) /\ st2[i] = st[i]
              \/ i = Len(st) + 1 /\ st2[i] = e
         /\ \A i \in 1 .. Len(st) : i \in 1 .. Len(st2) /\ st2[i] = st[i]
         /\ Len(st) + 1 \in 1 .. Len(st2) /\ st2[Len(st) + 1] = e
         /\ \A y, oid : Opened(st, y, oid) => Opened(st2, y, oid)
<1>n. PICK n : n = Len(st)
  OBVIOUS
<1>1. /\ n \in Nat /\ Len(st2) = n + 1
      /\ \A i \in 1 .. n : st2[i] = st[i]
      /\ st2[n + 1] = e
  BY <1>n, AppendFacts
<1>2. 1 .. Len(st2) = 1 .. n + 1 /\ 1 .. Len(st) = 1 .. n
  BY <1>n, <1>1
<1>3. \A i \in 1 .. n + 1 : i \in 1 .. n \/ i = n + 1
  BY <1>1
<1>4. n + 1 \in 1 .. n + 1 /\ \A i \in 1 .. n : i \in 1 .. n + 1
  BY <1>1
<1>5. \A i \in 1 .. Len(st) : i \in 1 .. Len(st2) /\ st2[i] = st[i]
  BY <1>1, <1>2, <1>4
<1>6. \A y, oid : Opened(st, y, oid) => Opened(st2, y, oid)
  BY <1>5 DEF Opened
<1> QED
  BY <1>n, <1>1, <1>2, <1>3, <1>4, <1>5, <1>6

(* An update that ends the present oid of an ended order, or an older one. *)
LEMMA EndSaid ==
  ASSUME NEW own, NEW y, NEW b, b.done \in Nat,
         NEW s, NEW st, NEW rp, Owned(own, s, st, rp), Order(y, b, s, st, rp),
         NEW e \in Events, e.cloid = y, IsEnd(e),
         b.oid <= e.oid => b.state = "ended", b.oid = 0 \/ e.oid < b.oid \/ e.oid = b.oid,
         NEW st2, Says(st, e, st2)
  PROVE  Order(y, b, s, st2, rp)
<1>n. PICK n : n = Len(st)
  OBVIOUS
<1>b. PICK buffer : buffer = s.bufferedFills
  OBVIOUS
<1>1. /\ n \in Nat
      /\ \A i \in 1 .. Len(st2) : (i \in 1 .. n /\ st2[i] = st[i]) \/ (i = n + 1 /\ st2[i] = e)
      /\ \A i \in 1 .. n : i \in 1 .. Len(st2) /\ st2[i] = st[i]
      /\ \A oid : Opened(st, y, oid) => Opened(st2, y, oid)
  <2>1. n \in Nat
    BY <1>n, LenProperties DEF Owned
  <2> QED
    BY <1>n, <2>1, SaidFacts DEF Owned
<1>2. ~IsOpen(e) /\ e.type # "fill"
  BY DEF IsEnd, IsOpen
<1>3. \A oid : OneOf(e, "oid", oid) = 0
  BY <1>2 DEF OneOf, IsCounted
<1>4. \A oid : /\ Under(st2, buffer, oid) = Under(st, buffer, oid)
               /\ CountOf(st2, "oid", oid) = CountOf(st, "oid", oid)
  <2>1. ASSUME NEW oid
        PROVE  /\ Under(st2, buffer, oid) = Under(st, buffer, oid)
               /\ CountOf(st2, "oid", oid) = CountOf(st, "oid", oid)
    <3>1. /\ Under(st2, buffer, oid) = Under(st, buffer, oid) + 0
          /\ CountOf(st2, "oid", oid) = CountOf(st, "oid", oid) + 0
      BY <1>b, <1>3, AppendUnder
    <3> QED
      BY <1>b, <3>1, UnderTypes
  <2> QED
    BY <2>1
<1>5. Announced(y, b, st2, buffer, rp)
  <2>0. Announced(y, b, st, buffer, rp)
    BY <1>b DEF Order
  <2>1. HandedOut(y, b, st2)
    BY <1>1, <1>n, <2>0 DEF Announced, HandedOut
  <2>2. EndsDated(y, b, st2)
    BY <1>1, <1>n, <2>0 DEF Announced, EndsDated
  <2>3. InOrder(y, st2)
    <3>1. SUFFICES ASSUME NEW i \in 1 .. Len(st2), NEW j \in 1 .. Len(st2), i < j,
                          st2[i].cloid = y, st2[j].cloid = y, IsOpen(st2[i]),
                          IsOpen(st2[j]) \/ st2[j].type = "fill"
                   PROVE  /\ IsOpen(st2[j]) => st2[i].oid < st2[j].oid
                          /\ st2[j].type = "fill" => st2[i].oid <= st2[j].oid
      BY DEF InOrder
    <3>2. i \in 1 .. n /\ j \in 1 .. n /\ st2[i] = st[i] /\ st2[j] = st[j]
      BY <1>1, <1>2, <3>1
    <3> QED
      BY <1>n, <2>0, <3>1, <3>2 DEF Announced, InOrder
  <2>4. OpensFit(y, b, st2, buffer)
    BY <1>1, <1>2, <1>4, <1>n, <2>0 DEF Announced, OpensFit
  <2> QED
    BY <2>0, <2>1, <2>2, <2>3, <2>4 DEF Announced
<1>6. ActiveFits(y, b, s, st2)
  BY <1>1, <1>2, <1>n DEF Order, ActiveFits
<1>7. ASSUME y \in DOMAIN s.cloidToClient
      PROVE  Followed(y, b, s, st2, rp)
  <2>0. Followed(y, b, s, st, rp)
    BY <1>7 DEF Order
  <2>1. FillsLed(y, s, st2)
    BY <1>1, <1>2, <1>n, <2>0 DEF Followed, FillsLed
  <2>2. BufferLed(y, st2, buffer) /\ BookLed(y, b, s, st2)
    BY <1>1, <1>b, <2>0 DEF Followed, BufferLed, BookLed
  <2>3. EndsLed(y, b, s, st2)
    <3>1. SUFFICES ASSUME NEW i \in 1 .. Len(st2), st2[i].cloid = y, IsEnd(st2[i]), b.oid # 0
                   PROVE  \/ \E oid \in Nat : IsCurrent(s, y, oid) /\ Passed(st2[i], oid, b)
                          \/ \E j \in 1 .. i - 1 :
                               st2[j].cloid = y /\ IsOpen(st2[j]) /\ Passed(st2[i], st2[j].oid, b)
      BY DEF EndsLed
    <3>2. CASE i \in 1 .. n /\ st2[i] = st[i]
      <4>1. \/ \E oid \in Nat : IsCurrent(s, y, oid) /\ Passed(st[i], oid, b)
            \/ \E j \in 1 .. i - 1 : st[j].cloid = y /\ IsOpen(st[j]) /\ Passed(st[i], st[j].oid, b)
        BY <1>n, <2>0, <3>1, <3>2 DEF Followed, EndsLed
      <4>2. \A j \in 1 .. i - 1 : st2[j] = st[j]
        BY <1>1, <3>2
      <4> QED
        BY <3>2, <4>1, <4>2
    <3>3. CASE i = n + 1 /\ st2[i] = e
      <4>1. Passed(e, b.oid, b)
        BY <3>1 DEF Passed
      <4>2. CASE IsCurrent(s, y, b.oid)
        <5>1. b.oid \in Nat
          BY <4>2, ActiveTypes DEF Owned
        <5> QED
          BY <3>3, <4>1, <4>2, <5>1
      <4>3. CASE Opened(st, y, b.oid)
        <5>1. PICK j \in 1 .. n : st[j].cloid = y /\ IsOpen(st[j]) /\ st[j].oid = b.oid
          BY <1>n, <4>3 DEF Opened
        <5>2. j \in 1 .. i - 1 /\ st2[j] = st[j]
          BY <1>1, <3>3
        <5> QED
          BY <3>3, <4>1, <5>1, <5>2
      <4> QED
        BY <2>0, <3>1, <4>2, <4>3 DEF Followed, BookLed
    <3> QED
      BY <1>1, <3>2, <3>3
  <2>4. Measured(y, b, s, st2, rp)
    BY <1>4, <2>0 DEF Followed, Measured, Tally
  <2> QED
    BY <1>b, <2>0, <2>1, <2>2, <2>3, <2>4 DEF Followed
<1> QED
  BY <1>b, <1>5, <1>6, <1>7 DEF Order

(* The Open of an oid that was never used before: the order is placed, or  *)
(* modified while something of it is left.                                 *)
LEMMA OpenSaid ==
  ASSUME NEW own, NEW y, NEW b, b.done \in Nat, b.left \in Nat, b.oid \in Nat,
         NEW s, NEW st, NEW rp, Owned(own, s, st, rp), Order(y, b, s, st, rp),
         b.oid = 0 \/ b.left # 0, b.state # "ended",
         NEW e \in Events, e.cloid = y, IsOpen(e), b.oid < e.oid,
         \A i \in 1 .. Len(st) : st[i].oid < e.oid,
         Under(st, s.bufferedFills, e.oid) = 0,
         NEW b2, b2.oid = e.oid, b2.done = 0, b2.left \in Nat, b2.left <= e.origSz,
         NEW st2, Says(st, e, st2)
  PROVE  Order(y, b2, s, st2, rp)
<1>n. PICK n : n = Len(st)
  OBVIOUS
<1>b. PICK buffer : buffer = s.bufferedFills
  OBVIOUS
<1>1. /\ n \in Nat
      /\ \A i \in 1 .. Len(st2) : (i \in 1 .. n /\ st2[i] = st[i]) \/ (i = n + 1 /\ st2[i] = e)
      /\ \A i \in 1 .. n : i \in 1 .. Len(st2) /\ st2[i] = st[i]
      /\ n + 1 \in 1 .. Len(st2) /\ st2[n + 1] = e
      /\ \A oid : Opened(st, y, oid) => Opened(st2, y, oid)
  <2>1. n \in Nat
    BY <1>n, LenProperties DEF Owned
  <2> QED
    BY <1>n, <2>1, SaidFacts DEF Owned
<1>2. ~IsEnd(e) /\ e.type = "update" /\ e.oid \in Nat /\ e.origSz \in Nat
  BY DEF IsEnd, IsOpen, Events, Update, Fill
<1>3. \A oid : OneOf(e, "oid", oid) = 0
  BY <1>2 DEF OneOf, IsCounted
<1>4. \A oid : /\ Under(st2, buffer, oid) = Under(st, buffer, oid)
               /\ CountOf(st2, "oid", oid) = CountOf(st, "oid", oid)
  <2>1. ASSUME NEW oid
        PROVE  /\ Under(st2, buffer, oid) = Under(st, buffer, oid)
               /\ CountOf(st2, "oid", oid) = CountOf(st, "oid", oid)
    <3>1. /\ Under(st2, buffer, oid) = Under(st, buffer, oid) + 0
          /\ CountOf(st2, "oid", oid) = CountOf(st, "oid", oid) + 0
      BY <1>b, <1>3, AppendUnder
    <3> QED
      BY <1>b, <3>1, UnderTypes
  <2> QED
    BY <2>1
<1>5. \A i \in 1 .. n : st[i].oid < e.oid /\ st[i].oid \in Nat
  BY <1>n, EventTypes DEF Owned
<1>6. Announced(y, b2, st2, buffer, rp)
  <2>0. Announced(y, b, st, buffer, rp)
    BY <1>b DEF Order
  <2>1. HandedOut(y, b2, st2)
    BY <1>1, <1>2, <1>5, <1>n, <2>0 DEF Announced, HandedOut
  <2>2. HandedOut(y, b2, buffer) /\ HandedOut(y, b2, rp)
    <3>1. buffer \in Seq(Fill) /\ rp \in Seq(Fill)
      BY <1>b DEF Owned, Typed
    <3>2. /\ \A i \in 1 .. Len(buffer) : buffer[i].oid \in Nat
          /\ \A i \in 1 .. Len(rp) : rp[i].oid \in Nat
      BY <3>1, FillTypes
    <3> QED
      BY <1>2, <2>0, <3>2 DEF Announced, HandedOut
  <2>3. EndsDated(y, b2, st2)
    BY <1>1, <1>2, <1>5 DEF EndsDated
  <2>4. InOrder(y, st2)
    <3>1. SUFFICES ASSUME NEW i \in 1 .. Len(st2), NEW j \in 1 .. Len(st2), i < j,
                          st2[i].cloid = y, st2[j].cloid = y, IsOpen(st2[i])
                   PROVE  /\ IsOpen(st2[j]) => st2[i].oid < st2[j].oid
                          /\ st2[j].type = "fill" => st2[i].oid <= st2[j].oid
      BY DEF InOrder
    <3>2. i \in 1 .. n /\ st2[i] = st[i]
      BY <1>1, <3>1
    <3>3. CASE j \in 1 .. n /\ st2[j] = st[j]
      BY <1>n, <2>0, <3>1, <3>2, <3>3 DEF Announced, InOrder
    <3>4. CASE st2[j] = e
      BY <1>2, <1>5, <3>2, <3>4
    <3> QED
      BY <1>1, <3>3, <3>4
  <2>5. OpensFit(y, b2, st2, buffer)
    <3>1. SUFFICES ASSUME NEW i \in 1 .. Len(st2), st2[i].cloid = y, IsOpen(st2[i])
                   PROVE  /\ st2[i].oid = b2.oid =>
                               /\ Under(st2, buffer, st2[i].oid) <= b2.done
                               /\ b2.done + b2.left <= st2[i].origSz
                          /\ st2[i].oid < b2.oid => Under(st2, buffer, st2[i].oid) < st2[i].origSz
      BY DEF OpensFit
    <3>2. CASE st2[i] = e
      BY <1>2, <1>4, <1>b, <3>2
    <3>3. CASE i \in 1 .. n /\ st2[i] = st[i]
      <4>o. PICK oid, z : oid = st[i].oid /\ z = st[i].origSz
        OBVIOUS
      <4>1. oid \in Nat /\ z \in Nat /\ oid < e.oid
        BY <1>5, <1>n, <3>1, <3>3, <4>o, EventTypes DEF Owned, IsOpen
      <4>m. PICK m \in Nat : m = Under(st, buffer, oid)
        BY <1>b, UnderTypes
      <4>2. /\ oid = b.oid => m <= b.done /\ b.done + b.left <= z
            /\ oid < b.oid => m < z
            /\ 0 < oid /\ oid <= b.oid
        <5>1. ~IsEnd(st[i])
          BY <3>1, <3>3 DEF IsOpen, IsEnd
        <5> QED
          BY <1>n, <2>0, <3>1, <3>3, <4>m, <4>o, <5>1 DEF Announced, OpensFit, HandedOut
      <4>3. m < z
        BY <4>1, <4>2
      <4> QED
        BY <1>2, <1>4, <3>3, <4>1, <4>3, <4>m, <4>o
    <3> QED
      BY <1>1, <3>2, <3>3
  <2> QED
    BY <2>1, <2>2, <2>3, <2>4, <2>5 DEF Announced
<1>7. ASSUME NEW a, IsCurrent(s, y, a)
      PROVE  a \in Nat /\ 0 < a /\ a <= b.oid /\ a < e.oid
  <2>1. a \in Nat
    BY <1>7, ActiveTypes DEF Owned
  <2>2. 0 < a /\ a <= b.oid
    BY <1>7 DEF Order, ActiveFits, IsCurrent
  <2> QED
    BY <1>2, <2>1, <2>2
<1>8. ActiveFits(y, b2, s, st2)
  <2>1. ASSUME y \in DOMAIN s.cloidToOid
        PROVE  /\ Owns(s.oidToCloid, s.cloidToOid[y], y)
               /\ 0 < s.cloidToOid[y] /\ s.cloidToOid[y] <= b2.oid
               /\ \A i \in 1 .. Len(st2) :
                    st2[i].cloid = y /\ IsOpen(st2[i]) => s.cloidToOid[y] < st2[i].oid
    <3>1. IsCurrent(s, y, s.cloidToOid[y])
      BY <2>1 DEF IsCurrent
    <3>2. /\ Owns(s.oidToCloid, s.cloidToOid[y], y)
          /\ \A i \in 1 .. n : st[i].cloid = y /\ IsOpen(st[i]) => s.cloidToOid[y] < st[i].oid
      BY <1>n, <2>1 DEF Order, ActiveFits
    <3> QED
      BY <1>1, <1>2, <1>7, <3>1, <3>2
  <2> QED
    BY <2>1 DEF ActiveFits
<1>9. ASSUME y \in DOMAIN s.cloidToClient
      PROVE  Followed(y, b2, s, st2, rp)
  <2>0. Followed(y, b, s, st, rp)
    BY <1>9 DEF Order
  <2>1. FillsLed(y, s, st2)
    BY <1>1, <1>2, <1>n, <2>0 DEF Followed, FillsLed
  <2>2. BufferLed(y, st2, buffer) /\ BookLed(y, b2, s, st2)
    <3>1. Opened(st2, y, e.oid)
      BY <1>1 DEF Opened
    <3> QED
      BY <1>1, <1>b, <2>0, <3>1 DEF Followed, BufferLed, BookLed
  <2>3. EndsLed(y, b2, s, st2)
    <3>1. SUFFICES ASSUME NEW i \in 1 .. Len(st2), st2[i].cloid = y, IsEnd(st2[i])
                   PROVE  \/ \E oid \in Nat : IsCurrent(s, y, oid) /\ Passed(st2[i], oid, b2)
                          \/ \E j \in 1 .. i - 1 :
                               st2[j].cloid = y /\ IsOpen(st2[j]) /\ Passed(st2[i], st2[j].oid, b2)
      BY DEF EndsLed
    <3>2. i \in 1 .. n /\ st2[i] = st[i]
      BY <1>1, <1>2, <3>1
    <3>3. st[i].oid < b.oid /\ st[i].oid \in Nat
      <4>1. EndsDated(y, b, st)
        BY DEF Order, Announced
      <4>2. ~(b.oid <= st[i].oid)
        BY <1>n, <3>1, <3>2, <4>1 DEF EndsDated
      <4> QED
        BY <1>5, <3>2, <4>2
    <3>4. \/ \E oid \in Nat : IsCurrent(s, y, oid) /\ Passed(st[i], oid, b)
          \/ \E j \in 1 .. i - 1 : st[j].cloid = y /\ IsOpen(st[j]) /\ Passed(st[i], st[j].oid, b)
      BY <1>n, <2>0, <3>1, <3>2, <3>3 DEF Followed, EndsLed
    <3>5. \A j \in 1 .. i - 1 : st2[j] = st[j]
      BY <1>1, <3>2
    <3>6. \A oid : Passed(st[i], oid, b) => Passed(st[i], oid, b2)
      BY <3>3 DEF Passed
    <3> QED
      BY <3>2, <3>4, <3>5, <3>6
  <2>4. Measured(y, b2, s, st2, rp)
    <3>1. SUFFICES ASSUME NEW oid, IsCurrent(s, y, oid)
                   PROVE  /\ ~(oid = b2.oid)
                          /\ Tally(s, st2, rp, y, oid) < StateOf(s, y).origSz
      BY DEF Measured
    <3>2. oid \in Nat /\ 0 < oid /\ oid <= b.oid /\ oid < e.oid
      BY <1>7, <3>1
    <3>m. PICK m \in Nat, z \in Nat : m = Tally(s, st, rp, y, oid) /\ z = StateOf(s, y).origSz
      BY <3>1, TallyTypes
    <3>3. /\ oid = b.oid => m <= b.done /\ b.done + b.left <= z
          /\ oid < b.oid => m < z
      BY <2>0, <3>1, <3>m DEF Followed, Measured
    <3>4. Tally(s, st2, rp, y, oid) = m
      BY <1>4, <3>m DEF Tally
    <3>5. m < z
      BY <3>2, <3>3
    <3> QED
      BY <1>2, <3>2, <3>4, <3>5, <3>m
  <2> QED
    BY <1>b, <2>0, <2>1, <2>2, <2>3, <2>4 DEF Followed
<1> QED
  BY <1>b, <1>6, <1>8, <1>9 DEF Order

(* A fill of the order's present oid.                                      *)
LEMMA FillSaid ==
  ASSUME NEW own, NEW y, NEW b, b.done \in Nat, b.left \in Nat, b.left # 0, b.oid \in Nat, b.oid # 0,
         NEW s, NEW st, NEW rp, Owned(own, s, st, rp), Order(y, b, s, st, rp),
         NEW e \in Events, e.cloid = y, e.type = "fill", e.oid = b.oid,
         NEW b2, b2.oid = b.oid, b2.done = b.done + 1, b2.left = b.left - 1,
         b.state = "ended" => b2.state = "ended",
         NEW st2, Says(st, e, st2)
  PROVE  Order(y, b2, s, st2, rp)
<1>n. PICK n : n = Len(st)
  OBVIOUS
<1>b. PICK buffer : buffer = s.bufferedFills
  OBVIOUS
<1>1. /\ n \in Nat
      /\ \A i \in 1 .. Len(st2) : (i \in 1 .. n /\ st2[i] = st[i]) \/ (i = n + 1 /\ st2[i] = e)
      /\ \A i \in 1 .. n : i \in 1 .. Len(st2) /\ st2[i] = st[i]
      /\ \A oid : Opened(st, y, oid) => Opened(st2, y, oid)
  <2>1. n \in Nat
    BY <1>n, LenProperties DEF Owned
  <2> QED
    BY <1>n, <2>1, SaidFacts DEF Owned
<1>2. ~IsEnd(e) /\ ~IsOpen(e)
  BY DEF IsEnd, IsOpen
<1>3. ASSUME NEW oid
      PROVE  /\ Under(st2, buffer, oid) =
                  IF oid = b.oid THEN Under(st, buffer, oid) + 1 ELSE Under(st, buffer, oid)
             /\ CountOf(st2, "oid", oid) =
                  IF oid = b.oid THEN CountOf(st, "oid", oid) + 1 ELSE CountOf(st, "oid", oid)
             /\ Under(st, buffer, oid) \in Nat /\ CountOf(st, "oid", oid) \in Nat
  <2>1. OneOf(e, "oid", oid) = IF oid = b.oid THEN 1 ELSE 0
    BY DEF OneOf, IsCounted
  <2>2. /\ Under(st2, buffer, oid) = Under(st, buffer, oid) + OneOf(e, "oid", oid)
        /\ CountOf(st2, "oid", oid) = CountOf(st, "oid", oid) + OneOf(e, "oid", oid)
    BY <1>b, AppendUnder
  <2>n. PICK k \in Nat, m \in Nat : k = Under(st, buffer, oid) /\ m = CountOf(st, "oid", oid)
    BY <1>b, UnderTypes
  <2> QED
    BY <2>1, <2>2, <2>n
<1>4. Announced(y, b2, st2, buffer, rp)
  <2>0. Announced(y, b, st, buffer, rp)
    BY <1>b DEF Order
  <2>1. HandedOut(y, b2, st2) /\ HandedOut(y, b2, buffer) /\ HandedOut(y, b2, rp)
    BY <1>1, <1>n, <2>0 DEF Announced, HandedOut
  <2>2. EndsDated(y, b2, st2)
    BY <1>1, <1>2, <1>n, <2>0 DEF Announced, EndsDated
  <2>3. InOrder(y, st2)
    <3>1. SUFFICES ASSUME NEW i \in 1 .. Len(st2), NEW j \in 1 .. Len(st2), i < j,
                          st2[i].cloid = y, st2[j].cloid = y, IsOpen(st2[i])
                   PROVE  /\ IsOpen(st2[j]) => st2[i].oid < st2[j].oid
                          /\ st2[j].type = "fill" => st2[i].oid <= st2[j].oid
      BY DEF InOrder
    <3>2. i \in 1 .. n /\ st2[i] = st[i]
      BY <1>1, <1>2, <3>1
    <3>3. CASE j \in 1 .. n /\ st2[j] = st[j]
      BY <1>n, <2>0, <3>1, <3>2, <3>3 DEF Announced, InOrder
    <3>4. CASE st2[j] = e
      <4>1. ~IsEnd(st[i])
        BY <3>1, <3>2 DEF IsOpen, IsEnd
      <4>2. st[i].oid <= b.oid
        BY <1>n, <2>0, <3>1, <3>2, <4>1 DEF Announced, HandedOut
      <4> QED
        BY <1>2, <3>2, <3>4, <4>2
    <3> QED
      BY <1>1, <3>3, <3>4
  <2>4. OpensFit(y, b2, st2, buffer)
    <3>1. SUFFICES ASSUME NEW i \in 1 .. Len(st2), st2[i].cloid = y, IsOpen(st2[i])
                   PROVE  /\ st2[i].oid = b2.oid =>
                               /\ Under(st2, buffer, st2[i].oid) <= b2.done
                               /\ b2.done + b2.left <= st2[i].origSz
                          /\ st2[i].oid < b2.oid => Under(st2, buffer, st2[i].oid) < st2[i].origSz
      BY DEF OpensFit
    <3>2. i \in 1 .. n /\ st2[i] = st[i]
      BY <1>1, <1>2, <3>1
    <3>o. PICK oid, z : oid = st[i].oid /\ z = st[i].origSz
      OBVIOUS
    <3>3. oid \in Nat /\ z \in Nat
      BY <1>n, <3>1, <3>2, <3>o, EventTypes DEF Owned, IsOpen
    <3>m. PICK m \in Nat, k \in Nat : m = Under(st, buffer, oid) /\ k = Under(st2, buffer, oid)
      <4>1. Under(st, buffer, oid) \in Nat /\ Under(st2, buffer, oid) \in Nat
        BY <1>3
      <4> QED
        BY <4>1
    <3>4. k = IF oid = b.oid THEN m + 1 ELSE m
      BY <1>3, <3>m
    <3>5. /\ oid = b.oid => m <= b.done /\ b.done + b.left <= z
          /\ oid < b.oid => m < z
      BY <1>n, <2>0, <3>1, <3>2, <3>m, <3>o DEF Announced, OpensFit
    <3>6. /\ oid = b.oid => k <= b2.done /\ b2.done + b2.left <= z
          /\ oid < b.oid => k < z
      BY <3>3, <3>4, <3>5
    <3> QED
      BY <3>2, <3>6, <3>m, <3>o
  <2> QED
    BY <2>1, <2>2, <2>3, <2>4 DEF Announced
<1>5. ActiveFits(y, b2, s, st2)
  BY <1>1, <1>2, <1>n DEF Order, ActiveFits
<1>6. ASSUME y \in DOMAIN s.cloidToClient
      PROVE  Followed(y, b2, s, st2, rp)
  <2>0. Followed(y, b, s, st, rp)
    BY <1>6 DEF Order
  <2>1. FillsLed(y, s, st2)
    <3>1. IsCurrent(s, y, b.oid) \/ Opened(st, y, b.oid)
      BY <2>0 DEF Followed, BookLed
    <3> QED
      BY <1>1, <1>n, <2>0, <3>1 DEF Followed, FillsLed
  <2>2. BufferLed(y, st2, buffer) /\ BookLed(y, b2, s, st2)
    BY <1>1, <1>b, <2>0 DEF Followed, BufferLed, BookLed
  <2>3. EndsLed(y, b2, s, st2)
    <3>1. SUFFICES ASSUME NEW i \in 1 .. Len(st2), st2[i].cloid = y, IsEnd(st2[i])
                   PROVE  \/ \E oid \in Nat : IsCurrent(s, y, oid) /\ Passed(st2[i], oid, b2)
                          \/ \E j \in 1 .. i - 1 :
                               st2[j].cloid = y /\ IsOpen(st2[j]) /\ Passed(st2[i], st2[j].oid, b2)
      BY DEF EndsLed
    <3>2. i \in 1 .. n /\ st2[i] = st[i]
      BY <1>1, <1>2, <3>1
    <3>4. \/ \E oid \in Nat : IsCurrent(s, y, oid) /\ Passed(st[i], oid, b)
          \/ \E j \in 1 .. i - 1 : st[j].cloid = y /\ IsOpen(st[j]) /\ Passed(st[i], st[j].oid, b)
      BY <1>n, <2>0, <3>1, <3>2 DEF Followed, EndsLed
    <3>5. \A j \in 1 .. i - 1 : st2[j] = st[j]
      BY <1>1, <3>2
    <3>6. \A oid : Passed(st[i], oid, b) => Passed(st[i], oid, b2)
      BY DEF Passed
    <3> QED
      BY <3>2, <3>4, <3>5, <3>6
  <2>4. Measured(y, b2, s, st2, rp)
    <3>1. SUFFICES ASSUME NEW oid, IsCurrent(s, y, oid)
                   PROVE  /\ oid = b2.oid =>
                               /\ Tally(s, st2, rp, y, oid) <= b2.done
                               /\ b2.done + b2.left <= StateOf(s, y).origSz
                          /\ oid < b2.oid => Tally(s, st2, rp, y, oid) < StateOf(s, y).origSz
      BY DEF Measured
    <3>m. PICK c \in Nat, k \in Nat, m \in Nat, z \in Nat :
            /\ c = StateOf(s, y).cumQty /\ z = StateOf(s, y).origSz
            /\ k = CountOf(st, "oid", oid) /\ m = CountOf(rp, "oid", oid)
      BY <3>1, TallyTypes
    <3>k. PICK k2 \in Nat : k2 = CountOf(st2, "oid", oid) /\ k2 = (IF oid = b.oid THEN k + 1 ELSE k)
      BY <1>3, <3>m
    <3>3. Tally(s, st, rp, y, oid) = c + k + m /\ Tally(s, st2, rp, y, oid) = c + k2 + m
      BY <3>k, <3>m DEF Tally
    <3>4. /\ oid = b.oid => c + k + m <= b.done /\ b.done + b.left <= z
          /\ oid < b.oid => c + k + m < z
      BY <2>0, <3>1, <3>3, <3>m DEF Followed, Measured
    <3>5. /\ oid = b.oid => c + k2 + m <= b2.done /\ b2.done + b2.left <= z
          /\ oid < b.oid => c + k2 + m < z
      BY <3>4, <3>k
    <3> QED
      BY <3>3, <3>5, <3>m
  <2> QED
    BY <1>b, <2>0, <2>1, <2>2, <2>3, <2>4 DEF Followed
<1> QED
  BY <1>b, <1>4, <1>5, <1>6 DEF Order

-----------------------------------------------------------------------------
(* The exchange's steps: what becomes of one order, x, and what is said of *)
(* it, one event after the other.                                          *)
BookOids ==
  \A x \in Cloids :
    /\ book[x].state = "unknown" => book[x].oid = 0
    /\ book[x].state = "live" => book[x].oid # 0
    /\ book[x].oid < nextOid

OrderInv == BookOids /\ Orders(book, gw, stream, replaying)

Abides(own, x, b, s, st, rp) ==
  /\ Owned(own, s, st, rp)
  /\ Order(x, b, s, st, rp)
  /\ \A y \in Cloids : y # x => Order(y, book[y], s, st, rp)

LEMMA SaidOwned ==
  ASSUME IInv, NEW own, NEW x, NEW b, NEW s, NEW st, NEW rp, Abides(own, x, b, s, st, rp),
         NEW e \in Events, e.cloid = x, Owns(own, e.oid, x), NEW st2, Says(st, e, st2)
  PROVE  /\ Owned(own, s, st2, rp)
         /\ \A y \in Cloids : y # x => Order(y, book[y], s, st2, rp)
<1>1. Owned(own, s, st2, rp)
  BY AppendOwned DEF Abides
<1>2. ASSUME NEW y \in Cloids, y # x
      PROVE  Order(y, book[y], s, st2, rp)
  <2>1. book[y].done \in Nat
    BY EntryTypes
  <2> QED
    BY <1>2, <2>1, SaidElsewhere DEF Abides
<1> QED
  BY <1>1, <1>2

LEMMA AbidesOver ==
  ASSUME NEW own, NEW x, NEW b, NEW s, NEW st, NEW rp, Abides(own, x, b, s, st, rp),
         NEW b2, b2.oid = b.oid, b2.left = b.left, b2.done = b.done, b2.state = "ended"
  PROVE  Abides(own, x, b2, s, st, rp)
<1>1. Order(x, b, s, st, rp)
  BY DEF Abides
<1>2. Order(x, b2, s, st, rp)
  BY <1>1, OrderEnds
<1> QED
  BY <1>2 DEF Abides

LEMMA AbidesEnd ==
  ASSUME IInv, NEW own, NEW x, NEW b, b.done \in Nat,
         NEW s, NEW st, NEW rp, Abides(own, x, b, s, st, rp),
         NEW e \in Events, e.cloid = x, IsEnd(e), Owns(own, e.oid, x),
         b.oid <= e.oid => b.state = "ended", b.oid = 0 \/ e.oid < b.oid \/ e.oid = b.oid,
         NEW st2, Says(st, e, st2)
  PROVE  Abides(own, x, b, s, st2, rp)
<1>1. Owned(own, s, st, rp) /\ Order(x, b, s, st, rp)
  BY DEF Abides
<1>2. Order(x, b, s, st2, rp)
  BY <1>1, EndSaid
<1> QED
  BY <1>2, SaidOwned DEF Abides

LEMMA AbidesOpen ==
  ASSUME IInv, NEW own, NEW x, NEW b, b.done \in Nat, b.left \in Nat, b.oid \in Nat,
         NEW s, NEW st, NEW rp, Abides(own, x, b, s, st, rp),
         b.oid = 0 \/ b.left # 0, b.state # "ended",
         NEW e \in Events, e.cloid = x, IsOpen(e), Owns(own, e.oid, x), b.oid < e.oid,
         \A i \in 1 .. Len(st) : st[i].oid < e.oid,
         Under(st, s.bufferedFills, e.oid) = 0,
         NEW b2, b2.oid = e.oid, b2.done = 0, b2.left \in Nat, b2.left <= e.origSz,
         NEW st2, Says(st, e, st2)
  PROVE  Abides(own, x, b2, s, st2, rp)
<1>1. Owned(own, s, st, rp) /\ Order(x, b, s, st, rp)
  BY DEF Abides
<1>2. Order(x, b2, s, st2, rp)
  BY <1>1, OpenSaid
<1> QED
  BY <1>2, SaidOwned DEF Abides

LEMMA AbidesFill ==
  ASSUME IInv, NEW own, NEW x, NEW b, b.done \in Nat, b.left \in Nat, b.left # 0,
         b.oid \in Nat, b.oid # 0,
         NEW s, NEW st, NEW rp, Abides(own, x, b, s, st, rp),
         NEW e \in Events, e.cloid = x, e.type = "fill", e.oid = b.oid, Owns(own, e.oid, x),
         NEW b2, b2.oid = b.oid, b2.done = b.done + 1, b2.left = b.left - 1,
         b.state = "ended" => b2.state = "ended",
         NEW st2, Says(st, e, st2)
  PROVE  Abides(own, x, b2, s, st2, rp)
<1>1. Owned(own, s, st, rp) /\ Order(x, b, s, st, rp)
  BY DEF Abides
<1>2. Order(x, b2, s, st2, rp)
  BY <1>1, FillSaid
<1> QED
  BY <1>2, SaidOwned DEF Abides

LEMMA SaysOne ==
  ASSUME IInv, link = TRUE, NEW a \in Events, Produces(<<a>>)
  PROVE  Says(stream, a, stream')
<1>1. stream' = stream \o <<a>> /\ stream \in Seq(Events)
  BY StreamTypes DEF Produces
<1>2. Append(stream, a) = stream \o <<a>>
  BY <1>1, AppendIsConcat
<1> QED
  BY <1>1, <1>2 DEF Says

LEMMA SaysTwo ==
  ASSUME IInv, link = TRUE, NEW a \in Events, NEW b \in Events, NEW v,
         v = <<a, b>> \/ v = <<a>> \o <<b>>, Produces(v)
  PROVE  \E st : Says(stream, a, st) /\ Says(st, b, stream')
<1>s. PICK s, t : s = <<a>> /\ t = <<b>>
  OBVIOUS
<1>1. s \in Seq(Events) /\ t \in Seq(Events) /\ stream \in Seq(Events)
  BY <1>s, StreamTypes
<1>2. v = s \o t
  <2>1. CASE v = <<a, b>>
    <3>1. v \in Seq(Events) /\ Len(v) = 2 /\ v[1] = a /\ v[2] = b
      BY <2>1
    <3>v. PICK w : w = s \o t
      OBVIOUS
    <3>2. w \in Seq(Events) /\ Len(w) = 2 /\ w[1] = a /\ w[2] = b
      BY <1>s, <3>v, OneAfterOther
    <3>3. \A i \in 1 .. Len(v) : v[i] = w[i]
      BY <3>1, <3>2
    <3>4. v = w
      BY <3>1, <3>2, <3>3, SeqEqual
    <3> QED
      BY <3>4, <3>v
  <2> QED
    BY <1>s, <2>1
<1>v. PICK st : st = Append(stream, a)
  OBVIOUS
<1>3. st = stream \o s /\ st \in Seq(Events)
  BY <1>1, <1>s, <1>v, AppendIsConcat, AppendProperties
<1>4. stream' = st \o t
  <2>1. stream' = stream \o (s \o t)
    BY <1>2 DEF Produces
  <2>2. (stream \o s) \o t = stream \o (s \o t)
    BY <1>1, ConcatAssociative
  <2> QED
    BY <1>3, <2>1, <2>2
<1>5. Append(st, b) = st \o t
  BY <1>3, <1>s, AppendIsConcat
<1> QED
  BY <1>4, <1>5, <1>v DEF Says

LEMMA GrownOwned ==
  ASSUME IInv, FillInv, NEW old, NEW own, Grown(old, own)
  PROVE  Owned(own, gw, stream, replaying)
<1>1. /\ AllOwned(old, stream) /\ AllOwned(old, gw.bufferedFills) /\ AllOwned(old, replaying)
      /\ OidsOwned(gw, old)
      /\ \A oid, y : Owns(old, oid, y) => Owns(own, oid, y)
  BY DEF Grown, OwnedBy, AllOwned
<1>2. /\ AllOwned(own, stream) /\ AllOwned(own, gw.bufferedFills) /\ AllOwned(own, replaying)
      /\ OidsOwned(gw, own)
  BY <1>1 DEF AllOwned, OidsOwned
<1> QED
  BY <1>2, StreamTypes DEF Owned, FillInv

LEMMA Abiding ==
  ASSUME IInv, FillInv, OrderInv, NEW old, NEW own, Grown(old, own), NEW x \in Cloids
  PROVE  Abides(own, x, book[x], gw, stream, replaying)
<1>1. Owned(own, gw, stream, replaying)
  BY GrownOwned
<1> QED
  BY <1>1 DEF Abides, OrderInv, Orders

Exchanged ==
  \E own, x, e :
    /\ x \in Cloids /\ e \in BookEntry /\ book' = [book EXCEPT ![x] = e]
    /\ book[x].state # "ended" /\ e.state # "unknown"
    /\ e.state = "live" => e.oid # 0
    /\ nextOid' \in Nat /\ e.oid < nextOid' /\ nextOid <= nextOid'
    /\ Abides(own, x, e, gw, stream', replaying)

(* An oid that is handed out is newer than all that are under way.         *)
LEMMA NewOid ==
  ASSUME IInv, FillInv, OrderInv
  PROVE  /\ nextOid \in Nat
         /\ \A i \in 1 .. Len(stream) : stream[i].oid < nextOid
         /\ Under(stream, gw.bufferedFills, nextOid) = 0
         /\ \A x \in Cloids : book[x].oid < nextOid
<1>0. nextOid \in Nat
  BY DEF IInv, TypesOK, ExchangeTypeOK
<1>1. PICK own : OwnedBy(own)
  BY DEF FillInv
<1>2. ASSUME NEW i \in 1 .. Len(stream)
      PROVE  stream[i].oid < nextOid
  <2>1. stream[i].oid \in 0 .. nextOid - 1
    BY <1>1 DEF OwnedBy, Owns
  <2> QED
    BY <1>0, <2>1
<1>3. Under(stream, gw.bufferedFills, nextOid) = 0
  BY OidsFresh DEF Fresh
<1> QED
  BY <1>0, <1>2, <1>3 DEF OrderInv, BookOids

LEMMA PlaceExchanged ==
  ASSUME IInv, FillInv, OrderInv, link = TRUE, AcceptPlace \/ RejectPlace
  PROVE  Exchanged
<1>r. PICK r, x : r = Head(requests) /\ x = r.cloid
  OBVIOUS
<1>0. requests # <<>> /\ r.kind = "place" /\ nextOid' = nextOid + 1
  BY <1>r DEF AcceptPlace, RejectPlace, IsNext
<1>1. /\ r \in Request /\ x \in Cloids /\ r.qty # 0 /\ r.qty \in Nat /\ r.ioc \in BOOLEAN
      /\ r = requests[1] /\ 1 \in 1 .. Len(requests)
  BY <1>r, <1>0, NextRequest DEF Request
<1>2. /\ nextOid \in Nat /\ Under(stream, gw.bufferedFills, nextOid) = 0
      /\ \A i \in 1 .. Len(stream) : stream[i].oid < nextOid
  BY NewOid
<1>b. PICK b : b = book[x]
  OBVIOUS
<1>3. b.state = "unknown" /\ b.oid = 0 /\ b.oid < nextOid
  <2>1. b.state = "unknown"
    BY <1>0, <1>1, <1>b, <1>r DEF FillInv, PlaceInv, IsPlace
  <2> QED
    BY <1>1, <1>b, <2>1 DEF OrderInv, BookOids
<1>4. b \in BookEntry /\ b.left \in Nat /\ b.done \in Nat
  BY <1>1, <1>b, EntryTypes
<1>5. PICK old : OwnedBy(old)
  BY DEF FillInv
<1>6. PICK own : Grown(old, own) /\ Owns(own, nextOid, x)
  BY <1>0, <1>1, <1>2, <1>5, OwnExtended
<1>7. Abides(own, x, b, gw, stream, replaying)
  BY <1>1, <1>6, <1>b, Abiding
<1>10. x \in Cloids /\ nextOid \in Nat /\ r.qty \in Nat
  BY <1>1, <1>2
<1>8. CASE AcceptPlace
  <2>e. PICK e : e = [state |-> "live", oid |-> nextOid, left |-> r.qty, done |-> 0,
                      ioc |-> r.ioc, filled |-> 0]
    OBVIOUS
  <2>1. /\ e \in BookEntry /\ e.state = "live" /\ e.oid = nextOid /\ e.done = 0
        /\ e.left = r.qty /\ e.left \in Nat
    BY <1>1, <1>2, <2>e DEF BookEntry
  <2>a. PICK a : a = Updated(x, nextOid, "Open", r.qty)
    OBVIOUS
  <2>2. a \in Events /\ a.cloid = x
    BY <1>10, <2>a, UpdatedIsEvent
  <2>3. IsOpen(a) /\ a.oid = nextOid /\ a.origSz = r.qty
    BY <2>a DEF Updated, IsOpen
  <2>4. book' = [book EXCEPT ![x] = e] /\ Produces(<<a>>)
    BY <1>r, <1>8, <2>a, <2>e DEF AcceptPlace
  <2>st. PICK st : st = stream'
    OBVIOUS
  <2>5. Says(stream, a, st)
    BY <2>2, <2>4, <2>st, SaysOne
  <2>6. e.left <= a.origSz
    BY <1>1, <2>1, <2>3
  <2>7. Abides(own, x, e, gw, st, replaying)
    BY <1>2, <1>3, <1>4, <1>6, <1>7, <2>1, <2>2, <2>3, <2>5, <2>6, AbidesOpen
  <2>8. nextOid' \in Nat /\ e.oid < nextOid' /\ nextOid <= nextOid' /\ e.oid # 0
    BY <1>0, <1>2, <1>3, <2>1
  <2> QED
    BY <1>1, <1>3, <1>b, <2>1, <2>4, <2>7, <2>8, <2>st DEF Exchanged
<1>9. CASE RejectPlace
  <2>e. PICK e : e = [book[x] EXCEPT !.state = "ended"]
    OBVIOUS
  <2>1. /\ e \in BookEntry /\ e.state = "ended" /\ e.oid = b.oid /\ e.left = b.left
        /\ e.done = b.done
    BY <1>4, <1>b, <2>e DEF BookEntry
  <2>a. PICK a : a = Updated(x, nextOid, "Rejected", r.qty)
    OBVIOUS
  <2>2. a \in Events /\ a.cloid = x
    BY <1>10, <2>a, UpdatedIsEvent
  <2>3. IsEnd(a) /\ a.oid = nextOid
    BY <2>a DEF Updated, IsEnd
  <2>4. book' = [book EXCEPT ![x] = e] /\ (Produces(<<a>>) \/ Produces(<<>>))
    BY <1>r, <1>9, <2>a, <2>e DEF RejectPlace
  <2>5. Abides(own, x, e, gw, stream, replaying)
    BY <1>7, <2>1, AbidesOver
  <2>6. Abides(own, x, e, gw, stream', replaying)
    <3>1. CASE Produces(<<a>>)
      <4>st. PICK st : st = stream'
        OBVIOUS
      <4>1. Says(stream, a, st)
        BY <2>2, <3>1, <4>st, SaysOne
      <4>2. Abides(own, x, e, gw, st, replaying)
        BY <1>3, <1>4, <1>6, <2>1, <2>2, <2>3, <2>5, <4>1, AbidesEnd
      <4> QED
        BY <4>2, <4>st
    <3>2. CASE Produces(<<>>)
      <4>1. stream' = stream
        BY <3>2, StreamTypes, ConcatEmptySeq DEF Produces
      <4> QED
        BY <2>5, <4>1
    <3> QED
      BY <2>4, <3>1, <3>2
  <2>7. nextOid' \in Nat /\ e.oid < nextOid' /\ nextOid <= nextOid'
    BY <1>0, <1>2, <1>3, <2>1
  <2> QED
    BY <1>1, <1>3, <1>b, <2>1, <2>4, <2>6, <2>7 DEF Exchanged
<1> QED
  BY <1>8, <1>9

LEMMA ModifyExchanged ==
  ASSUME IInv, FillInv, OrderInv, link = TRUE, AcceptModify
  PROVE  Exchanged
<1>r. PICK r, x : r = Head(requests) /\ x = r.cloid
  OBVIOUS
<1>0. /\ requests # <<>> /\ book[x].state = "live" /\ nextOid' = nextOid + 1 /\ r.kind = "modify"
  BY <1>r DEF AcceptModify, IsNext
<1>1. r \in Request /\ x \in Cloids /\ r.qty # 0 /\ r.qty \in Nat /\ r.ioc \in BOOLEAN
  BY <1>r, <1>0, NextRequest DEF Request
<1>2. /\ nextOid \in Nat /\ Under(stream, gw.bufferedFills, nextOid) = 0
      /\ \A i \in 1 .. Len(stream) : stream[i].oid < nextOid
      /\ book[x].oid < nextOid
  BY <1>1, NewOid
<1>b. PICK b : b = book[x]
  OBVIOUS
<1>3. /\ b \in BookEntry /\ b.oid \in Nat /\ b.left \in Nat /\ b.done \in Nat /\ b.left # 0
      /\ b.left + b.done \in Nat /\ b.state = "live" /\ b.oid < nextOid
  BY <1>0, <1>1, <1>2, <1>b, EntryTypes
<1>5. PICK old : OwnedBy(old)
  BY DEF FillInv
<1>6. PICK own : Grown(old, own) /\ Owns(own, nextOid, x)
  BY <1>0, <1>1, <1>2, <1>5, OwnExtended
<1>7. Abides(own, x, b, gw, stream, replaying) /\ Owns(own, b.oid, x)
  <2>1. Owns(old, b.oid, x)
    BY <1>1, <1>3, <1>5, <1>b DEF OwnedBy
  <2> QED
    BY <1>1, <1>6, <1>b, <2>1, Abiding DEF Grown
<1>e. PICK e : e = [b EXCEPT !.oid = nextOid, !.left = r.qty, !.done = 0, !.ioc = r.ioc]
  OBVIOUS
<1>8. /\ e \in BookEntry /\ e.state = "live" /\ e.oid = nextOid /\ e.done = 0
      /\ e.left = r.qty /\ e.left \in Nat
  BY <1>1, <1>2, <1>3, <1>e DEF BookEntry
<1>q. PICK q \in Nat, o \in Nat : q = b.left + b.done /\ o = b.oid
  BY <1>3
<1>u. PICK u, v : u = Updated(x, nextOid, "Open", r.qty) /\ v = Updated(x, o, "Canceled", q)
  OBVIOUS
<1>9. x \in Cloids /\ nextOid \in Nat /\ r.qty \in Nat
  BY <1>1, <1>2
<1>10. u \in Events /\ u.cloid = x
  BY <1>9, <1>u, UpdatedIsEvent
<1>11. v \in Events /\ v.cloid = x
  BY <1>9, <1>u, UpdatedIsEvent
<1>12. IsOpen(u) /\ u.oid = nextOid /\ u.origSz = r.qty /\ IsEnd(v) /\ v.oid = b.oid
  BY <1>q, <1>u DEF Updated, IsOpen, IsEnd
<1>13. book' = [book EXCEPT ![x] = e] /\ Produces(<<u, v>>)
  BY <1>r, <1>b, <1>e, <1>q, <1>u DEF AcceptModify
<1>w. PICK w : w = <<u, v>>
  OBVIOUS
<1>t. PICK t : t = stream'
  OBVIOUS
<1>s. PICK st : Says(stream, u, st) /\ Says(st, v, t)
  BY <1>10, <1>11, <1>13, <1>t, <1>w, SaysTwo
<1>14. Abides(own, x, e, gw, st, replaying)
  <2>1. e.left <= u.origSz
    BY <1>1, <1>8, <1>12
  <2> QED
    BY <1>2, <1>3, <1>6, <1>7, <1>8, <1>10, <1>12, <1>s, <2>1, AbidesOpen
<1>15. Abides(own, x, e, gw, t, replaying)
  <2>1. ~(e.oid <= v.oid) /\ v.oid < e.oid
    BY <1>2, <1>3, <1>8, <1>12
  <2>2. Owns(own, v.oid, x) /\ e.done \in Nat
    BY <1>7, <1>8, <1>12
  <2> QED
    BY <1>11, <1>12, <1>14, <1>s, <2>1, <2>2, AbidesEnd
<1>16. nextOid' \in Nat /\ e.oid < nextOid' /\ nextOid <= nextOid' /\ e.oid # 0
  BY <1>0, <1>2, <1>3, <1>8
<1> QED
  BY <1>0, <1>1, <1>8, <1>13, <1>15, <1>16, <1>t DEF Exchanged

LEMMA EndExchanged ==
  ASSUME IInv, FillInv, OrderInv, link = TRUE, NEW x \in Cloids,
         NEW status \in {"Filled", "Canceled", "Rejected"},
         book[x].state = "live", Ends(x, status), nextOid' = nextOid
  PROVE  Exchanged
<1>b. PICK b : b = book[x]
  OBVIOUS
<1>1. /\ b \in BookEntry /\ b.oid \in Nat /\ b.left \in Nat /\ b.done \in Nat
      /\ b.left + b.done \in Nat /\ b.oid < nextOid /\ nextOid \in Nat
  BY <1>b, EntryTypes, NewOid
<1>2. PICK own : OwnedBy(own)
  BY DEF FillInv
<1>3. Grown(own, own) /\ Owns(own, b.oid, x)
  BY <1>2, <1>b, OwnSame DEF OwnedBy
<1>4. Abides(own, x, b, gw, stream, replaying)
  BY <1>3, <1>b, Abiding
<1>e. PICK e : e = [book[x] EXCEPT !.state = "ended"]
  OBVIOUS
<1>5. /\ e \in BookEntry /\ e.state = "ended" /\ e.oid = b.oid /\ e.left = b.left
      /\ e.done = b.done
  BY <1>1, <1>b, <1>e DEF BookEntry
<1>6. Abides(own, x, e, gw, stream, replaying)
  BY <1>4, <1>5, AbidesOver
<1>q. PICK q \in Nat, o \in Nat : q = b.left + b.done /\ o = b.oid
  BY <1>1
<1>a. PICK a : a = Updated(x, o, status, q)
  OBVIOUS
<1>7. a \in Events /\ a.cloid = x
  BY <1>a, UpdatedIsEvent
<1>8. IsEnd(a) /\ a.oid = b.oid
  BY <1>a, <1>q DEF Updated, IsEnd
<1>9. book' = [book EXCEPT ![x] = e] /\ Produces(<<a>>)
  BY <1>a, <1>b, <1>e, <1>q DEF Ends
<1>st. PICK st : st = stream'
  OBVIOUS
<1>10. Says(stream, a, st)
  BY <1>7, <1>9, <1>st, SaysOne
<1>11. Abides(own, x, e, gw, st, replaying)
  <2>1. e.done \in Nat /\ a.oid = e.oid /\ Owns(own, a.oid, x)
    BY <1>1, <1>3, <1>5, <1>8
  <2> QED
    BY <1>5, <1>6, <1>7, <1>8, <1>10, <2>1, AbidesEnd
<1>12. nextOid' \in Nat /\ e.oid < nextOid' /\ nextOid <= nextOid'
  BY <1>1, <1>5
<1> QED
  BY <1>5, <1>9, <1>11, <1>12, <1>st DEF Exchanged

LEMMA TradeExchanged ==
  ASSUME IInv, FillInv, OrderInv, link = TRUE, NEW x \in Cloids, Trade(x)
  PROVE  Exchanged
<1>b. PICK b : b = book[x]
  OBVIOUS
<1>1. /\ b \in BookEntry /\ b.state = "live" /\ b.left # 0
      /\ b.left \in Nat /\ b.done \in Nat /\ b.oid \in Nat /\ b.filled \in Nat
      /\ b.left + b.done \in Nat /\ b.oid < nextOid /\ nextOid \in Nat
  BY <1>b, EntryTypes, NewOid DEF Trade
<1>0. b.oid # 0
  BY <1>1, <1>b DEF OrderInv, BookOids
<1>2. PICK own : OwnedBy(own)
  BY DEF FillInv
<1>3. Grown(own, own) /\ Owns(own, b.oid, x) /\ nextOid' = nextOid
  BY <1>1, <1>2, <1>b, OwnSame DEF OwnedBy, Trade
<1>4. Abides(own, x, b, gw, stream, replaying)
  BY <1>3, <1>b, Abiding
<1>s. PICK state \in {"live", "ended"} : state = IF b.left = 1 THEN "ended" ELSE "live"
  OBVIOUS
<1>n. PICK left \in Nat, done \in Nat, filled \in Nat :
        left = b.left - 1 /\ done = b.done + 1 /\ filled = b.filled + 1
  BY <1>1
<1>e. PICK e : e = [b EXCEPT !.left = left, !.done = done, !.filled = filled, !.state = state]
  OBVIOUS
<1>5. /\ e \in BookEntry /\ e.state = state /\ e.oid = b.oid
      /\ e.done = b.done + 1 /\ e.left = b.left - 1 /\ e.done \in Nat
  BY <1>1, <1>e, <1>n DEF BookEntry
<1>6. book' = [book EXCEPT ![x] = e]
  BY <1>b, <1>s, <1>n, <1>e DEF Trade
<1>q. PICK q \in Nat, o \in Nat : q = b.left + b.done /\ o = b.oid
  BY <1>1
<1>a. PICK a, u : a = FillOf(x, o) /\ u = Updated(x, o, "Filled", q)
  OBVIOUS
<1>7. a \in Events /\ a.cloid = x /\ a.oid = b.oid /\ a.type = "fill"
  BY <1>a, <1>q DEF FillOf, Events, Fill
<1>8. u \in Events /\ u.cloid = x
  BY <1>a, UpdatedIsEvent
<1>9. IsEnd(u) /\ u.oid = b.oid
  BY <1>a, <1>q DEF Updated, IsEnd
<1>t. PICK t : t = stream'
  OBVIOUS
<1>v. PICK v, w : v = <<a>> \o <<u>> /\ w = <<a>>
  OBVIOUS
<1>10. (state = "ended" /\ Produces(v)) \/ (state = "live" /\ Produces(w \o <<>>))
  <2>1. CASE b.left = 1
    BY <1>a, <1>b, <1>q, <1>s, <1>v, <2>1 DEF Trade
  <2>2. CASE b.left # 1
    BY <1>a, <1>b, <1>q, <1>s, <1>v, <2>2 DEF Trade
  <2> QED
    BY <2>1, <2>2
<1>11. ASSUME NEW st, Says(stream, a, st)
       PROVE  Abides(own, x, e, gw, st, replaying)
  BY <1>0, <1>1, <1>3, <1>4, <1>5, <1>7, <1>11, AbidesFill
<1>12. Abides(own, x, e, gw, t, replaying)
  <2>1. CASE state = "ended" /\ Produces(v)
    <3>1. PICK st : Says(stream, a, st) /\ Says(st, u, t)
      BY <1>7, <1>8, <1>t, <1>v, <2>1, SaysTwo
    <3>2. Abides(own, x, e, gw, st, replaying)
      BY <1>11, <3>1
    <3>3. e.done \in Nat /\ u.oid = e.oid /\ Owns(own, u.oid, x) /\ e.state = "ended"
      BY <1>3, <1>5, <1>9, <2>1
    <3> QED
      BY <1>8, <1>9, <3>1, <3>2, <3>3, AbidesEnd
  <2>2. CASE Produces(w \o <<>>)
    <3>1. w \in Seq(Events)
      BY <1>7, <1>v
    <3>2. w \o <<>> = w
      BY <3>1, ConcatEmptySeq
    <3>3. Says(stream, a, t)
      BY <1>7, <1>t, <1>v, <2>2, <3>2, SaysOne
    <3> QED
      BY <1>11, <3>3
  <2> QED
    BY <1>10, <2>1, <2>2
<1>13. nextOid' \in Nat /\ e.oid < nextOid' /\ nextOid <= nextOid'
  BY <1>1, <1>3, <1>5
<1> QED
  BY <1>0, <1>1, <1>5, <1>6, <1>12, <1>13, <1>b, <1>t DEF Exchanged

EndedStay == \A x \in Cloids : book[x].state = "ended" => book'[x] = book[x]

LEMMA ExchangedOrders ==
  ASSUME IInv, OrderInv, Exchanged, gw' = gw, replaying' = replaying
  PROVE  OrderInv' /\ EndedStay
<1>1. PICK own, x, e :
        /\ x \in Cloids /\ e \in BookEntry /\ book' = [book EXCEPT ![x] = e]
        /\ book[x].state # "ended" /\ e.state # "unknown"
        /\ e.state = "live" => e.oid # 0
        /\ nextOid' \in Nat /\ e.oid < nextOid' /\ nextOid <= nextOid'
        /\ Abides(own, x, e, gw, stream', replaying)
  BY DEF Exchanged
<1>2. /\ book'[x] = e /\ \A y \in Cloids : y # x => book'[y] = book[y]
      /\ \A y \in Cloids : book[y].oid \in Nat
  BY <1>1, EntryTypes
<1>3. BookOids'
  <2>1. nextOid \in Nat
    BY NewOid DEF IInv, TypesOK, ExchangeTypeOK
  <2>2. \A y \in Cloids : book[y].oid < nextOid'
    BY <1>1, <1>2, <2>1 DEF OrderInv, BookOids
  <2> QED
    BY <1>1, <1>2, <2>2 DEF OrderInv, BookOids
<1>4. Orders(book, gw, stream, replaying)'
  <2>1. ASSUME NEW y \in Cloids
        PROVE  Order(y, book'[y], gw, stream', replaying)
    BY <1>1, <1>2 DEF Abides
  <2> QED
    BY <2>1 DEF Orders
<1> QED
  BY <1>1, <1>2, <1>3, <1>4 DEF OrderInv, EndedStay

LEMMA ExchangeOrders ==
  ASSUME IInv, FillInv, Linked, OrderInv, ExchangeNext, UNCHANGED gatewayVars
  PROVE  OrderInv' /\ EndedStay
<1>0. link = TRUE /\ gw' = gw /\ replaying' = replaying
  BY LinkUp DEF gatewayVars
<1>1. CASE UNCHANGED <<stream, book, nextOid>>
  BY <1>0, <1>1 DEF OrderInv, BookOids, EndedStay
<1>2. ASSUME ~UNCHANGED <<stream, book, nextOid>>
      PROVE  Exchanged
  <2>1. CASE AcceptPlace \/ RejectPlace
    BY <1>0, <2>1, PlaceExchanged
  <2>2. CASE AcceptModify
    BY <1>0, <2>2, ModifyExchanged
  <2>3. CASE AcceptCancel
    <3>1. requests # <<>> /\ book[Head(requests).cloid].state = "live"
          /\ Ends(Head(requests).cloid, "Canceled") /\ nextOid' = nextOid
      BY <2>3 DEF AcceptCancel, IsNext
    <3>2. Head(requests).cloid \in Cloids
      BY <3>1, NextRequest DEF Request
    <3> QED
      BY <1>0, <3>1, <3>2, EndExchanged
  <2>4. ASSUME NEW x \in Cloids, Trade(x)
        PROVE  Exchanged
    BY <1>0, <2>4, TradeExchanged
  <2>5. ASSUME NEW x \in Cloids, IocGivenUp(x) \/ ExchangeCancels(x)
        PROVE  Exchanged
    <3>1. PICK status \in {"Filled", "Canceled", "Rejected"} :
            book[x].state = "live" /\ Ends(x, status) /\ nextOid' = nextOid
      BY <2>5 DEF IocGivenUp, ExchangeCancels
    <3> QED
      BY <1>0, <3>1, EndExchanged
  <2>6. ~RejectModify /\ ~RejectCancel
    BY <1>2 DEF RejectModify, RejectCancel
  <2> QED
    BY <2>1, <2>2, <2>3, <2>4, <2>5, <2>6 DEF ExchangeNext, HandleRequest
<1> QED
  BY <1>0, <1>1, <1>2, ExchangedOrders


-----------------------------------------------------------------------------
(* What arrives is taken out of the stream.                                *)
LEMMA DropLeaves ==
  ASSUME NEW st \in Seq(Events), NEW st2 \in Seq(Events), NEW k \in 1 .. Len(st),
         Without(st, k, st2), NEW y
  PROVE  /\ Fewer(y, st, st2)
         /\ ~(st[k].cloid = y /\ IsOpen(st[k])) => SameNews(y, st, st2)
<1>n. PICK n \in Nat : n = Len(st) /\ k \in 1 .. n
  BY LenProperties
<1>1. Len(st2) = n - 1 /\ \A i \in 1 .. n - 1 : st2[i] = IF i < k THEN st[i] ELSE st[i + 1]
  BY <1>n DEF Without
<1>2. \A i \in 1 .. n - 1 : \E p \in 1 .. n :
        p = (IF i < k THEN i ELSE i + 1) /\ p # k /\ st2[i] = st[p]
  BY <1>n, <1>1
<1>3. \A p \in 1 .. n : p # k =>
        \E i \in 1 .. n - 1 : p = (IF i < k THEN i ELSE i + 1) /\ st2[i] = st[p]
  <2>1. SUFFICES ASSUME NEW p \in 1 .. n, p # k
                 PROVE  \E i \in 1 .. n - 1 : p = (IF i < k THEN i ELSE i + 1) /\ st2[i] = st[p]
    OBVIOUS
  <2>2. CASE p < k
    <3>1. p \in 1 .. n - 1 /\ st2[p] = st[p]
      BY <1>n, <1>1, <2>2
    <3> QED
      BY <2>2, <3>1
  <2>3. CASE p > k
    <3>i. PICK i \in Int : i = p - 1
      OBVIOUS
    <3>1. i \in 1 .. n - 1 /\ ~(i < k) /\ i + 1 = p
      BY <1>n, <2>3, <3>i
    <3> QED
      BY <1>1, <3>1
  <2> QED
    BY <1>n, <2>1, <2>2, <2>3
<1>4. Fewer(y, st, st2)
  <2>1. \A i \in 1 .. n - 1 : \E p \in 1 .. n : st2[i] = st[p]
    BY <1>2
  <2>2. ASSUME NEW i \in 1 .. n - 1, NEW j \in 1 .. n - 1, i < j
        PROVE  \E p, q \in 1 .. n : p < q /\ st2[i] = st[p] /\ st2[j] = st[q]
    <3>p. PICK p \in 1 .. n : p = (IF i < k THEN i ELSE i + 1) /\ st2[i] = st[p]
      BY <1>2
    <3>q. PICK q \in 1 .. n : q = (IF j < k THEN j ELSE j + 1) /\ st2[j] = st[q]
      BY <1>2
    <3>1. p < q
      BY <1>n, <2>2, <3>p, <3>q
    <3> QED
      BY <3>1, <3>p, <3>q
  <2> QED
    BY <1>n, <1>1, <2>1, <2>2 DEF Fewer
<1>5. ASSUME ~(st[k].cloid = y /\ IsOpen(st[k]))
      PROVE  SameNews(y, st, st2)
  <2>1. ASSUME NEW i \in 1 .. n - 1
        PROVE  \E p \in 1 .. n :
                 /\ st2[i] = st[p]
                 /\ \A q \in 1 .. p - 1 :
                      st[q].cloid = y /\ IsOpen(st[q]) => \E j \in 1 .. i - 1 : st2[j] = st[q]
    <3>p. PICK p \in 1 .. n : p = (IF i < k THEN i ELSE i + 1) /\ st2[i] = st[p]
      BY <1>2
    <3>1. ASSUME NEW q \in 1 .. p - 1, st[q].cloid = y, IsOpen(st[q])
          PROVE  \E j \in 1 .. i - 1 : st2[j] = st[q]
      <4>1. q # k /\ q \in 1 .. n /\ q < p
        BY <1>5, <1>n, <3>1, <3>p
      <4>j. PICK j \in 1 .. n - 1 : q = (IF j < k THEN j ELSE j + 1) /\ st2[j] = st[q]
        BY <1>3, <4>1
      <4>2. j < i
        BY <1>n, <3>p, <4>1, <4>j
      <4> QED
        BY <1>n, <4>2, <4>j
    <3> QED
      BY <3>1, <3>p
  <2>2. \A p \in 1 .. n :
          st[p].cloid = y /\ IsOpen(st[p]) => \E i \in 1 .. n - 1 : st2[i] = st[p]
    BY <1>3, <1>5
  <2> QED
    BY <1>n, <1>1, <1>4, <2>1, <2>2 DEF SameNews
<1> QED
  BY <1>4, <1>5


-----------------------------------------------------------------------------
(* What the gateway's operations do to the entries of each order.          *)
SameIds(s, t) ==
  /\ t.clientToCloid = s.clientToCloid /\ t.cloidToClient = s.cloidToClient
  /\ t.oidToCloid = s.oidToCloid /\ t.cloidToOid = s.cloidToOid
  /\ t.cloidToAsset = s.cloidToAsset /\ t.bufferedFills = s.bufferedFills

SameQuantities(s, t, y) ==
  StateOf(t, y).cumQty = StateOf(s, y).cumQty /\ StateOf(t, y).origSz = StateOf(s, y).origSz

LEMMA IdsEntries ==
  ASSUME NEW s, NEW t, SameIds(s, t), NEW y, SameQuantities(s, t, y)
  PROVE  SameEntries(y, s, t)
BY DEF SameIds, SameQuantities, SameEntries, IsCurrent

LEMMA ReportIds ==
  ASSUME NEW s, Typed(s), NEW client \in Clients \cup {NoClient}, NEW report \in ReportKinds,
         NEW t, t = Report(s, client, report)
  PROVE  /\ Typed(t) /\ SameIds(s, t) /\ t.cloidToState = s.cloidToState
         /\ \A y : SameQuantities(s, t, y)
<1>1. Typed(t)
  BY ReportTells
<1>2. SameIds(s, t) /\ t.cloidToState = s.cloidToState
  <2>1. CASE client = NoClient
    <3>1. t = [s EXCEPT !.unnamed = @ \cup {report}]
      BY <2>1 DEF Report
    <3> QED
      BY <3>1 DEF Typed, Good, Fields, SameIds
  <2>2. CASE client # NoClient
    <3>1. t = [s EXCEPT !.told[client] = Heard(@, report)]
      BY <2>2 DEF Report
    <3> QED
      BY <3>1 DEF Typed, Good, Fields, SameIds
  <2> QED
    BY <2>1, <2>2
<1>3. \A y : SameQuantities(s, t, y)
  BY <1>2 DEF SameQuantities, StateOf
<1> QED
  BY <1>1, <1>2, <1>3

LEMMA StateIds ==
  ASSUME NEW s, Typed(s), NEW x \in AnyCloid, NEW state \in States, NEW t, t = SetState(s, x, state)
  PROVE  /\ Typed(t) /\ SameIds(s, t) /\ t.told = s.told
         /\ \A y : StateOf(t, y) = IF y = x THEN state ELSE StateOf(s, y)
<1>1. Typed(t)
  BY SetStateSpares, SparesTyped
<1>2. t = [s EXCEPT !.cloidToState = Put(s.cloidToState, x, state)]
  BY DEF SetState
<1>3. SameIds(s, t) /\ t.told = s.told /\ t.cloidToState = Put(s.cloidToState, x, state)
  BY <1>2 DEF Typed, Good, Fields, SameIds
<1> QED
  BY <1>1, <1>3 DEF StateOf, Put

LEMMA FillIds ==
  ASSUME NEW s, Typed(s), NEW x \in AnyCloid, NEW t, t = ApplyFill(s, x, 1)
  PROVE  /\ Typed(t) /\ SameIds(s, t) /\ t.told = s.told
         /\ \A y : y # x => SameQuantities(s, t, y)
         /\ StateOf(t, x).cumQty = StateOf(s, x).cumQty + 1
         /\ StateOf(t, x).origSz = StateOf(s, x).origSz
<1>s. PICK state, new : state = StateOf(s, x) /\ new = [state EXCEPT !.cumQty = @ + 1]
  OBVIOUS
<1>1. state \in States
  BY <1>s, StateOfTyped
<1>2. new \in States /\ new.cumQty = state.cumQty + 1 /\ new.origSz = state.origSz
  BY <1>1, <1>s DEF States
<1>3. t = SetState(s, x, new)
  BY <1>s DEF ApplyFill
<1>4. /\ Typed(t) /\ SameIds(s, t) /\ t.told = s.told
      /\ \A y : StateOf(t, y) = IF y = x THEN new ELSE StateOf(s, y)
  BY <1>2, <1>3, StateIds
<1> QED
  BY <1>2, <1>4, <1>s DEF SameQuantities

LEMMA AmendIds ==
  ASSUME NEW s, Typed(s), NEW x \in AnyCloid, NEW qty \in Nat, NEW ioc \in BOOLEAN,
         NEW t, t = EnterAmend(s, x, qty, ioc)
  PROVE  /\ Typed(t) /\ SameIds(s, t) /\ t.told = s.told
         /\ \A y : SameQuantities(s, t, y)
<1>s. PICK state, new :
        state = StateOf(s, x) /\ new = [state EXCEPT !.requestedQty = qty, !.isIoc = ioc, !.stamped = TRUE]
  OBVIOUS
<1>1. state \in States
  BY <1>s, StateOfTyped
<1>2. new \in States /\ new.cumQty = state.cumQty /\ new.origSz = state.origSz
  BY <1>1, <1>s DEF States
<1>3. t = SetState(s, x, new)
  BY <1>s DEF EnterAmend
<1>4. /\ Typed(t) /\ SameIds(s, t) /\ t.told = s.told
      /\ \A y : StateOf(t, y) = IF y = x THEN new ELSE StateOf(s, y)
  BY <1>2, <1>3, StateIds
<1> QED
  BY <1>2, <1>4, <1>s DEF SameQuantities

LEMMA OpenedState ==
  ASSUME NEW s, Typed(s), NEW x \in Cloids, NEW size \in Nat, NEW t, t = InitOrderState(s, x, size)
  PROVE  /\ Typed(t) /\ SameIds(s, t) /\ t.told = s.told
         /\ \A y : y # x => SameQuantities(s, t, y)
         /\ StateOf(t, x).cumQty = 0 /\ size <= StateOf(t, x).origSz
<1>s. PICK state, new :
        /\ state = StateOf(s, x)
        /\ new = [state EXCEPT !.origSz = Larger(state.requestedQty, size), !.cumQty = 0]
  OBVIOUS
<1>1. state \in States
  BY <1>s, StateOfTyped
<1>z. PICK z \in Nat : z = Larger(state.requestedQty, size) /\ size <= z
  BY <1>1 DEF States, Larger
<1>2. new \in States /\ new.cumQty = 0 /\ size <= new.origSz
  BY <1>1, <1>s, <1>z DEF States
<1>3. t = SetState(s, x, new) /\ x \in AnyCloid
  BY <1>s DEF InitOrderState, AnyCloid
<1>4. /\ Typed(t) /\ SameIds(s, t) /\ t.told = s.told
      /\ \A y : StateOf(t, y) = IF y = x THEN new ELSE StateOf(s, y)
  BY <1>2, <1>3, StateIds
<1> QED
  BY <1>2, <1>4, <1>s DEF SameQuantities

Registers(own, s, t, oid, x) ==
  /\ Typed(t) /\ t.told = s.told /\ OidsOwned(t, own)
  /\ t.clientToCloid = s.clientToCloid /\ t.cloidToClient = s.cloidToClient
  /\ t.cloidToOid = s.cloidToOid /\ t.cloidToAsset = s.cloidToAsset
  /\ t.cloidToState = s.cloidToState /\ t.bufferedFills = s.bufferedFills
  /\ t.oidToCloid = Put(s.oidToCloid, oid, x)
  /\ \A y, o : Owns(t.oidToCloid, o, y) <=>
       Owns(s.oidToCloid, o, y) \/ (o = oid /\ y = x)

LEMMA RegisteredIds ==
  ASSUME NEW s, Typed(s), NEW own, NEW oid \in Nat, NEW x \in Cloids, Owns(own, oid, x),
         OidsOwned(s, own), NEW t, t = RegisterOid(s, oid, x)
  PROVE  Registers(own, s, t, oid, x)
<1>1. Spares(s, t, own)
  BY RegisterOidSpares
<1>2. t = [s EXCEPT !.oidToCloid = Put(s.oidToCloid, oid, x)]
  BY DEF RegisterOid
<1>3. /\ t.told = s.told
      /\ t.clientToCloid = s.clientToCloid /\ t.cloidToClient = s.cloidToClient
      /\ t.cloidToOid = s.cloidToOid /\ t.cloidToAsset = s.cloidToAsset
      /\ t.cloidToState = s.cloidToState /\ t.bufferedFills = s.bufferedFills
      /\ t.oidToCloid = Put(s.oidToCloid, oid, x)
  BY <1>2 DEF Typed, Good, Fields
<1>4. oid \in DOMAIN s.oidToCloid => s.oidToCloid[oid] = x
  BY DEF OidsOwned, Owns
<1>5. \A y, o : Owns(t.oidToCloid, o, y) <=>
        Owns(s.oidToCloid, o, y) \/ (o = oid /\ y = x)
  BY <1>3, <1>4 DEF Owns, Put
<1> QED
  BY <1>1, <1>3, <1>5 DEF Spares, Registers

LEMMA RegisterEntries ==
  ASSUME NEW s, Typed(s), NEW own, NEW oid \in Nat, NEW x \in Cloids, Owns(own, oid, x),
         OidsOwned(s, own), NEW t, t = RegisterOid(s, oid, x)
  PROVE  /\ \A y : y # x => SameEntries(y, s, t)
         /\ SameActive(x, s, t) /\ SameQuantities(s, t, x)
<1>0. Registers(own, s, t, oid, x)
  BY RegisteredIds
<1>1. /\ t.cloidToClient = s.cloidToClient /\ t.cloidToOid = s.cloidToOid
      /\ t.cloidToState = s.cloidToState
      /\ \A y, o : Owns(t.oidToCloid, o, y) <=>
              Owns(s.oidToCloid, o, y) \/ (o = oid /\ y = x)
  BY <1>0 DEF Registers
<1> QED
  BY <1>1 DEF SameEntries, SameActive, SameQuantities, IsCurrent, StateOf

LEMMA RemoveIds ==
  ASSUME NEW s, Typed(s), NEW x, NEW t, t = RemoveOrder(s, x)
  PROVE  /\ Typed(t) /\ t.told = s.told /\ t.bufferedFills = s.bufferedFills
         /\ \A c \in DOMAIN t.clientToCloid :
              c \in DOMAIN s.clientToCloid /\ t.clientToCloid[c] = s.clientToCloid[c]
         /\ \A c \in DOMAIN s.clientToCloid :
              (x \in DOMAIN s.cloidToClient => s.cloidToClient[x] # c) => c \in DOMAIN t.clientToCloid
         /\ t.cloidToAsset = s.cloidToAsset \ {x}
         /\ x \notin DOMAIN t.cloidToClient /\ x \notin DOMAIN t.cloidToOid
         /\ \A y : y # x => SameEntries(y, s, t)
<1>1. Typed(t) /\ t.told = s.told
  BY RemoveSpares, SparesTyped DEF RemoveOrder
<1>f. PICK f : f = ForgetExchangeIds(s, {x})
  OBVIOUS
<1>2. f = [s EXCEPT
             !.oidToCloid = Erase(@, {oid \in DOMAIN @ : @[oid] \in {x}}),
             !.cloidToOid = Erase(@, {x}),
             !.cloidToAsset = @ \ {x},
             !.cloidToState = Erase(@, {x})]
  BY <1>f DEF ForgetExchangeIds
<1>3. /\ DOMAIN f = Fields
      /\ f.oidToCloid = Erase(s.oidToCloid, {oid \in DOMAIN s.oidToCloid : s.oidToCloid[oid] \in {x}})
      /\ f.cloidToOid = Erase(s.cloidToOid, {x}) /\ f.cloidToAsset = s.cloidToAsset \ {x}
      /\ f.cloidToState = Erase(s.cloidToState, {x})
      /\ f.clientToCloid = s.clientToCloid /\ f.cloidToClient = s.cloidToClient
      /\ f.bufferedFills = s.bufferedFills
  BY <1>2 DEF Typed, Good, Fields
<1>g. PICK gone : gone = {s.cloidToClient[y] : y \in {x} \cap DOMAIN s.cloidToClient}
  OBVIOUS
<1>4. t = [f EXCEPT !.clientToCloid = Erase(@, gone), !.cloidToClient = Erase(@, {x})]
  BY <1>f, <1>g DEF RemoveOrder, RemoveOrders
<1>5. /\ t.oidToCloid = f.oidToCloid /\ t.cloidToOid = f.cloidToOid
      /\ t.cloidToAsset = f.cloidToAsset /\ t.cloidToState = f.cloidToState
      /\ t.bufferedFills = s.bufferedFills
      /\ t.clientToCloid = Erase(s.clientToCloid, gone)
      /\ t.cloidToClient = Erase(s.cloidToClient, {x})
  BY <1>3, <1>4 DEF Fields
<1>6. ASSUME NEW y, y # x
      PROVE  SameEntries(y, s, t)
  <2>1. y \in DOMAIN t.cloidToClient => y \in DOMAIN s.cloidToClient
    BY <1>5, <1>6 DEF Erase
  <2>2. \A oid : IsCurrent(t, y, oid) <=> IsCurrent(s, y, oid)
    BY <1>3, <1>5, <1>6 DEF Erase, IsCurrent
  <2>3. \A oid : Owns(t.oidToCloid, oid, y) <=> Owns(s.oidToCloid, oid, y)
    BY <1>3, <1>5, <1>6 DEF Erase, Owns
  <2>4. StateOf(t, y) = StateOf(s, y)
    BY <1>3, <1>5, <1>6 DEF Erase, StateOf
  <2> QED
    BY <2>1, <2>2, <2>3, <2>4 DEF SameEntries
<1>7. \A c \in DOMAIN t.clientToCloid :
        c \in DOMAIN s.clientToCloid /\ t.clientToCloid[c] = s.clientToCloid[c]
  BY <1>5 DEF Erase
<1>8. \A c \in DOMAIN s.clientToCloid :
        (x \in DOMAIN s.cloidToClient => s.cloidToClient[x] # c) => c \in DOMAIN t.clientToCloid
  <2>1. \A c \in gone : x \in DOMAIN s.cloidToClient /\ c = s.cloidToClient[x]
    BY <1>g
  <2> QED
    BY <1>5, <2>1 DEF Erase
<1> QED
  BY <1>1, <1>3, <1>5, <1>6, <1>7, <1>8 DEF Erase


-----------------------------------------------------------------------------
(* All orders at once.                                                     *)
AllOrders(own, s, st, rp) == Owned(own, s, st, rp) /\ Orders(book, s, st, rp)

LEMMA Unmoved ==
  ASSUME NEW own, NEW y, NEW b, b.done \in Nat,
         NEW s, NEW st, NEW rp, Owned(own, s, st, rp), Order(y, b, s, st, rp),
         NEW s2, Owned(own, s2, st, rp), SameEntries(y, s, s2), s2.bufferedFills = s.bufferedFills
  PROVE  Order(y, b, s2, st, rp)
<1>1. SameNews(y, st, st)
  BY DEF SameNews, Fewer
<1>2. SomeOf(y, s2.bufferedFills, s.bufferedFills) /\ SomeOf(y, rp, rp)
  BY DEF SomeOf
<1>3. NoMoreUnder(own, y, st, s.bufferedFills, st, s2.bufferedFills)
  <2>1. \A oid : Under(st, s.bufferedFills, oid) \in Nat
    BY UnderTypes
  <2>2. \A oid : Under(st, s.bufferedFills, oid) <= Under(st, s.bufferedFills, oid)
    BY <2>1
  <2> QED
    BY <2>2 DEF NoMoreUnder
<1>4. \A oid : /\ CountOf(st, "oid", oid) <= CountOf(st, "oid", oid)
               /\ CountOf(rp, "oid", oid) <= CountOf(rp, "oid", oid)
  <2>1. \A oid : CountOf(st, "oid", oid) \in Nat /\ CountOf(rp, "oid", oid) \in Nat
    BY Counted DEF Owned
  <2> QED
    BY <2>1
<1> QED
  BY <1>1, <1>2, <1>3, <1>4, Apart

LEMMA Forgotten ==
  ASSUME NEW y, NEW b, NEW s, NEW st, NEW rp, Announced(y, b, st, s.bufferedFills, rp),
         NEW s2, s2.bufferedFills = s.bufferedFills,
         y \notin DOMAIN s2.cloidToOid, y \notin DOMAIN s2.cloidToClient
  PROVE  Order(y, b, s2, st, rp)
BY DEF Order, ActiveFits

LEMMA UnmovedOrders ==
  ASSUME IInv, NEW own, NEW s, NEW st, NEW rp, AllOrders(own, s, st, rp),
         NEW t, Typed(t), SameIds(s, t), \A y : SameQuantities(s, t, y)
  PROVE  AllOrders(own, t, st, rp)
<1>1. Owned(own, s, st, rp)
  BY DEF AllOrders
<1>2. t.bufferedFills = s.bufferedFills /\ t.oidToCloid = s.oidToCloid
  BY DEF SameIds
<1>3. Owned(own, t, st, rp)
  BY <1>1, <1>2 DEF Owned, OidsOwned
<1>4. ASSUME NEW y \in Cloids
      PROVE  Order(y, book[y], t, st, rp)
  <2>1. book[y].done \in Nat /\ Order(y, book[y], s, st, rp)
    BY EntryTypes DEF AllOrders, Orders
  <2>2. SameEntries(y, s, t)
    BY IdsEntries
  <2> QED
    BY <1>1, <1>2, <1>3, <2>1, <2>2, Unmoved
<1> QED
  BY <1>3, <1>4 DEF AllOrders, Orders

LEMMA RemovedOrders ==
  ASSUME IInv, NEW own, NEW s, NEW st, NEW rp, AllOrders(own, s, st, rp),
         NEW x, NEW t, t = RemoveOrder(s, x)
  PROVE  AllOrders(own, t, st, rp)
<1>1. Owned(own, s, st, rp) /\ Typed(s)
  BY DEF AllOrders, Owned
<1>2. /\ Typed(t) /\ t.bufferedFills = s.bufferedFills
      /\ x \notin DOMAIN t.cloidToClient /\ x \notin DOMAIN t.cloidToOid
      /\ \A y : y # x => SameEntries(y, s, t)
  BY <1>1, RemoveIds
<1>3. Spares(s, t, own)
  BY <1>1, RemoveSpares DEF RemoveOrder
<1>4. Owned(own, t, st, rp)
  BY <1>1, <1>2, <1>3 DEF Owned, Spares
<1>5. ASSUME NEW y \in Cloids
      PROVE  Order(y, book[y], t, st, rp)
  <2>1. book[y].done \in Nat /\ Order(y, book[y], s, st, rp)
    BY EntryTypes DEF AllOrders, Orders
  <2>2. CASE y = x
    BY <1>2, <2>1, <2>2, Forgotten DEF Order
  <2>3. CASE y # x
    BY <1>1, <1>2, <1>4, <2>1, <2>3, Unmoved
  <2> QED
    BY <2>2, <2>3
<1> QED
  BY <1>4, <1>5 DEF AllOrders, Orders

-----------------------------------------------------------------------------
(* What the operations do to the clients.  As long as the order of a       *)
(* client is not over at the exchange, the client is told of no end and    *)
(* keeps its order, and it is told FILLED only if nothing is left of it.   *)
Over(x) == \A c \in Entered : cloidOf[c] = x => book[x].state = "ended"

Full(c) == book[cloidOf[c]].state = "ended" /\ book[cloidOf[c]].left = 0

Minds(s, t) ==
  /\ \A c \in Entered : book[cloidOf[c]].state # "ended" =>
       /\ t.told[c].ends = s.told[c].ends
       /\ c \in DOMAIN s.clientToCloid => c \in DOMAIN t.clientToCloid
       /\ cloidOf[c] \in s.cloidToAsset => cloidOf[c] \in t.cloidToAsset
  /\ \A c \in Clients : t.told[c].asFilled => s.told[c].asFilled \/ (c \in Entered /\ Full(c))

LEMMA MindsTrans ==
  ASSUME NEW s, NEW t, NEW u, Minds(s, t), Minds(t, u)
  PROVE  Minds(s, u)
BY DEF Minds

LEMMA MindsSame ==
  ASSUME NEW s, NEW t, t.told = s.told, t.clientToCloid = s.clientToCloid,
         t.cloidToAsset = s.cloidToAsset
  PROVE  Minds(s, t)
BY DEF Minds

LEMMA HeardAsFilled ==
  ASSUME NEW told \in Telling, NEW report \in ReportKinds, report # "FILLED"
  PROVE  Heard(told, report).asFilled = told.asFilled
<1>1. CASE report = "NEW"
  BY <1>1 DEF Heard, Telling
<1>2. CASE report = "PARTIALLY_FILLED"
  BY <1>2 DEF Heard, Telling
<1>3. CASE report \in {"CANCELLED", "REJECTED"}
  BY <1>3 DEF Heard, Telling
<1>4. CASE report \in {"AmendReject", "CancelReject"}
  BY <1>4 DEF Heard, Telling
<1> QED
  BY <1>1, <1>2, <1>3, <1>4 DEF ReportKinds

Endings == {"FILLED", "CANCELLED", "REJECTED"}

LEMMA ReportMinds ==
  ASSUME NEW s, Typed(s), NEW client \in Clients \cup {NoClient}, NEW report \in ReportKinds,
         report \in Endings /\ client \in Entered => book[cloidOf[client]].state = "ended",
         report = "FILLED" /\ client # NoClient => client \in Entered /\ Full(client),
         NEW t, t = Report(s, client, report)
  PROVE  Minds(s, t)
<1>1. SameIds(s, t)
  BY ReportIds
<1>2. Fit(s, Cloids)
  BY TypedFit
<1>3. \A c \in Clients : t.told[c] = IF c = client THEN Heard(s.told[c], report) ELSE s.told[c]
  BY <1>2, ReportFacts
<1>4. \A c \in Clients : s.told[c] \in Telling
  BY DEF Typed
<1>5. ASSUME NEW c \in Entered, book[cloidOf[c]].state # "ended"
      PROVE  t.told[c].ends = s.told[c].ends
  <2>1. c \in Clients
    BY DEF Entered
  <2>2. CASE c = client
    <3>1. report \notin Endings
      BY <1>5, <2>2
    <3>2. Heard(s.told[c], report).ends = s.told[c].ends
      BY <1>4, <2>1, <3>1, HeardFacts DEF Endings
    <3> QED
      BY <1>3, <2>1, <2>2, <3>2
  <2>3. CASE c # client
    BY <1>3, <2>1, <2>3
  <2> QED
    BY <2>2, <2>3
<1>6. ASSUME NEW c \in Clients, t.told[c].asFilled
      PROVE  s.told[c].asFilled \/ (c \in Entered /\ Full(c))
  <2>1. CASE c = client /\ report # "FILLED"
    <3>1. Heard(s.told[c], report).asFilled = s.told[c].asFilled
      BY <1>4, <2>1, HeardAsFilled
    <3> QED
      BY <1>3, <1>6, <2>1, <3>1
  <2>2. CASE c = client /\ report = "FILLED"
    BY <2>2, ClientsAssumption
  <2>3. CASE c # client
    BY <1>3, <1>6, <2>3
  <2> QED
    BY <2>1, <2>2, <2>3
<1> QED
  BY <1>1, <1>5, <1>6 DEF Minds, SameIds

LEMMA RemoveMinds ==
  ASSUME NEW s, Typed(s), Placed(s), NEW x, Over(x), NEW t, t = RemoveOrder(s, x)
  PROVE  Minds(s, t)
<1>1. /\ t.told = s.told /\ t.cloidToAsset = s.cloidToAsset \ {x}
      /\ \A c \in DOMAIN s.clientToCloid :
           (x \in DOMAIN s.cloidToClient => s.cloidToClient[x] # c) => c \in DOMAIN t.clientToCloid
  BY RemoveIds
<1>2. ASSUME NEW c \in Entered, book[cloidOf[c]].state # "ended"
      PROVE  /\ c \in DOMAIN s.clientToCloid => c \in DOMAIN t.clientToCloid
             /\ cloidOf[c] \in s.cloidToAsset => cloidOf[c] \in t.cloidToAsset
  <2>1. cloidOf[c] # x
    BY <1>2 DEF Over
  <2>2. ASSUME c \in DOMAIN s.clientToCloid
        PROVE  c \in DOMAIN t.clientToCloid
    <3>1. s.clientToCloid[c] = cloidOf[c]
      BY <2>2 DEF Placed
    <3>2. x \in DOMAIN s.cloidToClient => s.cloidToClient[x] # c
      BY <2>1, <3>1 DEF Typed, Good, Paired
    <3> QED
      BY <1>1, <2>2, <3>2
  <2> QED
    BY <1>1, <2>1, <2>2
<1> QED
  BY <1>1, <1>2 DEF Minds

(* The operations keep each client's order under its cloid.                *)
LEMMA PlacedIds ==
  ASSUME NEW s, NEW t, Placed(s), SameIds(s, t)
  PROVE  Placed(t)
BY DEF Placed, SameIds

LEMMA KnownPlaced ==
  ASSUME NEW s, Typed(s), Placed(s), NEW x \in DOMAIN s.cloidToClient
  PROVE  /\ x \in Cloids /\ s.cloidToClient[x] \in Entered /\ cloidOf[s.cloidToClient[x]] = x
         /\ s.cloidToClient[x] \in Clients /\ s.cloidToClient[x] # NoClient
         /\ LookupClientOrderId(s, x) = s.cloidToClient[x]
<1>1. s.cloidToClient[x] \in DOMAIN s.clientToCloid /\ s.clientToCloid[s.cloidToClient[x]] = x
  BY DEF Typed, Good, Paired
<1>2. x \in Cloids /\ s.cloidToClient[x] \in Clients
  BY DEF Typed, IsMap
<1> QED
  BY <1>1, <1>2, ClientsAssumption DEF Placed, LookupClientOrderId


-----------------------------------------------------------------------------
(* A fill of an order's active oid is applied and reported.  What was on   *)
(* its way, in the stream or among the fills being replayed, is one less.  *)
Departs(st, rp, st2, rp2, o) ==
  /\ \A y : SameNews(y, st, st2) /\ SomeOf(y, rp2, rp)
  /\ \A oid :
       /\ CountOf(st2, "oid", oid) <= CountOf(st, "oid", oid)
       /\ CountOf(st2, "oid", oid) + CountOf(rp2, "oid", oid) + (IF oid = o THEN 1 ELSE 0)
            = CountOf(st, "oid", oid) + CountOf(rp, "oid", oid)

LEMMA AppliedOrders ==
  ASSUME IInv, NEW own, NEW s, NEW st, NEW rp, AllOrders(own, s, st, rp),
         NEW st2, NEW rp2, Owned(own, s, st2, rp2), NEW o, Departs(st, rp, st2, rp2, o),
         NEW x \in Cloids, IsCurrent(s, x, o), NEW t, t = ApplyFill(s, x, 1)
  PROVE  AllOrders(own, t, st2, rp2)
<1>1. Owned(own, s, st, rp) /\ Typed(s)
  BY DEF AllOrders, Owned
<1>2. /\ Typed(t) /\ SameIds(s, t)
      /\ \A y : y # x => SameQuantities(s, t, y)
      /\ StateOf(t, x).cumQty = StateOf(s, x).cumQty + 1
      /\ StateOf(t, x).origSz = StateOf(s, x).origSz
  BY <1>1, FillIds DEF AnyCloid
<1>3. Owned(own, t, st2, rp2)
  BY <1>2 DEF Owned, SameIds, OidsOwned
<1>4. ASSUME NEW y \in Cloids
      PROVE  Order(y, book[y], t, st2, rp2)
  <2>b. PICK b : b = book[y] /\ b.done \in Nat /\ Order(y, b, s, st, rp)
    BY EntryTypes DEF AllOrders, Orders
  <2>1. SameNews(y, st, st2) /\ SomeOf(y, rp2, rp)
    BY DEF Departs
  <2>2. SameActive(y, s, t)
    BY <1>2 DEF SameActive, SameIds, IsCurrent
  <2>3. NoMoreUnder(own, y, st, s.bufferedFills, st2, t.bufferedFills)
    <3>1. ASSUME NEW oid
          PROVE  Under(st2, t.bufferedFills, oid) <= Under(st, s.bufferedFills, oid)
      <4>n. PICK k \in Nat, k2 \in Nat, m \in Nat :
              /\ k = CountOf(st, "oid", oid) /\ k2 = CountOf(st2, "oid", oid)
              /\ m = CountOf(s.bufferedFills, "oid", oid)
        BY <1>1, Counted DEF Owned, Typed
      <4>1. k2 <= k /\ t.bufferedFills = s.bufferedFills
        BY <1>2, <4>n DEF Departs, SameIds
      <4>2. Under(st2, t.bufferedFills, oid) = k2 + m /\ Under(st, s.bufferedFills, oid) = k + m
        BY <4>1, <4>n DEF Under
      <4> QED
        BY <4>1, <4>2
    <3> QED
      BY <3>1 DEF NoMoreUnder
  <2>4. CountsNoMore(y, s, st, rp, t, st2, rp2)
    <3>1. ASSUME NEW oid, IsCurrent(s, y, oid)
          PROVE  Tally(t, st2, rp2, y, oid) <= Tally(s, st, rp, y, oid)
      <4>1. IsCurrent(t, y, oid)
        BY <2>2, <3>1 DEF SameActive
      <4>n. PICK k \in Nat, m \in Nat, c \in Nat :
              /\ k = CountOf(st, "oid", oid) /\ m = CountOf(rp, "oid", oid)
              /\ c = StateOf(s, y).cumQty
        BY <1>1, <3>1, TallyTypes
      <4>m. PICK k2 \in Nat, m2 \in Nat, c2 \in Nat :
              /\ k2 = CountOf(st2, "oid", oid) /\ m2 = CountOf(rp2, "oid", oid)
              /\ c2 = StateOf(t, y).cumQty
        BY <1>3, <4>1, TallyTypes
      <4>2. k2 + m2 + (IF oid = o THEN 1 ELSE 0) = k + m
        BY <4>n, <4>m DEF Departs
      <4>3. c2 = IF y = x THEN c + 1 ELSE c
        BY <1>2, <4>n, <4>m DEF SameQuantities
      <4>4. y = x => oid = o
        BY <3>1 DEF IsCurrent
      <4>5. c2 + k2 + m2 <= c + k + m
        BY <4>2, <4>3, <4>4
      <4> QED
        BY <4>5, <4>n, <4>m DEF Tally
    <3> QED
      BY <1>2, <3>1 DEF CountsNoMore, SameQuantities
  <2>5. HandedOut(y, b, t.bufferedFills)
    BY <1>2, <2>b DEF Order, Announced, SameIds
  <2>6. ASSUME y \in DOMAIN t.cloidToClient
        PROVE  Registered(y, t) /\ BufferLed(y, st2, t.bufferedFills)
    <3>1. Followed(y, b, s, st, rp)
      BY <1>2, <2>6, <2>b DEF Order, SameIds
    <3>2. \A oid : Opened(st, y, oid) => Opened(st2, y, oid)
      BY <2>1 DEF Opened, SameNews
    <3> QED
      BY <1>2, <3>1, <3>2 DEF Followed, Registered, BufferLed, SameIds
  <2>7. Order(y, b, t, st2, rp2)
    BY <1>1, <1>3, <2>1, <2>2, <2>3, <2>4, <2>5, <2>6, <2>b, Carried
  <2> QED
    BY <2>7, <2>b
<1> QED
  BY <1>3, <1>4 DEF AllOrders, Orders

(* Where the gateway has counted as much as it expects, nothing is left.   *)
LEMMA CountedFull ==
  ASSUME IInv, OrderInv, NEW own, NEW s, NEW st, NEW rp, AllOrders(own, s, st, rp),
         NEW x \in Cloids, x \in DOMAIN s.cloidToClient, NEW o, IsCurrent(s, x, o),
         ~(StateOf(s, x).cumQty < StateOf(s, x).origSz)
  PROVE  book[x].state = "ended" /\ book[x].left = 0
<1>1. Owned(own, s, st, rp) /\ Followed(x, book[x], s, st, rp) /\ ActiveFits(x, book[x], s, st)
  BY DEF AllOrders, Orders, Order
<1>n. PICK k \in Nat, m \in Nat, c \in Nat, z \in Nat :
        /\ k = CountOf(st, "oid", o) /\ m = CountOf(rp, "oid", o)
        /\ c = StateOf(s, x).cumQty /\ z = StateOf(s, x).origSz
  BY <1>1, TallyTypes
<1>t. PICK n \in Nat : n = Tally(s, st, rp, x, o) /\ n = c + k + m
  BY <1>n DEF Tally
<1>b. PICK l \in Nat, d \in Nat, a \in Nat : l = book[x].left /\ d = book[x].done /\ a = book[x].oid
  BY EntryTypes
<1>2. o \in Nat /\ 0 < o /\ o <= a
  BY <1>1, <1>b, ActiveTypes DEF Owned, ActiveFits, IsCurrent
<1>3. (o = a => n <= d /\ d + l <= z) /\ (o < a => n < z)
  BY <1>1, <1>b, <1>n, <1>t DEF Followed, Measured
<1>4. l = 0
  BY <1>2, <1>3, <1>n, <1>t
<1>5. book[x].state # "live"
  BY <1>4, <1>b, EntryTypes
<1>6. book[x].state # "unknown"
  BY <1>2, <1>b DEF OrderInv, BookOids
<1>7. book[x].state \in {"unknown", "live", "ended"}
  BY EntryTypes DEF BookEntry
<1> QED
  BY <1>4, <1>5, <1>6, <1>7, <1>b

LEMMA EmitOrders ==
  ASSUME IInv, OrderInv, NEW own, NEW s, NEW st, NEW rp, AllOrders(own, s, st, rp), Placed(s),
         NEW st2, NEW rp2, Owned(own, s, st2, rp2), NEW o, Departs(st, rp, st2, rp2, o),
         NEW x \in DOMAIN s.cloidToClient, IsCurrent(s, x, o),
         NEW client, client = LookupClientOrderId(s, x),
         NEW t, t = EmitFill(s, client, x)
  PROVE  AllOrders(own, t, st2, rp2) /\ Minds(s, t)
<1>1. Typed(s)
  BY DEF AllOrders, Owned
<1>2. x \in Cloids /\ client \in Entered /\ cloidOf[client] = x /\ client \in Clients
  BY <1>1, KnownPlaced
<1>a. PICK a : a = ApplyFill(s, x, 1)
  OBVIOUS
<1>3. /\ AllOrders(own, a, st2, rp2) /\ Typed(a) /\ SameIds(s, a) /\ a.told = s.told
  BY <1>1, <1>2, <1>a, AppliedOrders, FillIds DEF AnyCloid
<1>4. Placed(a) /\ Minds(s, a) /\ x \in DOMAIN a.cloidToClient /\ IsCurrent(a, x, o)
  BY <1>3, PlacedIds, MindsSame DEF SameIds, IsCurrent
<1>5. CASE StateOf(a, x).cumQty < StateOf(a, x).origSz
  <2>1. t = Report(a, client, "PARTIALLY_FILLED") /\ "PARTIALLY_FILLED" \in ReportKinds
    BY <1>5, <1>a DEF EmitFill, ReportKinds
  <2>2. Typed(t) /\ SameIds(a, t) /\ \A y : SameQuantities(a, t, y)
    BY <1>2, <1>3, <2>1, ReportIds
  <2>3. Minds(a, t)
    BY <1>2, <1>3, <2>1, ReportMinds DEF Endings
  <2> QED
    BY <1>3, <1>4, <2>2, <2>3, UnmovedOrders, MindsTrans
<1>6. CASE ~(StateOf(a, x).cumQty < StateOf(a, x).origSz)
  <2>1. book[x].state = "ended" /\ book[x].left = 0
    BY <1>2, <1>3, <1>4, <1>6, CountedFull
  <2>2. Over(x) /\ Full(client) /\ book[cloidOf[client]].state = "ended"
    BY <1>2, <2>1 DEF Over, Full
  <2>r. PICK r : r = Report(a, client, "FILLED")
    OBVIOUS
  <2>3. Typed(r) /\ SameIds(a, r) /\ \A y : SameQuantities(a, r, y)
    BY <1>2, <1>3, <2>r, ReportIds DEF ReportKinds
  <2>4. Minds(a, r) /\ Placed(r) /\ AllOrders(own, r, st2, rp2)
    BY <1>2, <1>3, <1>4, <2>2, <2>3, <2>r, ReportMinds, PlacedIds, UnmovedOrders DEF ReportKinds
  <2>5. t = r \/ t = RemoveOrder(r, x)
    BY <1>6, <1>a, <2>r DEF EmitFill
  <2>6. AllOrders(own, RemoveOrder(r, x), st2, rp2) /\ Minds(r, RemoveOrder(r, x))
    BY <2>2, <2>3, <2>4, RemovedOrders, RemoveMinds
  <2> QED
    BY <1>4, <2>4, <2>5, <2>6, MindsTrans
<1> QED
  BY <1>5, <1>6


-----------------------------------------------------------------------------
(* The websocket's callbacks.  An event leaves the stream.                 *)
LEMMA DropOwned ==
  ASSUME NEW own, NEW s, NEW st, NEW rp, Owned(own, s, st, rp), NEW k \in 1 .. Len(st),
         NEW st2 \in Seq(Events), Without(st, k, st2)
  PROVE  /\ Owned(own, s, st2, rp)
         /\ \A oid : /\ CountOf(st2, "oid", oid) \in Nat
                     /\ CountOf(st, "oid", oid) =
                          CountOf(st2, "oid", oid) + OneOf(st[k], "oid", oid)
<1>1. st \in Seq(Events)
  BY DEF Owned
<1>2. \A oid : /\ CountOf(st2, "oid", oid) \in Nat
               /\ CountOf(st, "oid", oid) = CountOf(st2, "oid", oid) + OneOf(st[k], "oid", oid)
  BY <1>1, WithoutCount, Counted
<1>n. PICK n \in Nat : n = Len(st) /\ k \in 1 .. n
  BY <1>1, LenProperties
<1>3. Len(st2) = n - 1 /\ \A i \in 1 .. n - 1 : st2[i] = IF i < k THEN st[i] ELSE st[i + 1]
  BY <1>n DEF Without
<1>4. \A i \in 1 .. n - 1 : \E j \in 1 .. n : st2[i] = st[j]
  BY <1>n, <1>3
<1>5. Within(st2, st)
  BY <1>3, <1>4, <1>n DEF Within
<1>6. AllOwned(own, st2)
  BY <1>5, WithinOwned DEF Owned
<1> QED
  BY <1>2, <1>6 DEF Owned

(* Where fills are buffered, their Open is still to come.                  *)
LEMMA BufferOrders ==
  ASSUME IInv, NEW own, NEW s, NEW st, NEW rp, AllOrders(own, s, st, rp),
         NEW k \in 1 .. Len(st), NEW st2 \in Seq(Events), Without(st, k, st2),
         NEW f, f = st[k], f.type = "fill", LookupClientOrderIdByOid(s, f.oid) = NoClient,
         NEW t, t = BufferFill(s, f)
  PROVE  AllOrders(own, t, st2, rp)
<1>1. Owned(own, s, st, rp) /\ Typed(s) /\ st \in Seq(Events)
  BY DEF AllOrders, Owned
<1>2. f \in Fill /\ Owns(own, f.oid, f.cloid)
  BY <1>1, EventTypes DEF Owned, AllOwned, Events, Update
<1>b. PICK buffer, buffer2 : buffer = s.bufferedFills /\ buffer2 = Append(buffer, f)
  OBVIOUS
<1>3. t = [s EXCEPT !.bufferedFills = buffer2]
  BY <1>b DEF BufferFill
<1>4. /\ t.bufferedFills = buffer2 /\ t.cloidToClient = s.cloidToClient
      /\ t.oidToCloid = s.oidToCloid /\ t.cloidToOid = s.cloidToOid
      /\ t.cloidToState = s.cloidToState
  BY <1>1, <1>3 DEF Typed, Good, Fields
<1>5. buffer \in Seq(Fill) /\ AllOwned(own, buffer)
  BY <1>1, <1>b DEF Owned, Typed
<1>6. Typed(t) /\ AllOwned(own, buffer2)
  <2>1. AllOwned(own, s.bufferedFills)
    BY <1>5, <1>b
  <2>2. Kept(s, t, f, own)
    BY <1>1, <1>2, <2>1, BufferKeeps
  <2> QED
    BY <1>4, <2>2 DEF Kept
<1>7. Owned(own, s, st2, rp)
  BY <1>1, DropOwned
<1>8. Owned(own, t, st2, rp)
  BY <1>4, <1>6, <1>7 DEF Owned, OidsOwned
<1>l. PICK l \in Nat : l = Len(buffer)
  BY <1>5, LenProperties
<1>9. Len(buffer2) = l + 1 /\ \A i \in 1 .. l + 1 : buffer2[i] = IF i = l + 1 THEN f ELSE buffer[i]
  BY <1>2, <1>5, <1>b, <1>l, AppendProperties
<1>10. \A i \in 1 .. l + 1 : i # l + 1 => i \in 1 .. l
  OBVIOUS
<1>11. \A i \in 1 .. Len(buffer2) :
         buffer2[i] = f \/ (i \in 1 .. Len(buffer) /\ buffer2[i] = buffer[i])
  BY <1>9, <1>10, <1>l
<1>12. \A oid : /\ CountOf(st2, "oid", oid) \in Nat /\ OneOf(f, "oid", oid) \in Nat
                /\ CountOf(st, "oid", oid) = CountOf(st2, "oid", oid) + OneOf(f, "oid", oid)
                /\ CountOf(buffer, "oid", oid) \in Nat
                /\ CountOf(buffer2, "oid", oid) = CountOf(buffer, "oid", oid) + OneOf(f, "oid", oid)
  <2>1. \A oid : OneOf(f, "oid", oid) \in Nat
    BY DEF OneOf
  <2> QED
    BY <1>1, <1>2, <1>5, <1>b, <2>1, DropOwned, AppendCount, Counted
<1>13. ASSUME NEW y \in Cloids
       PROVE  Order(y, book[y], t, st2, rp)
  <2>b. PICK b : b = book[y] /\ b.done \in Nat /\ Order(y, b, s, st, rp)
    BY EntryTypes DEF AllOrders, Orders
  <2>1. SameNews(y, st, st2)
    BY <1>1, DropLeaves DEF IsOpen
  <2>2. SameActive(y, s, t)
    BY <1>4 DEF SameActive, IsCurrent
  <2>3. NoMoreUnder(own, y, st, s.bufferedFills, st2, t.bufferedFills)
    <3>1. ASSUME NEW oid
          PROVE  Under(st2, buffer2, oid) <= Under(st, buffer, oid)
      <4>n. PICK k2 \in Nat, m \in Nat, one \in Nat :
              /\ k2 = CountOf(st2, "oid", oid) /\ m = CountOf(buffer, "oid", oid)
              /\ one = OneOf(f, "oid", oid)
        BY <1>12
      <4>1. Under(st2, buffer2, oid) = k2 + (m + one) /\ Under(st, buffer, oid) = (k2 + one) + m
        BY <1>12, <4>n DEF Under
      <4> QED
        BY <4>1
    <3> QED
      BY <1>4, <1>b, <3>1 DEF NoMoreUnder
  <2>4. CountsNoMore(y, s, st, rp, t, st2, rp)
    <3>1. ASSUME NEW oid, IsCurrent(s, y, oid)
          PROVE  Tally(t, st2, rp, y, oid) <= Tally(s, st, rp, y, oid)
      <4>n. PICK k2 \in Nat, one \in Nat, m \in Nat, c \in Nat :
              /\ k2 = CountOf(st2, "oid", oid) /\ one = OneOf(f, "oid", oid)
              /\ m = CountOf(rp, "oid", oid) /\ c = StateOf(s, y).cumQty
        BY <1>1, <1>12, <3>1, TallyTypes
      <4>1. /\ Tally(t, st2, rp, y, oid) = c + k2 + m
            /\ Tally(s, st, rp, y, oid) = c + (k2 + one) + m
        BY <1>4, <1>12, <4>n DEF Tally, StateOf
      <4> QED
        BY <4>1
    <3> QED
      BY <1>4, <3>1 DEF CountsNoMore, StateOf
  <2>5. HandedOut(y, b, t.bufferedFills)
    <3>1. HandedOut(y, b, buffer) /\ HandedOut(y, b, st)
      BY <1>b, <2>b DEF Order, Announced
    <3> QED
      BY <1>4, <1>11, <3>1 DEF HandedOut
  <2>6. SomeOf(y, rp, rp)
    BY DEF SomeOf
  <2>7. ASSUME y \in DOMAIN t.cloidToClient
        PROVE  Registered(y, t) /\ BufferLed(y, st2, t.bufferedFills)
    <3>1. Followed(y, b, s, st, rp) /\ ActiveFits(y, b, s, st)
      BY <1>4, <2>7, <2>b DEF Order
    <3>2. \A oid : Opened(st, y, oid) => Opened(st2, y, oid)
      BY <2>1 DEF Opened, SameNews
    <3>3. f.cloid = y => Opened(st, y, f.oid)
      <4>1. ASSUME f.cloid = y, IsCurrent(s, y, f.oid)
            PROVE  FALSE
        <5>1. LookupCloidByOid(s, f.oid) = y
          BY <3>1, <4>1 DEF ActiveFits, IsCurrent, Owns, LookupCloidByOid
        <5>2. LookupClientOrderId(s, y) \in Clients
          BY <1>1, <1>4, <2>7 DEF LookupClientOrderId, Typed, IsMap
        <5> QED
          BY <5>1, <5>2, ClientsAssumption DEF LookupClientOrderIdByOid
      <4> QED
        BY <3>1, <4>1 DEF Followed, FillsLed
    <3>4. BufferLed(y, st2, buffer2)
      BY <1>11, <1>b, <3>1, <3>2, <3>3 DEF Followed, BufferLed
    <3> QED
      BY <1>4, <3>1, <3>4 DEF Followed, Registered
  <2>8. Order(y, b, t, st2, rp)
    BY <1>1, <1>8, <2>1, <2>2, <2>3, <2>4, <2>5, <2>6, <2>7, <2>b, Carried
  <2> QED
    BY <2>8, <2>b
<1> QED
  BY <1>8, <1>13 DEF AllOrders, Orders


LEMMA EntriesOrders ==
  ASSUME IInv, NEW own, NEW s, NEW st, NEW rp, AllOrders(own, s, st, rp),
         NEW t, Typed(t), OidsOwned(t, own), t.bufferedFills = s.bufferedFills,
         \A y \in Cloids : SameEntries(y, s, t)
  PROVE  AllOrders(own, t, st, rp)
<1>1. Owned(own, s, st, rp)
  BY DEF AllOrders
<1>2. Owned(own, t, st, rp)
  BY <1>1 DEF Owned
<1>3. ASSUME NEW y \in Cloids
      PROVE  Order(y, book[y], t, st, rp)
  <2>1. book[y].done \in Nat /\ Order(y, book[y], s, st, rp) /\ SameEntries(y, s, t)
    BY EntryTypes DEF AllOrders, Orders
  <2> QED
    BY <1>1, <1>2, <2>1, Unmoved
<1> QED
  BY <1>2, <1>3 DEF AllOrders, Orders

LEMMA RemoveNone ==
  ASSUME NEW s, DOMAIN s = Fields, NEW t, t = RemoveOrders(s, {})
  PROVE  /\ t.told = s.told /\ t.cloidToAsset = s.cloidToAsset
         /\ \A c \in DOMAIN s.clientToCloid : c \in DOMAIN t.clientToCloid
         /\ \A y : SameEntries(y, s, t)
<1>f. PICK f : f = ForgetExchangeIds(s, {})
  OBVIOUS
<1>1. f = [s EXCEPT
             !.oidToCloid = Erase(@, {oid \in DOMAIN @ : @[oid] \in {}}),
             !.cloidToOid = Erase(@, {}),
             !.cloidToAsset = @ \ {},
             !.cloidToState = Erase(@, {})]
  BY <1>f DEF ForgetExchangeIds
<1>2. /\ DOMAIN f = Fields
      /\ f.oidToCloid = Erase(s.oidToCloid, {oid \in DOMAIN s.oidToCloid : s.oidToCloid[oid] \in {}})
      /\ f.cloidToOid = Erase(s.cloidToOid, {}) /\ f.cloidToAsset = s.cloidToAsset
      /\ f.cloidToState = Erase(s.cloidToState, {})
      /\ f.clientToCloid = s.clientToCloid /\ f.cloidToClient = s.cloidToClient
      /\ f.told = s.told
  BY <1>1 DEF Fields
<1>g. PICK gone : gone = {s.cloidToClient[y] : y \in {} \cap DOMAIN s.cloidToClient} /\ gone = {}
  OBVIOUS
<1>3. t = [f EXCEPT !.clientToCloid = Erase(@, gone), !.cloidToClient = Erase(@, {})]
  BY <1>f, <1>g DEF RemoveOrders
<1>4. /\ t.oidToCloid = f.oidToCloid /\ t.cloidToOid = f.cloidToOid
      /\ t.cloidToAsset = f.cloidToAsset /\ t.cloidToState = f.cloidToState
      /\ t.told = f.told
      /\ t.clientToCloid = Erase(s.clientToCloid, gone)
      /\ t.cloidToClient = Erase(s.cloidToClient, {})
  BY <1>2, <1>3 DEF Fields
<1>5. ASSUME NEW y
      PROVE  SameEntries(y, s, t)
  <2>1. y \in DOMAIN t.cloidToClient => y \in DOMAIN s.cloidToClient
    BY <1>4 DEF Erase
  <2>2. \A oid : IsCurrent(t, y, oid) <=> IsCurrent(s, y, oid)
    BY <1>2, <1>4 DEF Erase, IsCurrent
  <2>3. \A oid : Owns(t.oidToCloid, oid, y) <=> Owns(s.oidToCloid, oid, y)
    BY <1>2, <1>4 DEF Erase, Owns
  <2>4. StateOf(t, y) = StateOf(s, y)
    BY <1>2, <1>4 DEF Erase, StateOf
  <2> QED
    BY <2>1, <2>2, <2>3, <2>4 DEF SameEntries
<1>6. \A c \in DOMAIN s.clientToCloid : c \in DOMAIN t.clientToCloid
  BY <1>4, <1>g DEF Erase
<1> QED
  BY <1>2, <1>4, <1>5, <1>6

LEMMA OrdersNow ==
  ASSUME IInv, FillInv, OrderInv, nextOid' = nextOid, NEW own, OwnedBy(own)
  PROVE  AllOrders(own, gw, stream, replaying)
BY OwnSame, GrownOwned DEF AllOrders, OrderInv

(* checkTimeouts, when it finds nothing.                                   *)
LEMMA CheckedOrders ==
  ASSUME IInv, FillInv, OrderInv, ~Timeouts, nextOid' = nextOid, NEW own, OwnedBy(own),
         NEW s \in AfterCheckTimeouts
  PROVE  /\ AllOrders(own, s, stream, replaying) /\ Minds(gw, s)
         /\ Typed(s) /\ Placed(s) /\ s.bufferedFills = gw.bufferedFills
<1>1. /\ Typed(s) /\ Placed(s) /\ OidsOwned(s, own)
      /\ s.bufferedFills = gw.bufferedFills
  BY CheckedSame
<1>2. s = CheckTimeouts(gw, 0, {})
  BY DEF AfterCheckTimeouts
<1>g. PICK g, clients, swept :
        /\ swept = {} \cap DOMAIN gw.cloidToClient
        /\ clients = {gw.cloidToClient[cloid] : cloid \in swept}
        /\ g = [gw EXCEPT
                  !.bufferedFills = SubSeq(@, 0 + 1, Len(@)),
                  !.told = [c \in Clients |-> IF c \in clients THEN Heard(@[c], "CANCELLED") ELSE @[c]]]
  OBVIOUS
<1>3. swept = {} /\ clients = {}
  BY <1>g
<1>4. s = RemoveOrders(g, {})
  BY <1>2, <1>3, <1>g DEF CheckTimeouts
<1>5. Typed(gw)
  BY DEF FillInv
<1>6. /\ DOMAIN g = Fields
      /\ g.clientToCloid = gw.clientToCloid /\ g.cloidToClient = gw.cloidToClient
      /\ g.oidToCloid = gw.oidToCloid /\ g.cloidToOid = gw.cloidToOid
      /\ g.cloidToState = gw.cloidToState /\ g.cloidToAsset = gw.cloidToAsset
      /\ g.told = [c \in Clients |-> IF c \in clients THEN Heard(gw.told[c], "CANCELLED") ELSE gw.told[c]]
  BY <1>5, <1>g DEF Typed, Good, Fields
<1>7. \A c \in Clients : g.told[c] = gw.told[c]
  BY <1>3, <1>6
<1>8. /\ s.told = g.told /\ s.cloidToAsset = g.cloidToAsset
      /\ \A c \in DOMAIN g.clientToCloid : c \in DOMAIN s.clientToCloid
      /\ \A y : SameEntries(y, g, s)
  BY <1>4, <1>6, RemoveNone
<1>9. Minds(gw, s)
  BY <1>6, <1>7, <1>8 DEF Minds, Entered
<1>10. \A y : SameEntries(y, gw, s)
  BY <1>6, <1>8 DEF SameEntries, IsCurrent, StateOf
<1>11. AllOrders(own, s, stream, replaying)
  BY <1>1, <1>10, OrdersNow, EntriesOrders
<1> QED
  BY <1>1, <1>9, <1>11

(* What a step of the gateway does to the orders.                          *)
GatewayOrders ==
  \E own, t, st, rp :
    t = gw' /\ st = stream' /\ rp = replaying' /\ AllOrders(own, t, st, rp) /\ Minds(gw, t)

LEMMA UserFillOrders ==
  ASSUME IInv, FillInv, OrderInv, ~Timeouts, NEW i \in 1 .. Len(stream), UserFillArrives(i)
  PROVE  GatewayOrders
<1>o. PICK own : OwnedBy(own)
  BY DEF FillInv
<1>f. PICK f : f = stream[i]
  OBVIOUS
<1>1. /\ stream' = RemoveAt(stream, i) /\ f.type = "fill" /\ replaying = <<>>
      /\ replaying' = replaying /\ nextOid' = nextOid
  BY <1>f DEF UserFillArrives
<1>2. PICK s \in AfterCheckTimeouts : gw' = OnUserFill(s, f)
  BY <1>f DEF UserFillArrives
<1>s. PICK st, st2, rp : st = stream /\ st2 = stream' /\ rp = replaying
  OBVIOUS
<1>3. /\ AllOrders(own, s, st, rp) /\ Minds(gw, s)
      /\ Typed(s) /\ Placed(s)
  BY <1>1, <1>o, <1>s, CheckedOrders
<1>4. st \in Seq(Events) /\ i \in 1 .. Len(st) /\ f = st[i]
  BY <1>f, <1>s, StreamTypes
<1>5. st2 \in Seq(Events) /\ Without(st, i, st2)
  BY <1>1, <1>4, <1>s, RemoveAtWithout
<1>c. PICK client, x, o :
        o = f.oid /\ client = LookupClientOrderIdByOid(s, o) /\ x = LookupCloidByOid(s, o)
  OBVIOUS
<1>6. Owned(own, s, st, rp) /\ Owned(own, s, st2, rp)
  BY <1>3, <1>4, <1>5, DropOwned DEF AllOrders
<1>7. CASE client = NoClient
  <2>t. PICK t : t = BufferFill(s, f)
    OBVIOUS
  <2>1. gw' = t
    BY <1>2, <1>7, <1>c, <2>t DEF OnUserFill
  <2>2. AllOrders(own, t, st2, rp)
    BY <1>1, <1>3, <1>4, <1>5, <1>7, <1>c, <2>t, BufferOrders
  <2>3. t.told = s.told /\ t.clientToCloid = s.clientToCloid /\ t.cloidToAsset = s.cloidToAsset
    BY <1>3, <2>t DEF BufferFill, Typed, Good, Fields
  <2>4. Minds(gw, t)
    BY <1>3, <2>3, MindsSame, MindsTrans
  <2> QED
    BY <1>1, <1>s, <2>1, <2>2, <2>4 DEF GatewayOrders
<1>8. CASE client # NoClient
  <2>t. PICK t : t = EmitFill(s, client, x)
    OBVIOUS
  <2>1. gw' = t
    BY <1>2, <1>8, <1>c, <2>t DEF OnUserFill
  <2>2. client = LookupClientOrderId(s, x) /\ x \in DOMAIN s.cloidToClient
    BY <1>8, <1>c DEF LookupClientOrderIdByOid, LookupClientOrderId
  <2>3. x \in Cloids /\ o \in DOMAIN s.oidToCloid /\ s.oidToCloid[o] = x
    <3>1. x \in Cloids
      BY <1>3, <2>2 DEF Typed, IsMap
    <3>2. x # NoCloid
      BY <3>1, ExchangeAssumption DEF NoCloid
    <3> QED
      BY <1>c, <3>1, <3>2 DEF LookupCloidByOid
  <2>4. f.cloid = x
    BY <1>4, <1>6, <1>c, <2>3 DEF Owned, AllOwned, OidsOwned, Owns
  <2>5. /\ Followed(x, book[x], s, st, rp) /\ ActiveFits(x, book[x], s, st)
    BY <1>3, <2>2, <2>3 DEF AllOrders, Orders, Order
  <2>6. IsCurrent(s, x, o)
    <3>1. x \in DOMAIN s.cloidToOid /\ o <= s.cloidToOid[x]
      BY <2>3, <2>5 DEF Followed, Registered
    <3>2. CASE Opened(st, x, o)
      <4>1. s.cloidToOid[x] < o
        BY <2>5, <3>1, <3>2 DEF Opened, ActiveFits
      <4>2. s.cloidToOid[x] \in Nat /\ o \in Nat
        BY <1>3, <1>4, <1>c, <3>1, EventTypes DEF Typed, IsMap
      <4> QED
        BY <3>1, <4>1, <4>2
    <3>3. IsCurrent(s, x, o) \/ Opened(st, x, o)
      BY <1>1, <1>4, <1>c, <2>4, <2>5 DEF Followed, FillsLed
    <3> QED
      BY <3>2, <3>3
  <2>7. Departs(st, rp, st2, rp, o)
    <3>1. \A y : SameNews(y, st, st2)
      BY <1>1, <1>4, <1>5, DropLeaves DEF IsOpen
    <3>2. \A y : SomeOf(y, rp, rp)
      BY DEF SomeOf
    <3>3. ASSUME NEW oid
          PROVE  /\ CountOf(st2, "oid", oid) <= CountOf(st, "oid", oid)
                 /\ CountOf(st2, "oid", oid) + CountOf(rp, "oid", oid) + (IF oid = o THEN 1 ELSE 0)
                      = CountOf(st, "oid", oid) + CountOf(rp, "oid", oid)
      <4>1. OneOf(f, "oid", oid) = IF oid = o THEN 1 ELSE 0
        BY <1>1, <1>c DEF OneOf, IsCounted
      <4>n. PICK k \in Nat, m \in Nat, one \in {0, 1} :
              /\ k = CountOf(st2, "oid", oid) /\ m = CountOf(rp, "oid", oid)
              /\ one = OneOf(f, "oid", oid)
        BY <1>6, <4>1, Counted DEF Owned
      <4>2. CountOf(st, "oid", oid) = k + one
        BY <1>4, <1>5, <1>6, <4>n, DropOwned
      <4> QED
        BY <4>1, <4>2, <4>n
    <3> QED
      BY <3>1, <3>2, <3>3 DEF Departs
  <2>8. AllOrders(own, t, st2, rp) /\ Minds(s, t)
    BY <1>3, <1>6, <2>2, <2>6, <2>7, <2>t, EmitOrders
  <2>9. Minds(gw, t)
    BY <1>3, <2>8, MindsTrans
  <2> QED
    BY <1>1, <1>s, <2>1, <2>8, <2>9 DEF GatewayOrders
<1> QED
  BY <1>7, <1>8

LEMMA TailSome ==
  ASSUME NEW rp \in Seq(Fill), rp # <<>>, NEW rp2, rp2 = Tail(rp), NEW y
  PROVE  SomeOf(y, rp2, rp)
BY TailWithin DEF SomeOf, Within

LEMMA ReplayOrders ==
  ASSUME IInv, FillInv, Replayed, OrderInv, ReplayFill
  PROVE  GatewayOrders
<1>o. PICK own : OwnedBy(own)
  BY DEF FillInv
<1>1. replaying # <<>> /\ replaying' = Tail(replaying) /\ stream' = stream /\ nextOid' = nextOid
  BY DEF ReplayFill, exchangeVars
<1>s. PICK s, st, rp, rp2 : s = gw /\ st = stream /\ rp = replaying /\ rp2 = replaying'
  OBVIOUS
<1>2. AllOrders(own, s, st, rp) /\ Placed(s)
  BY <1>1, <1>o, <1>s, OrdersNow, GatewayPlaced
<1>3. Owned(own, s, st, rp) /\ Typed(s) /\ rp \in Seq(Fill) /\ rp # <<>> /\ rp2 = Tail(rp)
  BY <1>1, <1>2, <1>s DEF AllOrders, Owned
<1>h. PICK h : h = Head(rp)
  OBVIOUS
<1>4. 1 \in 1 .. Len(rp) /\ h = rp[1]
  <2>1. Len(rp) \in Nat /\ Len(rp) # 0
    BY <1>3, LenProperties, EmptySeq
  <2> QED
    BY <1>h, <2>1 DEF Head
<1>5. h \in Fill /\ h.type = "fill" /\ Owns(own, h.oid, h.cloid)
  BY <1>3, <1>4, FillTypes DEF Owned, AllOwned
<1>c. PICK client, x, o :
        o = h.oid /\ client = LookupClientOrderId(s, x) /\ x = LookupCloidByOid(s, o)
  OBVIOUS
<1>6. client # NoClient
  BY <1>4, <1>c, <1>s DEF Replayed, Room
<1>t. PICK t : t = EmitFill(s, client, x)
  OBVIOUS
<1>7. gw' = t
  BY <1>c, <1>h, <1>s, <1>t DEF ReplayFill, LookupClientOrderIdByOid
<1>8. x \in DOMAIN s.cloidToClient /\ x \in Cloids
  BY <1>3, <1>6, <1>c DEF LookupClientOrderId, Typed, IsMap
<1>9. h.cloid = x
  <2>1. x # NoCloid
    BY <1>8, ExchangeAssumption DEF NoCloid
  <2>2. o \in DOMAIN s.oidToCloid /\ s.oidToCloid[o] = x
    BY <1>c, <2>1 DEF LookupCloidByOid
  <2> QED
    BY <1>3, <1>5, <1>c, <2>2 DEF Owned, OidsOwned, Owns
<1>10. IsCurrent(s, x, o)
  BY <1>2, <1>4, <1>8, <1>9, <1>c DEF AllOrders, Orders, Order, Followed, ReplayLed
<1>11. Owned(own, s, st, rp2)
  <2>1. rp2 \in Seq(Fill) /\ Within(rp2, rp)
    BY <1>3, TailWithin
  <2>2. AllOwned(own, rp2)
    BY <1>3, <2>1, WithinOwned DEF Owned
  <2> QED
    BY <1>3, <2>1, <2>2 DEF Owned
<1>12. Departs(st, rp, st, rp2, o)
  <2>1. \A y : SameNews(y, st, st) /\ SomeOf(y, rp2, rp)
    BY <1>3, TailSome DEF SameNews, Fewer
  <2>2. ASSUME NEW oid
        PROVE  /\ CountOf(st, "oid", oid) <= CountOf(st, "oid", oid)
               /\ CountOf(st, "oid", oid) + CountOf(rp2, "oid", oid) + (IF oid = o THEN 1 ELSE 0)
                    = CountOf(st, "oid", oid) + CountOf(rp, "oid", oid)
    <3>1. OneOf(h, "oid", oid) = IF oid = o THEN 1 ELSE 0
      BY <1>5, <1>c DEF OneOf, IsCounted
    <3>2. CountOf(rp, "oid", oid) = CountOf(rp2, "oid", oid) + OneOf(h, "oid", oid)
      BY <1>3, <1>h, TailCount
    <3>n. PICK k \in Nat, m \in Nat :
            k = CountOf(st, "oid", oid) /\ m = CountOf(rp2, "oid", oid)
      BY <1>11, Counted DEF Owned
    <3> QED
      BY <3>1, <3>2, <3>n
  <2> QED
    BY <2>1, <2>2 DEF Departs
<1>13. AllOrders(own, t, st, rp2) /\ Minds(s, t)
  BY <1>2, <1>8, <1>10, <1>11, <1>12, <1>c, <1>t, EmitOrders
<1> QED
  BY <1>1, <1>7, <1>13, <1>s DEF GatewayOrders


-----------------------------------------------------------------------------
(* An Open arrives, as the first of the stream.  Its oid becomes the       *)
(* active one, nothing filled, and if the order has a client the fills     *)
(* buffered for the oid are replayed.                                      *)
OpenedBy(own, s, g, x, o, z) ==
  /\ Typed(g) /\ OidsOwned(g, own) /\ g.cloidToClient = s.cloidToClient
  /\ \A y, oid : Owns(g.oidToCloid, oid, y) <=> Owns(s.oidToCloid, oid, y) \/ (oid = o /\ y = x)
  /\ \A y, oid : IsCurrent(g, y, oid) <=> IF y = x THEN oid = o ELSE IsCurrent(s, y, oid)
  /\ \A y : y # x => SameQuantities(s, g, y)
  /\ StateOf(g, x).cumQty = 0 /\ z <= StateOf(g, x).origSz

Moved(buffer, buffer2, rp, o) ==
  /\ buffer2 \in Seq(Fill) /\ rp \in Seq(Fill)
  /\ Within(buffer2, buffer) /\ Within(rp, buffer)
  /\ \A i \in 1 .. Len(rp) : rp[i].oid = o
  /\ \A oid : CountOf(buffer2, "oid", oid) + CountOf(rp, "oid", oid) = CountOf(buffer, "oid", oid)

OpenArrives(own, s, st, st2, g, rp) ==
  /\ AllOrders(own, s, st, <<>>)
  /\ 1 \in 1 .. Len(st) /\ IsOpen(st[1]) /\ st2 \in Seq(Events) /\ Without(st, 1, st2)
  /\ OpenedBy(own, s, g, st[1].cloid, st[1].oid, st[1].origSz)
  /\ Moved(s.bufferedFills, g.bufferedFills, rp, st[1].oid)

LEMMA DropFirst ==
  ASSUME NEW st \in Seq(Events), 1 \in 1 .. Len(st), NEW st2 \in Seq(Events), Without(st, 1, st2)
  PROVE  /\ \A i \in 1 .. Len(st2) : i + 1 \in 1 .. Len(st) /\ st2[i] = st[i + 1] /\ i + 1 # 1
         /\ \A p \in 1 .. Len(st) : p # 1 => p - 1 \in 1 .. Len(st2) /\ st2[p - 1] = st[p]
<1>n. PICK n \in Nat : n = Len(st) /\ 1 \in 1 .. n
  BY LenProperties
<1>1. Len(st2) = n - 1 /\ \A i \in 1 .. n - 1 : st2[i] = IF i < 1 THEN st[i] ELSE st[i + 1]
  BY <1>n DEF Without
<1>2. \A i \in 1 .. n - 1 : i + 1 \in 1 .. n /\ i + 1 # 1 /\ ~(i < 1)
  BY <1>n
<1>3. \A p \in 1 .. n : p # 1 => p - 1 \in 1 .. n - 1 /\ p - 1 + 1 = p /\ ~(p - 1 < 1)
  BY <1>n
<1> QED
  BY <1>n, <1>1, <1>2, <1>3

LEMMA OfOtherOid ==
  ASSUME NEW rp \in Seq(Fill), NEW o, \A i \in 1 .. Len(rp) : rp[i].oid = o, NEW oid, oid # o
  PROVE  CountOf(rp, "oid", oid) = 0
<1>1. DOMAIN rp = 1 .. Len(rp) /\ CountOf(rp, "oid", oid) = Cardinality(CountedAt(rp, "oid", oid))
  BY Counted
<1>2. CountedAt(rp, "oid", oid) = {}
  BY <1>1 DEF CountedAt
<1> QED
  BY <1>1, <1>2, FS_EmptySet

LEMMA OpenOwned ==
  ASSUME NEW own, NEW s, NEW st, NEW st2, NEW g, NEW rp, OpenArrives(own, s, st, st2, g, rp)
  PROVE  /\ Owned(own, s, st, <<>>) /\ Owned(own, g, st2, rp)
         /\ \A oid : /\ CountOf(st, "oid", oid) = CountOf(st2, "oid", oid)
                     /\ CountOf(st2, "oid", oid) \in Nat
                     /\ CountOf(g.bufferedFills, "oid", oid) \in Nat
                     /\ CountOf(rp, "oid", oid) \in Nat
<1>1. Owned(own, s, st, <<>>)
  BY DEF OpenArrives, AllOrders
<1>2. /\ Owned(own, s, st2, <<>>)
      /\ \A oid : /\ CountOf(st2, "oid", oid) \in Nat
                  /\ CountOf(st, "oid", oid) = CountOf(st2, "oid", oid) + OneOf(st[1], "oid", oid)
  BY <1>1, DropOwned DEF OpenArrives
<1>3. \A oid : OneOf(st[1], "oid", oid) = 0
  BY DEF OpenArrives, IsOpen, OneOf, IsCounted
<1>4. \A oid : CountOf(st, "oid", oid) = CountOf(st2, "oid", oid)
  BY <1>2, <1>3
<1>5. AllOwned(own, s.bufferedFills)
  BY <1>1 DEF Owned
<1>6. AllOwned(own, g.bufferedFills) /\ AllOwned(own, rp)
  BY <1>5, WithinOwned DEF OpenArrives, Moved
<1>7. Owned(own, g, st2, rp)
  BY <1>2, <1>6 DEF Owned, OpenArrives, OpenedBy, Moved
<1>8. \A oid : CountOf(g.bufferedFills, "oid", oid) \in Nat /\ CountOf(rp, "oid", oid) \in Nat
  BY Counted DEF OpenArrives, Moved
<1> QED
  BY <1>1, <1>2, <1>4, <1>7, <1>8

LEMMA OpenAnnounces ==
  ASSUME IInv, NEW own, NEW s, NEW st, NEW st2, NEW g, NEW rp, OpenArrives(own, s, st, st2, g, rp),
         NEW y \in Cloids, NEW b, b = book[y]
  PROVE  /\ Announced(y, b, st2, g.bufferedFills, rp)
         /\ NoMoreUnder(own, y, st, s.bufferedFills, st2, g.bufferedFills)
<1>1. Owned(own, s, st, <<>>) /\ Owned(own, g, st2, rp)
  BY OpenOwned
<1>2. b.done \in Nat /\ Announced(y, b, st, s.bufferedFills, <<>>)
  BY EntryTypes DEF OpenArrives, AllOrders, Orders, Order
<1>3. Fewer(y, st, st2)
  BY <1>1, DropLeaves DEF OpenArrives, Owned
<1>4. HandedOut(y, b, g.bufferedFills) /\ HandedOut(y, b, rp)
  <2>1. Within(g.bufferedFills, s.bufferedFills) /\ Within(rp, s.bufferedFills)
    BY DEF OpenArrives, Moved
  <2>2. HandedOut(y, b, s.bufferedFills)
    BY <1>2 DEF Announced
  <2> QED
    BY <2>1, <2>2 DEF HandedOut, Within
<1>5. NoMoreUnder(own, y, st, s.bufferedFills, st2, g.bufferedFills)
  <2>1. ASSUME NEW oid
        PROVE  Under(st2, g.bufferedFills, oid) <= Under(st, s.bufferedFills, oid)
    <3>n. PICK k \in Nat, m \in Nat, n \in Nat :
            /\ k = CountOf(st2, "oid", oid) /\ m = CountOf(g.bufferedFills, "oid", oid)
            /\ n = CountOf(rp, "oid", oid)
      BY OpenOwned
    <3>0. Moved(s.bufferedFills, g.bufferedFills, rp, st[1].oid)
      BY DEF OpenArrives
    <3>1. CountOf(s.bufferedFills, "oid", oid) = m + n
      BY <3>0, <3>n DEF Moved
    <3>3. CountOf(st, "oid", oid) = k
      BY <3>n, OpenOwned
    <3>2. Under(st2, g.bufferedFills, oid) = k + m /\ Under(st, s.bufferedFills, oid) = k + (m + n)
      BY <3>1, <3>3, <3>n DEF Under
    <3> QED
      BY <3>2
  <2> QED
    BY <2>1 DEF NoMoreUnder
<1>b. PICK buffer, buffer2 : buffer = s.bufferedFills /\ buffer2 = g.bufferedFills
  OBVIOUS
<1>6. Announced(y, b, st2, buffer2, rp)
  BY <1>1, <1>2, <1>3, <1>4, <1>5, <1>b, AnnouncedStill
<1> QED
  BY <1>5, <1>6, <1>b

LEMMA OpenElsewhere ==
  ASSUME IInv, NEW own, NEW s, NEW st, NEW st2, NEW g, NEW rp, OpenArrives(own, s, st, st2, g, rp),
         NEW y \in Cloids, y # st[1].cloid
  PROVE  Order(y, book[y], g, st2, rp)
<1>b. PICK b : b = book[y] /\ b.done \in Nat /\ Order(y, b, s, st, <<>>)
  BY EntryTypes DEF OpenArrives, AllOrders, Orders
<1>n. PICK none : none = <<>>
  OBVIOUS
<1>o. PICK o, x : o = st[1].oid /\ x = st[1].cloid
  OBVIOUS
<1>1. Owned(own, s, st, <<>>) /\ Owned(own, g, st2, rp) /\ Owns(own, o, x)
  BY <1>o, OpenOwned DEF OpenArrives, Owned, AllOwned
<1>2. SameNews(y, st, st2)
  BY <1>1, DropLeaves DEF OpenArrives, Owned
<1>3. SameEntries(y, s, g)
  BY DEF OpenArrives, OpenedBy, SameEntries, SameQuantities
<1>4. SomeOf(y, g.bufferedFills, s.bufferedFills)
  BY DEF SomeOf, OpenArrives, Moved, Within
<1>5. SomeOf(y, rp, <<>>)
  <2>1. ASSUME NEW i \in 1 .. Len(rp)
        PROVE  rp[i].cloid # y
    <3>1. Owns(own, rp[i].oid, rp[i].cloid) /\ rp[i].oid = o
      BY <1>1, <1>o DEF Owned, AllOwned, OpenArrives, Moved
    <3> QED
      BY <1>1, <1>o, <3>1 DEF Owns
  <2> QED
    BY <2>1 DEF SomeOf
<1>6. NoMoreUnder(own, y, st, s.bufferedFills, st2, g.bufferedFills)
  BY OpenAnnounces
<1>7. ASSUME NEW oid, Owns(own, oid, y)
      PROVE  /\ CountOf(st2, "oid", oid) <= CountOf(st, "oid", oid)
             /\ CountOf(rp, "oid", oid) <= CountOf(none, "oid", oid)
  <2>1. oid # o
    BY <1>1, <1>7, <1>o DEF Owns
  <2>2. CountOf(rp, "oid", oid) = 0
    BY <1>o, <2>1, OfOtherOid DEF OpenArrives, Moved
  <2>3. CountOf(none, "oid", oid) = 0
    BY <1>n, NoneCount
  <2>n. PICK k \in Nat : k = CountOf(st2, "oid", oid) /\ k = CountOf(st, "oid", oid)
    BY OpenOwned
  <2> QED
    BY <2>2, <2>3, <2>n
<1>8. Owned(own, s, st, none) /\ Order(y, b, s, st, none) /\ SomeOf(y, rp, none)
  BY <1>1, <1>5, <1>b, <1>n
<1>9. Order(y, b, g, st2, rp)
  BY <1>1, <1>2, <1>3, <1>4, <1>6, <1>7, <1>8, <1>b, Apart
<1> QED
  BY <1>9, <1>b

LEMMA OpenActive ==
  ASSUME IInv, NEW own, NEW s, NEW st, NEW st2, NEW g, NEW rp, OpenArrives(own, s, st, st2, g, rp),
         NEW x \in Cloids, x = st[1].cloid
  PROVE  /\ ActiveFits(x, book[x], g, st2) /\ IsCurrent(g, x, st[1].oid)
         /\ 0 < st[1].oid /\ st[1].oid <= book[x].oid
         /\ \A i \in 1 .. Len(st2) : st2[i].cloid = x =>
              /\ IsOpen(st2[i]) => st[1].oid < st2[i].oid
              /\ st2[i].type = "fill" => st[1].oid <= st2[i].oid
<1>b. PICK b, o : b = book[x] /\ o = st[1].oid
  OBVIOUS
<1>1. HandedOut(x, b, st) /\ InOrder(x, st)
  BY <1>b DEF OpenArrives, AllOrders, Orders, Order, Announced
<1>2. IsOpen(st[1]) /\ 1 \in 1 .. Len(st) /\ st \in Seq(Events)
  BY DEF OpenArrives, AllOrders, Owned
<1>3. 0 < o /\ o <= b.oid
  BY <1>1, <1>2, <1>b DEF HandedOut, IsEnd, IsOpen
<1>4. IsCurrent(g, x, o) /\ Owns(g.oidToCloid, o, x)
  BY <1>b DEF OpenArrives, OpenedBy
<1>5. ASSUME NEW i \in 1 .. Len(st2), st2[i].cloid = x
      PROVE  /\ IsOpen(st2[i]) => o < st2[i].oid
             /\ st2[i].type = "fill" => o <= st2[i].oid
  <2>p. PICK p \in 1 .. Len(st) : p = i + 1 /\ st2[i] = st[p]
    BY <1>2, DropFirst DEF OpenArrives
  <2>1. 1 < p
    BY <2>p
  <2> QED
    BY <1>1, <1>2, <1>5, <1>b, <2>1, <2>p DEF InOrder
<1>6. ActiveFits(x, b, g, st2)
  BY <1>3, <1>4, <1>5 DEF ActiveFits, IsCurrent
<1> QED
  BY <1>3, <1>4, <1>5, <1>6, <1>b

LEMMA OpenMeasured ==
  ASSUME IInv, NEW own, NEW s, NEW st, NEW st2, NEW g, NEW rp, OpenArrives(own, s, st, st2, g, rp),
         NEW x \in Cloids, x = st[1].cloid
  PROVE  Measured(x, book[x], g, st2, rp)
<1>b. PICK b, o, z : b = book[x] /\ o = st[1].oid /\ z = st[1].origSz
  OBVIOUS
<1>1. IsOpen(st[1]) /\ 1 \in 1 .. Len(st) /\ st \in Seq(Events)
  BY DEF OpenArrives, AllOrders, Owned
<1>2. /\ o = b.oid => Under(st, s.bufferedFills, o) <= b.done /\ b.done + b.left <= z
      /\ o < b.oid => Under(st, s.bufferedFills, o) < z
  <2>1. OpensFit(x, b, st, s.bufferedFills)
    BY <1>b DEF OpenArrives, AllOrders, Orders, Order, Announced
  <2> QED
    BY <2>1, <1>1, <1>b DEF OpensFit
<1>3. \A oid : IsCurrent(g, x, oid) <=> oid = o
  BY <1>b DEF OpenArrives, OpenedBy
<1>c. PICK c, w : c = StateOf(g, x).cumQty /\ w = StateOf(g, x).origSz
  OBVIOUS
<1>4. c = 0 /\ z <= w /\ w \in Nat /\ z \in Nat
  <2>1. OpenedBy(own, s, g, st[1].cloid, st[1].oid, st[1].origSz)
    BY DEF OpenArrives
  <2>2. Typed(g) /\ StateOf(g, x).cumQty = 0 /\ z <= StateOf(g, x).origSz
    BY <1>b, <2>1 DEF OpenedBy
  <2>3. StateOf(g, x).origSz \in Nat
    BY <2>2, <1>3, ActiveTypes
  <2>4. z \in Nat
    BY <1>1, <1>b, EventTypes DEF IsOpen
  <2> QED
    BY <1>c, <2>2, <2>3, <2>4
<1>n. PICK k \in Nat, m \in Nat, n \in Nat :
        /\ k = CountOf(st2, "oid", o) /\ m = CountOf(g.bufferedFills, "oid", o)
        /\ n = CountOf(rp, "oid", o)
  BY OpenOwned
<1>5. Under(st, s.bufferedFills, o) = k + (m + n)
  <2>1. Moved(s.bufferedFills, g.bufferedFills, rp, st[1].oid)
    BY DEF OpenArrives
  <2>2. CountOf(s.bufferedFills, "oid", o) = m + n
    BY <2>1, <1>n DEF Moved
  <2>3. CountOf(st, "oid", o) = k
    BY <1>n, OpenOwned
  <2> QED
    BY <2>2, <2>3 DEF Under
<1>6. Tally(g, st2, rp, x, o) = k + n
  BY <1>4, <1>c, <1>n DEF Tally
<1>d. PICK d \in Nat, l \in Nat : d = b.done /\ l = b.left
  BY <1>b, EntryTypes
<1>7. /\ o = b.oid => Tally(g, st2, rp, x, o) <= b.done /\ b.done + b.left <= w
      /\ o < b.oid => Tally(g, st2, rp, x, o) < w
  BY <1>2, <1>4, <1>5, <1>6, <1>d
<1> QED
  BY <1>3, <1>7, <1>b, <1>c DEF Measured

LEMMA OpenFollowed ==
  ASSUME IInv, NEW own, NEW s, NEW st, NEW st2, NEW g, NEW rp, OpenArrives(own, s, st, st2, g, rp),
         NEW x \in Cloids, x = st[1].cloid, x \in DOMAIN s.cloidToClient,
         \A i \in 1 .. Len(g.bufferedFills) : g.bufferedFills[i].oid # st[1].oid
  PROVE  Followed(x, book[x], g, st2, rp)
<1>b. PICK b, o : b = book[x] /\ o = st[1].oid
  OBVIOUS
<1>1. st \in Seq(Events) /\ st2 \in Seq(Events) /\ 1 \in 1 .. Len(st) /\ IsOpen(st[1])
  BY DEF OpenArrives, AllOrders, Owned
<1>2. /\ \A i \in 1 .. Len(st2) : i + 1 \in 1 .. Len(st) /\ st2[i] = st[i + 1] /\ i + 1 # 1
      /\ \A p \in 1 .. Len(st) : p # 1 => p - 1 \in 1 .. Len(st2) /\ st2[p - 1] = st[p]
  BY <1>1, DropFirst DEF OpenArrives
<1>3. Followed(x, b, s, st, <<>>) /\ ActiveFits(x, b, s, st)
  BY <1>b DEF OpenArrives, AllOrders, Orders, Order
<1>4. \A oid : IsCurrent(g, x, oid) <=> oid = o
  BY <1>b DEF OpenArrives, OpenedBy
<1>5. /\ o \in Nat /\ o <= b.oid /\ b.oid \in Nat
      /\ \A i \in 1 .. Len(st2) : st2[i].cloid = x /\ st2[i].type = "fill" => o <= st2[i].oid
  BY <1>1, <1>b, OpenActive, EventTypes, EntryTypes
<1>6. \A oid : IsCurrent(s, x, oid) => oid \in Nat /\ oid < o
  <2>1. Typed(s)
    BY DEF OpenArrives, AllOrders, Owned
  <2>2. \A oid : IsCurrent(s, x, oid) => oid \in Nat
    BY <2>1, ActiveTypes
  <2> QED
    BY <1>1, <1>3, <1>b, <2>2 DEF ActiveFits, IsCurrent
<1>7. \A oid : Opened(st, x, oid) => oid = o \/ Opened(st2, x, oid)
  <2>1. SUFFICES ASSUME NEW oid, Opened(st, x, oid), oid # o
                 PROVE  Opened(st2, x, oid)
    OBVIOUS
  <2>2. PICK j \in 1 .. Len(st) : st[j].cloid = x /\ IsOpen(st[j]) /\ st[j].oid = oid
    BY <2>1 DEF Opened
  <2>3. j # 1
    BY <1>b, <2>1, <2>2
  <2>4. j - 1 \in 1 .. Len(st2) /\ st2[j - 1] = st[j]
    BY <1>2, <2>3
  <2> QED
    BY <2>2, <2>4 DEF Opened
<1>8. Registered(x, g)
  <2>1. ASSUME NEW oid, Owns(g.oidToCloid, oid, x)
        PROVE  x \in DOMAIN g.cloidToOid /\ oid <= g.cloidToOid[x]
    <3>1. IsCurrent(g, x, o)
      BY <1>4
    <3>2. Owns(s.oidToCloid, oid, x) \/ oid = o
      BY <2>1, <1>b DEF OpenArrives, OpenedBy
    <3>3. CASE Owns(s.oidToCloid, oid, x)
      <4>1. Registered(x, s)
        BY <1>3 DEF Followed
      <4>2. x \in DOMAIN s.cloidToOid /\ oid <= s.cloidToOid[x]
        BY <3>3, <4>1 DEF Registered, Owns
      <4>3. s.cloidToOid[x] \in Nat /\ s.cloidToOid[x] < o
        BY <1>6, <4>2 DEF IsCurrent
      <4>4. oid \in Nat
        BY <3>3 DEF OpenArrives, AllOrders, Owned, Typed, IsMap, Owns
      <4> QED
        BY <1>5, <3>1, <4>2, <4>3, <4>4 DEF IsCurrent
    <3> QED
      BY <1>5, <3>1, <3>2, <3>3 DEF IsCurrent
  <2> QED
    BY <2>1 DEF Registered, Owns
<1>9. FillsLed(x, g, st2)
  <2>1. SUFFICES ASSUME NEW i \in 1 .. Len(st2), st2[i].cloid = x, st2[i].type = "fill"
                 PROVE  IsCurrent(g, x, st2[i].oid) \/ Opened(st2, x, st2[i].oid)
    BY DEF FillsLed
  <2>p. PICK p \in 1 .. Len(st) : st2[i] = st[p]
    BY <1>2
  <2>2. IsCurrent(s, x, st[p].oid) \/ Opened(st, x, st[p].oid)
    BY <1>3, <2>1, <2>p DEF Followed, FillsLed
  <2>3. o <= st[p].oid
    BY <1>5, <2>1, <2>p
  <2>4. ~IsCurrent(s, x, st[p].oid)
    BY <1>5, <1>6, <2>3
  <2> QED
    BY <1>4, <1>7, <2>2, <2>4, <2>p
<1>10. BufferLed(x, st2, g.bufferedFills)
  <2>1. SUFFICES ASSUME NEW i \in 1 .. Len(g.bufferedFills), g.bufferedFills[i].cloid = x
                 PROVE  Opened(st2, x, g.bufferedFills[i].oid)
    BY DEF BufferLed
  <2>2. PICK j \in 1 .. Len(s.bufferedFills) : g.bufferedFills[i] = s.bufferedFills[j]
    BY DEF OpenArrives, Moved, Within
  <2>3. Opened(st, x, g.bufferedFills[i].oid)
    BY <1>3, <2>1, <2>2 DEF Followed, BufferLed
  <2> QED
    BY <1>7, <1>b, <2>3
<1>11. BookLed(x, b, g, st2)
  <2>1. SUFFICES ASSUME b.oid # 0
                 PROVE  IsCurrent(g, x, b.oid) \/ Opened(st2, x, b.oid)
    BY DEF BookLed
  <2>2. IsCurrent(s, x, b.oid) \/ Opened(st, x, b.oid)
    BY <1>3, <2>1 DEF Followed, BookLed
  <2>3. ~IsCurrent(s, x, b.oid)
    BY <1>5, <1>6
  <2> QED
    BY <1>4, <1>7, <2>2, <2>3
<1>12. EndsLed(x, b, g, st2)
  <2>1. SUFFICES ASSUME NEW i \in 1 .. Len(st2), st2[i].cloid = x, IsEnd(st2[i])
                 PROVE  \/ b.oid = 0
                        \/ \E oid \in Nat : IsCurrent(g, x, oid) /\ Passed(st2[i], oid, b)
                        \/ \E j \in 1 .. i - 1 :
                             st2[j].cloid = x /\ IsOpen(st2[j]) /\ Passed(st2[i], st2[j].oid, b)
    BY DEF EndsLed
  <2>p. PICK p \in 1 .. Len(st) : p = i + 1 /\ st2[i] = st[p]
    BY <1>2
  <2>u. PICK u : u = st[p] /\ u.oid \in Nat
    BY <1>1, EventTypes
  <2>2. \/ b.oid = 0
        \/ \E oid \in Nat : IsCurrent(s, x, oid) /\ Passed(u, oid, b)
        \/ \E q \in 1 .. p - 1 : st[q].cloid = x /\ IsOpen(st[q]) /\ Passed(u, st[q].oid, b)
    BY <1>3, <2>1, <2>p, <2>u DEF Followed, EndsLed
  <2>3. ASSUME NEW oid \in Nat, IsCurrent(s, x, oid), Passed(u, oid, b)
        PROVE  Passed(u, o, b)
    <3>1. oid < o
      BY <1>6, <2>3
    <3> QED
      BY <1>5, <2>3, <2>u, <3>1 DEF Passed
  <2>4. ASSUME NEW q \in 1 .. p - 1, st[q].cloid = x, IsOpen(st[q]), Passed(u, st[q].oid, b), q # 1
        PROVE  \E j \in 1 .. i - 1 : st2[j].cloid = x /\ IsOpen(st2[j]) /\ Passed(u, st2[j].oid, b)
    <3>1. q \in 1 .. Len(st) /\ q - 1 \in 1 .. i - 1
      BY <2>4, <2>p
    <3>2. st2[q - 1] = st[q]
      BY <1>2, <2>4, <3>1
    <3> QED
      BY <2>4, <3>1, <3>2
  <2> QED
    BY <1>4, <1>5, <1>b, <2>2, <2>3, <2>4, <2>p, <2>u
<1>13. ReplayLed(x, g, rp)
  BY <1>4, <1>b DEF ReplayLed, OpenArrives, Moved
<1>14. Measured(x, b, g, st2, rp)
  BY <1>b, OpenMeasured
<1> QED
  BY <1>8, <1>9, <1>10, <1>11, <1>12, <1>13, <1>14, <1>b DEF Followed

LEMMA OpenOrders ==
  ASSUME IInv, NEW own, NEW s, NEW st, NEW st2, NEW g, NEW rp, OpenArrives(own, s, st, st2, g, rp),
         st[1].cloid \in DOMAIN s.cloidToClient =>
           \A i \in 1 .. Len(g.bufferedFills) : g.bufferedFills[i].oid # st[1].oid
  PROVE  AllOrders(own, g, st2, rp)
<1>1. ASSUME NEW x \in Cloids, x = st[1].cloid
      PROVE  Order(x, book[x], g, st2, rp)
  <2>1. Announced(x, book[x], st2, g.bufferedFills, rp)
    BY OpenAnnounces
  <2>2. ActiveFits(x, book[x], g, st2)
    BY <1>1, OpenActive
  <2>3. ASSUME x \in DOMAIN g.cloidToClient
        PROVE  Followed(x, book[x], g, st2, rp)
    <3>1. x \in DOMAIN s.cloidToClient
      BY <2>3 DEF OpenArrives, OpenedBy
    <3> QED
      BY <1>1, <3>1, OpenFollowed
  <2> QED
    BY <2>1, <2>2, <2>3 DEF Order
<1>2. \A y \in Cloids : Order(y, book[y], g, st2, rp)
  BY <1>1, OpenElsewhere
<1>3. Owned(own, g, st2, rp)
  BY OpenOwned
<1> QED
  BY <1>2, <1>3 DEF AllOrders, Orders

(* What the handler of an Open makes of the maps, and what it takes out of *)
(* the buffer.                                                             *)
SameMaps(s, t) ==
  /\ t.clientToCloid = s.clientToCloid /\ t.cloidToClient = s.cloidToClient
  /\ t.oidToCloid = s.oidToCloid /\ t.cloidToOid = s.cloidToOid
  /\ t.cloidToState = s.cloidToState /\ t.cloidToAsset = s.cloidToAsset
  /\ t.told = s.told

LEMMA OpenedOnce ==
  ASSUME NEW s, Typed(s), NEW own, OidsOwned(s, own), NEW o \in Nat, NEW x \in Cloids,
         Owns(own, o, x), NEW q, q = SetActiveOid(s, o, x)
  PROVE  /\ Typed(q) /\ OidsOwned(q, own) /\ q.cloidToClient = s.cloidToClient
         /\ q.clientToCloid = s.clientToCloid /\ q.cloidToAsset = s.cloidToAsset
         /\ q.bufferedFills = s.bufferedFills /\ q.told = s.told
         /\ \A y, oid : Owns(q.oidToCloid, oid, y) <=>
              Owns(s.oidToCloid, oid, y) \/ (oid = o /\ y = x)
         /\ \A y, oid : IsCurrent(q, y, oid) <=>
              IF y = x THEN oid = o ELSE IsCurrent(s, y, oid)
         /\ \A y : SameQuantities(s, q, y)
<1>r. PICK r : r = RegisterOid(s, o, x)
  OBVIOUS
<1>2. /\ Typed(r) /\ OidsOwned(r, own) /\ r.cloidToClient = s.cloidToClient
      /\ r.clientToCloid = s.clientToCloid /\ r.cloidToAsset = s.cloidToAsset
      /\ r.bufferedFills = s.bufferedFills /\ r.told = s.told
      /\ r.cloidToOid = s.cloidToOid /\ r.cloidToState = s.cloidToState
      /\ \A y, oid : Owns(r.oidToCloid, oid, y) <=>
           Owns(s.oidToCloid, oid, y) \/ (oid = o /\ y = x)
  <2>1. Registers(own, s, r, o, x)
    BY <1>r, RegisteredIds
  <2> QED
    BY <2>1 DEF Registers
<1>3. Spares(s, q, own)
  BY SetActiveOidSpares
<1>4. q = [r EXCEPT !.cloidToOid = Put(s.cloidToOid, x, o)]
  BY <1>r DEF SetActiveOid
<1>5. /\ q.clientToCloid = r.clientToCloid /\ q.cloidToClient = r.cloidToClient
      /\ q.cloidToState = r.cloidToState /\ q.oidToCloid = r.oidToCloid
      /\ q.cloidToAsset = r.cloidToAsset /\ q.bufferedFills = r.bufferedFills
      /\ q.told = r.told /\ q.cloidToOid = Put(s.cloidToOid, x, o)
  BY <1>2, <1>4 DEF Typed, Good, Fields
<1>6. \A y, oid : IsCurrent(q, y, oid) <=> IF y = x THEN oid = o ELSE IsCurrent(s, y, oid)
  BY <1>5 DEF IsCurrent, Put
<1>7. \A y : SameQuantities(s, q, y)
  BY <1>2, <1>5 DEF SameQuantities, StateOf
<1>8. Typed(q) /\ OidsOwned(q, own)
  BY <1>3 DEF Spares
<1>9. \A y, oid : Owns(q.oidToCloid, oid, y) <=>
        Owns(s.oidToCloid, oid, y) \/ (oid = o /\ y = x)
  BY <1>2, <1>5
<1> QED
  BY <1>2, <1>5, <1>6, <1>7, <1>8, <1>9

LEMMA OpenedMaps ==
  ASSUME NEW s, Typed(s), Placed(s), NEW own, OidsOwned(s, own), NEW u, Genuine(u, own),
         u.status = "Open", NEW t, t = OnOrderUpdate(s, u)
  PROVE  /\ OpenedBy(own, s, t, u.cloid, u.oid, u.origSz)
         /\ t.bufferedFills = s.bufferedFills /\ Minds(s, t)
<1>o. PICK o, x, z : o = u.oid /\ x = u.cloid /\ z = u.origSz
  OBVIOUS
<1>1. o \in Nat /\ x \in Cloids /\ z \in Nat /\ Owns(own, o, x)
  BY <1>o DEF Genuine
<1>r. PICK r, q : r = RegisterOid(s, o, x) /\ q = SetActiveOid(r, o, x)
  OBVIOUS
<1>2. /\ Typed(r) /\ OidsOwned(r, own) /\ r.cloidToClient = s.cloidToClient
      /\ r.clientToCloid = s.clientToCloid /\ r.cloidToAsset = s.cloidToAsset
      /\ r.bufferedFills = s.bufferedFills /\ r.told = s.told
      /\ r.cloidToOid = s.cloidToOid /\ r.cloidToState = s.cloidToState
      /\ \A y, oid : Owns(r.oidToCloid, oid, y) <=>
           Owns(s.oidToCloid, oid, y) \/ (oid = o /\ y = x)
  <2>1. Registers(own, s, r, o, x)
    BY <1>1, <1>r, RegisteredIds
  <2> QED
    BY <2>1 DEF Registers
<1>3. /\ Typed(q) /\ OidsOwned(q, own) /\ q.cloidToClient = r.cloidToClient
      /\ q.clientToCloid = r.clientToCloid /\ q.cloidToAsset = r.cloidToAsset
      /\ q.bufferedFills = r.bufferedFills /\ q.told = r.told
      /\ \A y, oid : Owns(q.oidToCloid, oid, y) <=>
           Owns(r.oidToCloid, oid, y) \/ (oid = o /\ y = x)
      /\ \A y, oid : IsCurrent(q, y, oid) <=> IF y = x THEN oid = o ELSE IsCurrent(r, y, oid)
      /\ \A y : SameQuantities(r, q, y)
  BY <1>1, <1>2, <1>r, OpenedOnce
<1>v. PICK v : v = InitOrderState(q, x, z)
  OBVIOUS
<1>4. /\ Typed(v) /\ SameIds(q, v) /\ v.told = q.told
      /\ \A y : y # x => SameQuantities(q, v, y)
      /\ StateOf(v, x).cumQty = 0 /\ z <= StateOf(v, x).origSz
  BY <1>1, <1>3, <1>v, OpenedState
<1>c. PICK client : client = LookupClientOrderId(v, x)
  OBVIOUS
<1>5. t = ReportKnown(v, client, "NEW")
  BY <1>c, <1>o, <1>r, <1>v DEF OnOrderUpdate, OnOpen
<1>6. client \in Clients \cup {NoClient}
  BY <1>4, <1>c, ClientTyped
<1>7. /\ Typed(t) /\ SameIds(v, t) /\ \A y : SameQuantities(v, t, y) /\ Minds(v, t)
  <2>1. CASE t = v
    BY <1>4, <2>1, MindsSame DEF SameIds, SameQuantities
  <2>2. CASE t = Report(v, client, "NEW")
    <3>1. "NEW" \in ReportKinds /\ "NEW" \notin Endings /\ "NEW" # "FILLED"
      BY DEF ReportKinds, Endings
    <3>2. Typed(t) /\ SameIds(v, t) /\ \A y : SameQuantities(v, t, y)
      BY <1>4, <1>6, <2>2, <3>1, ReportIds
    <3>3. Minds(v, t)
      BY <1>4, <1>6, <2>2, <3>1, ReportMinds
    <3> QED
      BY <3>2, <3>3
  <2> QED
    BY <1>5, <2>1, <2>2 DEF ReportKnown
<1>8. /\ t.cloidToClient = s.cloidToClient /\ t.bufferedFills = s.bufferedFills
      /\ OidsOwned(t, own)
      /\ \A y, oid : Owns(t.oidToCloid, oid, y) <=>
           Owns(s.oidToCloid, oid, y) \/ (oid = o /\ y = x)
  BY <1>2, <1>3, <1>4, <1>7 DEF SameIds, OidsOwned
<1>9. \A y, oid : IsCurrent(t, y, oid) <=> IF y = x THEN oid = o ELSE IsCurrent(s, y, oid)
  BY <1>2, <1>3, <1>4, <1>7 DEF SameIds, IsCurrent
<1>10. \A y : y # x => SameQuantities(s, t, y)
  BY <1>2, <1>3, <1>4, <1>7 DEF SameQuantities, StateOf
<1>11. StateOf(t, x).cumQty = 0 /\ z <= StateOf(t, x).origSz
  BY <1>4, <1>7 DEF SameQuantities
<1>12. Minds(s, t)
  <2>1. Minds(s, v)
    BY <1>2, <1>3, <1>4, MindsSame DEF SameIds
  <2> QED
    BY <1>7, <2>1, MindsTrans
<1> QED
  BY <1>7, <1>8, <1>9, <1>10, <1>11, <1>12, <1>o DEF OpenedBy

LEMMA OpenedStill ==
  ASSUME NEW own, NEW s, NEW t, NEW x, NEW o, NEW z, OpenedBy(own, s, t, x, o, z),
         NEW g, Typed(g), SameMaps(t, g)
  PROVE  OpenedBy(own, s, g, x, o, z)
<1>1. /\ g.cloidToClient = t.cloidToClient /\ g.oidToCloid = t.oidToCloid
      /\ g.cloidToOid = t.cloidToOid /\ g.cloidToState = t.cloidToState
  BY DEF SameMaps
<1>2. OidsOwned(g, own)
  BY <1>1 DEF OpenedBy, OidsOwned
<1>3. \A y : StateOf(g, y) = StateOf(t, y)
  BY <1>1 DEF StateOf
<1>4. \A y, oid : IsCurrent(g, y, oid) <=> IsCurrent(t, y, oid)
  BY <1>1 DEF IsCurrent
<1> QED
  BY <1>1, <1>2, <1>3, <1>4 DEF OpenedBy, SameQuantities

LEMMA PickedOthers ==
  ASSUME NEW b \in Seq(Fill), NEW o, NEW Q \in SUBSET DOMAIN b, \A i \in Q : b[i].oid # o,
         NEW q, q = Picked(b, Q)
  PROVE  q \in Seq(Fill) /\ Within(q, b) /\ \A i \in 1 .. Len(q) : q[i].oid # o
<1>1. q \in Seq(Fill) /\ Within(q, b) /\ \A k \in DOMAIN q : \E i \in Q : q[k] = b[i]
  BY PickedCount
<1>2. DOMAIN q = 1 .. Len(q)
  BY <1>1, LenProperties
<1>3. ASSUME NEW k \in 1 .. Len(q)
      PROVE  q[k].oid # o
  <2>1. PICK i \in Q : q[k] = b[i]
    BY <1>1, <1>2
  <2> QED
    BY <2>1
<1> QED
  BY <1>1, <1>3

OtherAt(b, o, P, Q) == P = FillsOfOid(b, o) /\ Q = DOMAIN b \ P

LEMMA MovedOut ==
  ASSUME NEW b \in Seq(Fill), NEW o, NEW P, NEW Q, OtherAt(b, o, P, Q),
         NEW q, q = Picked(b, Q), NEW r, r = Picked(b, P)
  PROVE  Moved(b, q, r, o) /\ \A i \in 1 .. Len(q) : q[i].oid # o
<1>1. P \in SUBSET DOMAIN b /\ Q \in SUBSET DOMAIN b /\ \A i \in Q : b[i].oid # o
  BY DEF FillsOfOid, OtherAt
<1>2. r \in Seq(Fill) /\ \A i \in 1 .. Len(r) : r[i].oid = o
  BY AllOfOid DEF OtherAt
<1>3. q \in Seq(Fill) /\ Within(q, b) /\ \A i \in 1 .. Len(q) : q[i].oid # o
  BY <1>1, PickedOthers
<1>4. Within(r, b)
  BY <1>1, PickedCount
<1>5. ASSUME NEW oid
      PROVE  CountOf(q, "oid", oid) + CountOf(r, "oid", oid) = CountOf(b, "oid", oid)
  <2>n. PICK k \in Nat, m \in Nat : k = CountOf(q, "oid", oid) /\ m = CountOf(r, "oid", oid)
    BY <1>2, <1>3, Counted
  <2>1. m + k = CountOf(b, "oid", oid)
    <3>1. Q = DOMAIN b \ P
      BY DEF OtherAt
    <3> QED
      BY <1>1, <2>n, <3>1, PickedSplit
  <2> QED
    BY <2>1, <2>n
<1> QED
  BY <1>2, <1>3, <1>4, <1>5 DEF Moved

LEMMA MovedNone ==
  ASSUME NEW b \in Seq(Fill), NEW o, NEW none, none = <<>>
  PROVE  Moved(b, b, none, o)
<1>1. none \in Seq(Fill) /\ Len(none) = 0
  OBVIOUS
<1>2. Within(b, b) /\ Within(none, b) /\ \A i \in 1 .. Len(none) : none[i].oid = o
  BY <1>1 DEF Within
<1>3. ASSUME NEW oid
      PROVE  CountOf(b, "oid", oid) + CountOf(none, "oid", oid) = CountOf(b, "oid", oid)
  <2>1. CountOf(none, "oid", oid) = 0 /\ CountOf(b, "oid", oid) \in Nat
    BY NoneCount, Counted
  <2> QED
    BY <2>1
<1> QED
  BY <1>1, <1>2, <1>3 DEF Moved

LEMMA OpenHandled ==
  ASSUME IInv, NEW own, NEW s, NEW st, AllOrders(own, s, st, <<>>), Placed(s),
         1 \in 1 .. Len(st), IsOpen(st[1]), NEW st2 \in Seq(Events), Without(st, 1, st2),
         NEW t, t = OnOrderUpdate(s, st[1]), NEW g, NEW rp,
         IF LookupClientOrderId(t, st[1].cloid) # NoClient
         THEN g = TakeBuffered(t, st[1].oid)
                /\ rp = Picked(t.bufferedFills, FillsOfOid(t.bufferedFills, st[1].oid))
         ELSE g = t /\ rp = <<>>
  PROVE  AllOrders(own, g, st2, rp) /\ Minds(s, g)
<1>u. PICK u, o, x, z : u = st[1] /\ o = u.oid /\ x = u.cloid /\ z = u.origSz
  OBVIOUS
<1>1. Typed(s) /\ OidsOwned(s, own) /\ st \in Seq(Events) /\ AllOwned(own, st)
  BY DEF AllOrders, Owned
<1>2. Genuine(u, own)
  BY <1>1, <1>u, EventTypes DEF Genuine, AllOwned, IsOpen
<1>3. OpenedBy(own, s, t, x, o, z) /\ t.bufferedFills = s.bufferedFills /\ Minds(s, t)
  BY <1>1, <1>2, <1>u, OpenedMaps DEF IsOpen
<1>b. PICK b : b = s.bufferedFills /\ b \in Seq(Fill)
  BY <1>1 DEF Typed
<1>4. Typed(t) /\ t.cloidToClient = s.cloidToClient
  BY <1>3 DEF OpenedBy
<1>5. CASE LookupClientOrderId(t, x) # NoClient
  <2>p. PICK P, Q, q, r :
          /\ P = FillsOfOid(b, o) /\ Q = DOMAIN b \ P
          /\ q = Picked(b, Q) /\ r = Picked(b, P)
    OBVIOUS
  <2>0. b \in Seq(Fill)
    BY <1>b
  <2>1. Moved(b, q, r, o) /\ \A i \in 1 .. Len(q) : q[i].oid # o
    BY <2>0, <2>p, MovedOut DEF OtherAt
  <2>2. g = TakeBuffered(t, o) /\ rp = r
    BY <1>3, <1>5, <1>b, <1>u, <2>p
  <2>3. Takes(t, g, b, P)
    BY <1>3, <1>4, <1>b, <2>2, <2>p, Taken
  <2>4. Typed(g) /\ g.bufferedFills = q
    BY <2>3, <2>p DEF Takes
  <2>5. SameMaps(t, g)
    BY <1>4, <2>2 DEF SameMaps, TakeBuffered, Typed, Good, Fields
  <2>6. OpenedBy(own, s, g, x, o, z)
    BY <1>3, <2>4, <2>5, OpenedStill
  <2>7. OpenArrives(own, s, st, st2, g, rp)
    BY <1>b, <1>u, <2>1, <2>2, <2>4, <2>6 DEF OpenArrives
  <2>8. AllOrders(own, g, st2, rp)
    BY <1>u, <2>1, <2>4, <2>7, OpenOrders
  <2>9. Minds(s, g)
    BY <1>3, <2>5, MindsSame, MindsTrans DEF SameMaps
  <2> QED
    BY <2>8, <2>9
<1>6. CASE LookupClientOrderId(t, x) = NoClient
  <2>1. g = t /\ rp = <<>>
    BY <1>6, <1>u
  <2>2. x \notin DOMAIN s.cloidToClient
    <3>1. LookupClientOrderId(t, x) = LookupClientOrderId(s, x)
      BY <1>4 DEF LookupClientOrderId
    <3> QED
      BY <1>1, <1>6, <3>1, KnownPlaced
  <2>3. Moved(b, b, rp, o)
    BY <1>b, <2>1, MovedNone
  <2>4. OpenArrives(own, s, st, st2, g, rp)
    BY <1>3, <1>b, <1>u, <2>1, <2>3 DEF OpenArrives
  <2>5. AllOrders(own, g, st2, rp)
    BY <1>u, <2>2, <2>4, OpenOrders
  <2> QED
    BY <1>3, <2>1, <2>5
<1> QED
  BY <1>5, <1>6

-----------------------------------------------------------------------------
(* Another update arrives, as the first of the stream.                     *)
EndArrives(own, s, st, st2) ==
  /\ AllOrders(own, s, st, <<>>) /\ Placed(s)
  /\ 1 \in 1 .. Len(st) /\ IsEnd(st[1]) /\ st2 \in Seq(Events) /\ Without(st, 1, st2)

(* The client of an order that has not ended is known.                     *)
Knows(s) == \A c \in Entered : book[cloidOf[c]].state # "ended" => c \in DOMAIN s.clientToCloid

LEMMA EndOwned ==
  ASSUME NEW own, NEW s, NEW st, NEW st2, EndArrives(own, s, st, st2)
  PROVE  /\ Owned(own, s, st, <<>>) /\ Owned(own, s, st2, <<>>)
         /\ st[1].oid \in Nat /\ st[1].cloid \in Cloids /\ Owns(own, st[1].oid, st[1].cloid)
         /\ \A y : SameNews(y, st, st2)
         /\ \A oid : /\ CountOf(st2, "oid", oid) \in Nat
                     /\ CountOf(st2, "oid", oid) = CountOf(st, "oid", oid)
<1>1. Owned(own, s, st, <<>>) /\ st \in Seq(Events) /\ 1 \in 1 .. Len(st)
  BY DEF EndArrives, AllOrders, Owned
<1>2. /\ Owned(own, s, st2, <<>>)
      /\ \A oid : /\ CountOf(st2, "oid", oid) \in Nat
                  /\ CountOf(st, "oid", oid) = CountOf(st2, "oid", oid) + OneOf(st[1], "oid", oid)
  BY <1>1, DropOwned DEF EndArrives
<1>3. \A oid : OneOf(st[1], "oid", oid) = 0
  BY DEF EndArrives, IsEnd, OneOf, IsCounted
<1>4. \A y : SameNews(y, st, st2)
  BY <1>1, DropLeaves DEF EndArrives, IsEnd, IsOpen
<1>5. st[1].oid \in Nat /\ st[1].cloid \in Cloids /\ Owns(own, st[1].oid, st[1].cloid)
  BY <1>1, EventTypes DEF Owned, AllOwned
<1> QED
  BY <1>1, <1>2, <1>3, <1>4, <1>5

LEMMA EndElsewhere ==
  ASSUME IInv, NEW own, NEW s, NEW st, NEW st2, EndArrives(own, s, st, st2),
         NEW g, Owned(own, g, st2, <<>>), g.bufferedFills = s.bufferedFills,
         NEW y \in Cloids, SameEntries(y, s, g)
  PROVE  Order(y, book[y], g, st2, <<>>)
<1>n. PICK none : none = <<>>
  OBVIOUS
<1>b. PICK b : b = book[y] /\ b.done \in Nat
  BY EntryTypes
<1>1. /\ Owned(own, s, st, none) /\ Owned(own, g, st2, none) /\ SameNews(y, st, st2)
      /\ Order(y, b, s, st, none)
  BY <1>b, <1>n, EndOwned DEF EndArrives, AllOrders, Orders
<1>2. SomeOf(y, g.bufferedFills, s.bufferedFills) /\ SomeOf(y, none, none)
  BY DEF SomeOf
<1>3. \A oid : /\ CountOf(st2, "oid", oid) <= CountOf(st, "oid", oid)
               /\ CountOf(none, "oid", oid) <= CountOf(none, "oid", oid)
  <2>1. \A oid : CountOf(none, "oid", oid) = 0
    BY <1>n, NoneCount
  <2>2. \A oid : CountOf(st2, "oid", oid) \in Nat /\ CountOf(st2, "oid", oid) = CountOf(st, "oid", oid)
    BY EndOwned
  <2> QED
    BY <2>1, <2>2
<1>4. NoMoreUnder(own, y, st, s.bufferedFills, st2, g.bufferedFills)
  <2>1. ASSUME NEW oid
        PROVE  Under(st2, g.bufferedFills, oid) <= Under(st, s.bufferedFills, oid)
    <3>1. Under(st, s.bufferedFills, oid) \in Nat
      BY <1>1, UnderTypes
    <3>2. CountOf(st2, "oid", oid) = CountOf(st, "oid", oid)
      BY EndOwned
    <3>3. Under(st2, g.bufferedFills, oid) = Under(st, s.bufferedFills, oid)
      BY <3>2 DEF Under
    <3> QED
      BY <3>1, <3>3
  <2> QED
    BY <2>1 DEF NoMoreUnder
<1>5. Order(y, b, g, st2, none)
  BY <1>1, <1>2, <1>3, <1>4, <1>b, Apart
<1> QED
  BY <1>5, <1>b, <1>n

(* The order is forgotten ...                                              *)
LEMMA EndForgets ==
  ASSUME IInv, NEW own, NEW s, NEW st, NEW st2, EndArrives(own, s, st, st2),
         NEW g, Typed(g), OidsOwned(g, own), g.bufferedFills = s.bufferedFills,
         NEW x, x \notin DOMAIN g.cloidToOid, x \notin DOMAIN g.cloidToClient,
         \A y : y # x => SameEntries(y, s, g)
  PROVE  AllOrders(own, g, st2, <<>>)
<1>1. Owned(own, g, st2, <<>>)
  BY EndOwned DEF Owned
<1>2. ASSUME NEW y \in Cloids, y = x
      PROVE  Order(y, book[y], g, st2, <<>>)
  <2>n. PICK none : none = <<>>
    OBVIOUS
  <2>b. PICK b, buffer : b = book[y] /\ b.done \in Nat /\ buffer = s.bufferedFills
    BY EntryTypes
  <2>1. /\ Owned(own, s, st, none) /\ Owned(own, s, st2, none) /\ Fewer(y, st, st2)
    BY <2>n, EndOwned DEF SameNews
  <2>2. Announced(y, b, st, buffer, none)
    BY <2>b, <2>n DEF EndArrives, AllOrders, Orders, Order
  <2>3. NoMoreUnder(own, y, st, buffer, st2, buffer)
    <3>1. ASSUME NEW oid
          PROVE  Under(st2, buffer, oid) <= Under(st, buffer, oid)
      <4>1. Under(st, buffer, oid) \in Nat
        BY <2>1, <2>b, UnderTypes
      <4>2. CountOf(st2, "oid", oid) = CountOf(st, "oid", oid)
        BY EndOwned
      <4>3. Under(st2, buffer, oid) = Under(st, buffer, oid)
        BY <4>2 DEF Under
      <4> QED
        BY <4>1, <4>3
    <3> QED
      BY <3>1 DEF NoMoreUnder
  <2>4. HandedOut(y, b, buffer) /\ HandedOut(y, b, none)
    BY <2>2 DEF Announced
  <2>5. Announced(y, b, st2, buffer, none)
    BY <2>1, <2>2, <2>3, <2>4, <2>b, AnnouncedStill
  <2>6. Order(y, b, g, st2, none)
    BY <1>2, <2>5, <2>b, Forgotten
  <2> QED
    BY <2>6, <2>b, <2>n
<1>3. \A y \in Cloids : Order(y, book[y], g, st2, <<>>)
  BY <1>1, <1>2, EndElsewhere
<1> QED
  BY <1>1, <1>3 DEF AllOrders, Orders

(* ... or its oid is only entered.                                         *)
LEMMA EndRegisters ==
  ASSUME IInv, NEW own, NEW s, NEW st, NEW st2, EndArrives(own, s, st, st2),
         NEW o, NEW x, o = st[1].oid, x = st[1].cloid, NEW t, t = RegisterOid(s, o, x),
         x \in DOMAIN s.cloidToClient => x \in DOMAIN s.cloidToOid /\ o <= s.cloidToOid[x]
  PROVE  AllOrders(own, t, st2, <<>>)
<1>1. /\ Owned(own, s, st, <<>>) /\ Typed(s) /\ OidsOwned(s, own) /\ o \in Nat /\ x \in Cloids
      /\ Owns(own, o, x) /\ Owned(own, s, st2, <<>>)
  BY EndOwned DEF Owned
<1>2. /\ Typed(t) /\ OidsOwned(t, own) /\ t.bufferedFills = s.bufferedFills
      /\ t.cloidToClient = s.cloidToClient /\ t.cloidToOid = s.cloidToOid
      /\ \A y, oid : Owns(t.oidToCloid, oid, y) <=>
           Owns(s.oidToCloid, oid, y) \/ (oid = o /\ y = x)
  <2>1. Registers(own, s, t, o, x)
    BY <1>1, RegisteredIds
  <2> QED
    BY <2>1 DEF Registers
<1>3. /\ \A y : y # x => SameEntries(y, s, t)
      /\ SameActive(x, s, t) /\ SameQuantities(s, t, x)
  BY <1>1, RegisterEntries
<1>4. Owned(own, t, st2, <<>>)
  BY <1>1, <1>2 DEF Owned
<1>n. PICK none : none = <<>>
  OBVIOUS
<1>b. PICK b : b = book[x] /\ b.done \in Nat
  BY <1>1, EntryTypes
<1>5. /\ Owned(own, s, st, none) /\ Owned(own, t, st2, none)
      /\ Order(x, b, s, st, none) /\ SameNews(x, st, st2)
  BY <1>1, <1>4, <1>b, <1>n, EndOwned DEF EndArrives, AllOrders, Orders
<1>6. NoMoreUnder(own, x, st, s.bufferedFills, st2, t.bufferedFills)
  <2>1. ASSUME NEW oid
        PROVE  Under(st2, t.bufferedFills, oid) <= Under(st, s.bufferedFills, oid)
    <3>1. Under(st, s.bufferedFills, oid) \in Nat
      BY <1>5, UnderTypes
    <3>2. CountOf(st2, "oid", oid) = CountOf(st, "oid", oid)
      BY EndOwned
    <3>3. Under(st2, t.bufferedFills, oid) = Under(st, s.bufferedFills, oid)
      BY <1>2, <3>2 DEF Under
    <3> QED
      BY <3>1, <3>3
  <2> QED
    BY <2>1 DEF NoMoreUnder
<1>7. CountsNoMore(x, s, st, none, t, st2, none)
  <2>1. ASSUME NEW oid, IsCurrent(s, x, oid)
        PROVE  Tally(t, st2, none, x, oid) <= Tally(s, st, none, x, oid)
    <3>1. Tally(s, st, none, x, oid) \in Nat
      BY <1>5, <2>1, TallyTypes
    <3>2. CountOf(st2, "oid", oid) = CountOf(st, "oid", oid)
      BY EndOwned
    <3>3. Tally(t, st2, none, x, oid) = Tally(s, st, none, x, oid)
      BY <1>3, <3>2 DEF Tally, SameQuantities
    <3> QED
      BY <3>1, <3>3
  <2> QED
    BY <1>3, <2>1 DEF CountsNoMore, SameQuantities
<1>8. HandedOut(x, b, t.bufferedFills) /\ SomeOf(x, none, none)
  BY <1>2, <1>5 DEF Order, Announced, SomeOf
<1>9. ASSUME x \in DOMAIN t.cloidToClient
      PROVE  Registered(x, t) /\ BufferLed(x, st2, t.bufferedFills)
  <2>1. Followed(x, b, s, st, none)
    BY <1>2, <1>5, <1>9 DEF Order
  <2>2. x \in DOMAIN s.cloidToOid /\ o <= s.cloidToOid[x]
    BY <1>2, <1>9
  <2>3. Registered(x, t)
    <3>1. Registered(x, s)
      BY <2>1 DEF Followed
    <3>2. ASSUME NEW oid, Owns(t.oidToCloid, oid, x)
          PROVE  x \in DOMAIN t.cloidToOid /\ oid <= t.cloidToOid[x]
      <4>1. Owns(s.oidToCloid, oid, x) \/ oid = o
        BY <1>2, <3>2
      <4>2. x \in DOMAIN s.cloidToOid /\ oid <= s.cloidToOid[x]
        BY <2>2, <3>1, <4>1 DEF Registered, Owns
      <4> QED
        BY <1>2, <4>2
    <3> QED
      BY <3>2 DEF Registered, Owns
  <2>4. \A oid : Opened(st, x, oid) => Opened(st2, x, oid)
    BY <1>5 DEF Opened, SameNews
  <2>5. BufferLed(x, st2, t.bufferedFills)
    BY <1>2, <2>1, <2>4 DEF Followed, BufferLed
  <2> QED
    BY <2>3, <2>5
<1>10. Order(x, b, t, st2, none)
  BY <1>3, <1>5, <1>6, <1>7, <1>8, <1>9, <1>b, Carried
<1>11. ASSUME NEW y \in Cloids
       PROVE  Order(y, book[y], t, st2, <<>>)
  <2>1. CASE y = x
    BY <1>10, <1>b, <1>n, <2>1
  <2>2. CASE y # x
    BY <1>2, <1>3, <1>4, <2>2, EndElsewhere
  <2> QED
    BY <2>1, <2>2
<1> QED
  BY <1>4, <1>11 DEF AllOrders, Orders

(* It ends an order of the client's that has ended at the exchange.        *)
LEMMA EndOver ==
  ASSUME IInv, NEW own, NEW s, NEW st, NEW st2, EndArrives(own, s, st, st2), Knows(s),
         NEW o, NEW x, o = st[1].oid, x = st[1].cloid, x \in DOMAIN s.cloidToOid => s.cloidToOid[x] = o
  PROVE  Over(x)
<1>1. /\ Typed(s) /\ Placed(s) /\ o \in Nat /\ x \in Cloids
  BY EndOwned DEF Owned, EndArrives
<1>n. PICK none : none = <<>>
  OBVIOUS
<1>b. PICK b : b = book[x] /\ b.oid \in Nat
  BY <1>1, EntryTypes
<1>2. Order(x, b, s, st, none)
  BY <1>1, <1>b, <1>n DEF EndArrives, AllOrders, Orders
<1>3. 1 \in 1 .. Len(st) /\ IsEnd(st[1])
  BY DEF EndArrives
<1>4. b.oid <= o => b.state = "ended"
  BY <1>2, <1>3 DEF Order, Announced, EndsDated
<1>5. SUFFICES ASSUME NEW c \in Entered, cloidOf[c] = x, b.state # "ended"
               PROVE  FALSE
  BY <1>b DEF Over
<1>6. x \in DOMAIN s.cloidToClient
  <2>1. c \in DOMAIN s.clientToCloid /\ s.clientToCloid[c] = x
    BY <1>1, <1>5, <1>b DEF Knows, Placed
  <2> QED
    BY <1>1, <2>1 DEF Typed, Good, Paired
<1>7. EndsLed(x, b, s, st)
  BY <1>2, <1>6 DEF Order, Followed
<1>8. \/ b.oid = 0
      \/ \E oid \in Nat : IsCurrent(s, x, oid) /\ Passed(st[1], oid, b)
  <2>1. 1 .. 1 - 1 = {}
    OBVIOUS
  <2> QED
    BY <1>3, <1>7, <2>1 DEF EndsLed
<1>9. b.oid <= o
  <2>1. CASE b.oid = 0
    BY <1>1, <2>1
  <2>2. ASSUME NEW oid \in Nat, IsCurrent(s, x, oid), Passed(st[1], oid, b)
        PROVE  b.oid <= o
    <3>1. oid = o
      BY <2>2 DEF IsCurrent
    <3>2. o < oid \/ oid = b.oid
      BY <2>2 DEF Passed
    <3> QED
      BY <1>1, <3>1, <3>2
  <2> QED
    BY <1>8, <2>1, <2>2
<1> QED
  BY <1>4, <1>5, <1>9

LEMMA SameEntriesTrans ==
  ASSUME NEW s, NEW t, NEW u, NEW y, SameEntries(y, s, t), SameEntries(y, t, u)
  PROVE  SameEntries(y, s, u)
BY DEF SameEntries

(* Whatever is reported first, the order is removed.                       *)
LEMMA EndRemoves ==
  ASSUME IInv, NEW own, NEW s, NEW st, NEW st2, EndArrives(own, s, st, st2),
         NEW o, NEW x, o = st[1].oid, x = st[1].cloid, Over(x), NEW t, t = RegisterOid(s, o, x),
         NEW client, client = LookupClientOrderId(t, x), NEW r,
         r = t \/ \E report \in {"CANCELLED", "REJECTED"} : r = Report(t, client, report),
         NEW g, g = RemoveOrder(r, x)
  PROVE  AllOrders(own, g, st2, <<>>) /\ Minds(s, g)
<1>1. /\ Typed(s) /\ OidsOwned(s, own) /\ Placed(s) /\ o \in Nat /\ x \in Cloids
      /\ Owns(own, o, x)
  BY EndOwned DEF Owned, EndArrives
<1>2. /\ Typed(t) /\ OidsOwned(t, own) /\ t.bufferedFills = s.bufferedFills /\ t.told = s.told
      /\ t.clientToCloid = s.clientToCloid /\ t.cloidToClient = s.cloidToClient
      /\ t.cloidToAsset = s.cloidToAsset
  <2>1. Registers(own, s, t, o, x)
    BY <1>1, RegisteredIds
  <2> QED
    BY <2>1 DEF Registers
<1>3. \A y : y # x => SameEntries(y, s, t)
  BY <1>1, RegisterEntries
<1>4. Placed(t) /\ Minds(s, t)
  BY <1>1, <1>2, MindsSame DEF Placed
<1>5. client \in Clients \cup {NoClient}
  BY <1>2, ClientTyped
<1>6. client \in Entered => book[cloidOf[client]].state = "ended"
  <2>1. SUFFICES ASSUME client \in Entered
                 PROVE  book[cloidOf[client]].state = "ended"
    OBVIOUS
  <2>2. client # NoClient
    BY <2>1, ClientsAssumption DEF Entered
  <2>3. x \in DOMAIN t.cloidToClient
    BY <2>2 DEF LookupClientOrderId
  <2>4. cloidOf[client] = x
    BY <1>2, <1>4, <2>3, KnownPlaced
  <2> QED
    BY <2>1, <2>4 DEF Over
<1>7. Typed(r) /\ SameIds(t, r) /\ (\A y : SameQuantities(t, r, y)) /\ Minds(t, r)
  <2>1. CASE r = t
    BY <1>2, <2>1, MindsSame DEF SameIds, SameQuantities
  <2>2. ASSUME NEW report \in {"CANCELLED", "REJECTED"}, r = Report(t, client, report)
        PROVE  Typed(r) /\ SameIds(t, r) /\ (\A y : SameQuantities(t, r, y)) /\ Minds(t, r)
    <3>1. report \in ReportKinds /\ report # "FILLED"
      BY <2>2 DEF ReportKinds
    <3>2. Typed(r) /\ SameIds(t, r) /\ \A y : SameQuantities(t, r, y)
      BY <1>2, <1>5, <2>2, <3>1, ReportIds
    <3>3. Minds(t, r)
      BY <1>2, <1>5, <1>6, <2>2, <3>1, ReportMinds
    <3> QED
      BY <3>2, <3>3
  <2> QED
    BY <2>1, <2>2
<1>8. Placed(r) /\ Minds(s, r)
  BY <1>4, <1>7, PlacedIds, MindsTrans
<1>9. \A y : y # x => SameEntries(y, s, r)
  BY <1>3, <1>7, IdsEntries, SameEntriesTrans
<1>10. /\ Typed(g) /\ g.bufferedFills = r.bufferedFills
       /\ x \notin DOMAIN g.cloidToClient /\ x \notin DOMAIN g.cloidToOid
       /\ \A y : y # x => SameEntries(y, r, g)
  BY <1>7, RemoveIds
<1>11. Minds(s, g)
  BY <1>7, <1>8, RemoveMinds, MindsTrans
<1>12. \A y : y # x => SameEntries(y, s, g)
  BY <1>9, <1>10, SameEntriesTrans
<1>13. OidsOwned(g, own)
  <2>1. OidsOwned(r, own)
    BY <1>2, <1>7 DEF SameIds, OidsOwned
  <2>2. Spares(r, g, own)
    BY <1>7, RemoveSpares DEF RemoveOrder
  <2> QED
    BY <2>1, <2>2 DEF Spares
<1>14. AllOrders(own, g, st2, <<>>)
  BY <1>2, <1>7, <1>10, <1>12, <1>13, EndForgets DEF SameIds
<1> QED
  BY <1>11, <1>14

LEMMA EndHandled ==
  ASSUME IInv, NEW own, NEW s, NEW st, NEW st2, EndArrives(own, s, st, st2), Knows(s),
         NEW g, g = OnOrderUpdate(s, st[1])
  PROVE  AllOrders(own, g, st2, <<>>) /\ Minds(s, g)
<1>u. PICK u, o, x : u = st[1] /\ o = u.oid /\ x = u.cloid
  OBVIOUS
<1>t. PICK t : t = RegisterOid(s, o, x)
  OBVIOUS
<1>1. /\ Typed(s) /\ OidsOwned(s, own) /\ Placed(s) /\ o \in Nat /\ x \in Cloids
      /\ Owns(own, o, x)
  BY <1>u, EndOwned DEF Owned, EndArrives
<1>2. /\ Typed(t) /\ t.told = s.told /\ t.clientToCloid = s.clientToCloid
      /\ t.cloidToAsset = s.cloidToAsset /\ t.cloidToOid = s.cloidToOid
      /\ t.cloidToClient = s.cloidToClient
  <2>1. Registers(own, s, t, o, x)
    BY <1>1, <1>t, RegisteredIds
  <2> QED
    BY <2>1 DEF Registers
<1>3. Minds(s, t)
  BY <1>2, MindsSame
<1>4. u.status # "Open"
  BY <1>u DEF EndArrives, IsEnd
<1>5. CASE ~IsActiveOid(t, o, x)
  <2>1. g = t
    BY <1>4, <1>5, <1>t, <1>u DEF OnOrderUpdate
  <2>2. x \in DOMAIN s.cloidToOid /\ s.cloidToOid[x] # o
    BY <1>2, <1>5 DEF IsActiveOid
  <2>3. ASSUME x \in DOMAIN s.cloidToClient
        PROVE  o <= s.cloidToOid[x]
    <3>n. PICK none, b, a : none = <<>> /\ b = book[x] /\ b.oid \in Nat /\ a = s.cloidToOid[x]
      BY <1>1, EntryTypes
    <3>1. Order(x, b, s, st, none) /\ 1 \in 1 .. Len(st) /\ IsEnd(st[1])
      BY <1>1, <3>n DEF EndArrives, AllOrders, Orders
    <3>2. EndsLed(x, b, s, st) /\ ActiveFits(x, b, s, st)
      BY <2>3, <3>1 DEF Order, Followed
    <3>3. a \in Nat /\ 0 < a /\ a <= b.oid
      BY <1>1, <2>2, <3>2, <3>n DEF ActiveFits, Typed, IsMap
    <3>4. 1 .. 1 - 1 = {}
      OBVIOUS
    <3>5. \/ b.oid = 0
          \/ \E oid \in Nat : IsCurrent(s, x, oid) /\ Passed(u, oid, b)
      BY <1>u, <3>1, <3>2, <3>4 DEF EndsLed
    <3>6. PICK oid \in Nat : IsCurrent(s, x, oid) /\ Passed(u, oid, b)
      BY <3>3, <3>5, <3>n
    <3> QED
      BY <1>1, <1>u, <3>6 DEF IsCurrent, Passed
  <2>4. AllOrders(own, t, st2, <<>>)
    BY <1>t, <1>u, <2>2, <2>3, EndRegisters
  <2> QED
    BY <1>3, <2>1, <2>4
<1>6. CASE IsActiveOid(t, o, x)
  <2>1. x \in DOMAIN s.cloidToOid => s.cloidToOid[x] = o
    BY <1>2, <1>6 DEF IsActiveOid
  <2>2. Over(x)
    BY <1>u, <2>1, EndOver
  <2>c. PICK client : client = LookupClientOrderId(t, x)
    OBVIOUS
  <2>3. g = OnFilled(t, u) \/ g = OnEnded(t, u)
    BY <1>4, <1>6, <1>t, <1>u DEF OnOrderUpdate
  <2>4. \/ \E r : /\ r = t \/ \E report \in {"CANCELLED", "REJECTED"} : r = Report(t, client, report)
                  /\ g = RemoveOrder(r, x)
        \/ g = t /\ client = NoClient
    <3>1. CASE g = OnFilled(t, u)
      BY <1>u, <2>c, <3>1 DEF OnFilled, ReportKnown
    <3>2. CASE g = OnEnded(t, u)
      BY <1>u, <2>c, <3>2 DEF OnEnded
    <3> QED
      BY <2>3, <3>1, <3>2
  <2>5. ASSUME NEW r, g = RemoveOrder(r, x),
               r = t \/ \E report \in {"CANCELLED", "REJECTED"} : r = Report(t, client, report)
        PROVE  AllOrders(own, g, st2, <<>>) /\ Minds(s, g)
    BY <1>t, <1>u, <2>2, <2>5, <2>c, EndRemoves
  <2>6. CASE g = t /\ client = NoClient
    <3>1. x \notin DOMAIN s.cloidToClient
      <4>1. LookupClientOrderId(s, x) = NoClient
        BY <1>2, <2>6, <2>c DEF LookupClientOrderId
      <4> QED
        BY <1>1, <4>1, KnownPlaced
    <3>2. AllOrders(own, t, st2, <<>>)
      BY <1>t, <1>u, <3>1, EndRegisters
    <3> QED
      BY <1>3, <2>6, <3>2
  <2> QED
    BY <2>4, <2>5, <2>6
<1> QED
  BY <1>5, <1>6

(* The client of an order that has not ended was not told of an end, and   *)
(* the maps still have its order.                                          *)
HeldIn(s) ==
  \A c \in Entered : book[cloidOf[c]].state # "ended" =>
    /\ s.told[c].ends = 0 /\ c \in DOMAIN s.clientToCloid /\ cloidOf[c] \in s.cloidToAsset

LEMMA UpdateOrders ==
  ASSUME IInv, FillInv, OrderInv, ~Timeouts, FillsFirst, HeldIn(gw),
         NEW i \in 1 .. Len(stream), OrderUpdateArrives(i)
  PROVE  GatewayOrders
<1>o. PICK own : OwnedBy(own)
  BY DEF FillInv
<1>1. /\ stream' = RemoveAt(stream, i) /\ stream[i].type = "update" /\ replaying = <<>>
      /\ nextOid' = nextOid
  BY DEF OrderUpdateArrives
<1>2. i = 1
  BY <1>1 DEF OrderUpdateArrives, Deliverable, FirstOf
<1>u. PICK u : u = stream[1]
  OBVIOUS
<1>3. PICK s, t :
        /\ s \in AfterCheckTimeouts /\ t = OnOrderUpdate(s, u)
        /\ IF u.status = "Open" /\ LookupClientOrderId(t, u.cloid) # NoClient
           THEN /\ gw' = TakeBuffered(t, u.oid)
                /\ replaying' = Picked(t.bufferedFills, FillsOfOid(t.bufferedFills, u.oid))
           ELSE gw' = t /\ replaying' = <<>>
  BY <1>2, <1>u DEF OrderUpdateArrives
<1>s. PICK st, st2, g, rp : st = stream /\ st2 = stream' /\ g = gw' /\ rp = replaying'
  OBVIOUS
<1>4. AllOrders(own, s, st, <<>>) /\ Minds(gw, s) /\ Placed(s)
  BY <1>1, <1>3, <1>o, <1>s, CheckedOrders
<1>5. st \in Seq(Events) /\ 1 \in 1 .. Len(st) /\ u = st[1]
  BY <1>2, <1>s, <1>u, StreamTypes
<1>6. st2 \in Seq(Events) /\ Without(st, 1, st2)
  BY <1>1, <1>2, <1>5, <1>s, RemoveAtWithout
<1>7. Knows(s)
  BY <1>4 DEF Knows, HeldIn, Minds
<1>8. AllOrders(own, g, st2, rp) /\ Minds(s, g)
  <2>1. CASE u.status = "Open"
    <3>1. IsOpen(st[1])
      BY <1>1, <1>2, <1>5, <1>u, <2>1 DEF IsOpen
    <3>2. IF LookupClientOrderId(t, st[1].cloid) # NoClient
          THEN g = TakeBuffered(t, st[1].oid)
                 /\ rp = Picked(t.bufferedFills, FillsOfOid(t.bufferedFills, st[1].oid))
          ELSE g = t /\ rp = <<>>
      BY <1>3, <1>5, <1>s, <2>1
    <3> QED
      BY <1>3, <1>4, <1>5, <1>6, <3>1, <3>2, OpenHandled
  <2>2. CASE u.status # "Open"
    <3>1. IsEnd(st[1])
      BY <1>1, <1>2, <1>5, <1>u, <2>2 DEF IsEnd
    <3>2. EndArrives(own, s, st, st2)
      BY <1>4, <1>5, <1>6, <3>1 DEF EndArrives
    <3>3. g = OnOrderUpdate(s, st[1]) /\ rp = <<>>
      BY <1>3, <1>5, <1>s, <2>2
    <3> QED
      BY <1>7, <3>2, <3>3, EndHandled
  <2> QED
    BY <2>1, <2>2
<1>9. Minds(gw, g)
  BY <1>4, <1>8, MindsTrans
<1> QED
  BY <1>8, <1>9, <1>s DEF GatewayOrders

-----------------------------------------------------------------------------
(* Responses, and the main thread's reports.                               *)
LEMMA RejectedOrders ==
  ASSUME IInv, NEW own, NEW s, NEW st, NEW rp, AllOrders(own, s, st, rp), Placed(s),
         NEW x, book[x].state = "ended", NEW t, t = SendNewOrderReject(s, x)
  PROVE  AllOrders(own, t, st, rp) /\ Minds(s, t)
<1>c. PICK client : client = LookupClientOrderId(s, x)
  OBVIOUS
<1>r. PICK r : r = Report(s, client, "REJECTED")
  OBVIOUS
<1>1. Typed(s) /\ "REJECTED" \in ReportKinds
  BY DEF AllOrders, Owned, ReportKinds
<1>2. client \in Clients \cup {NoClient}
  BY <1>1, <1>c, ClientTyped
<1>3. client \in Entered => book[cloidOf[client]].state = "ended"
  <2>1. CASE client = NoClient
    BY <2>1, ClientsAssumption DEF Entered
  <2>2. CASE client # NoClient
    <3>1. x \in DOMAIN s.cloidToClient
      BY <1>c, <2>2 DEF LookupClientOrderId
    <3>2. cloidOf[client] = x
      BY <1>1, <1>c, <3>1, KnownPlaced
    <3> QED
      BY <3>2
  <2> QED
    BY <2>1, <2>2
<1>4. Typed(r) /\ SameIds(s, r) /\ \A y : SameQuantities(s, r, y)
  BY <1>1, <1>2, <1>r, ReportIds
<1>5. Minds(s, r)
  BY <1>1, <1>2, <1>3, <1>r, ReportMinds
<1>6. AllOrders(own, r, st, rp) /\ Placed(r)
  BY <1>4, UnmovedOrders, PlacedIds
<1>7. t = RemoveOrder(r, x)
  BY <1>c, <1>r DEF SendNewOrderReject
<1>8. Over(x)
  BY DEF Over
<1>9. AllOrders(own, t, st, rp) /\ Minds(r, t)
  BY <1>4, <1>6, <1>7, <1>8, RemovedOrders, RemoveMinds
<1> QED
  BY <1>5, <1>9, MindsTrans

(* A report that ends nothing, or reaches a client whose order was never   *)
(* entered, or reaches nobody.                                             *)
LEMMA ToldOrders ==
  ASSUME IInv, NEW own, NEW st, NEW rp, AllOrders(own, gw, st, rp),
         NEW client \in Clients \cup {NoClient}, NEW report \in ReportKinds, report # "FILLED",
         report \in Endings => client \notin Entered,
         NEW t, t = gw \/ t = Report(gw, client, report)
  PROVE  AllOrders(own, t, st, rp) /\ Minds(gw, t)
<1>1. Typed(gw)
  BY DEF AllOrders, Owned
<1>2. CASE t = gw
  BY <1>2, MindsSame
<1>3. CASE t = Report(gw, client, report)
  <2>1. Typed(t) /\ SameIds(gw, t) /\ \A y : SameQuantities(gw, t, y)
    BY <1>1, <1>3, ReportIds
  <2>2. Minds(gw, t)
    BY <1>1, <1>3, ReportMinds
  <2> QED
    BY <2>1, <2>2, UnmovedOrders
<1> QED
  BY <1>2, <1>3

(* A response that is no success finds the place it answers ended.         *)
PlaceAnswered ==
  \A r \in responses, p \in pending :
    r.kind = "place" /\ p.kind = "place" /\ p.corr = r.corr /\ r.result # "ok" =>
      book[p.cloid].state = "ended"

LEMMA AnsweredEnded ==
  ASSUME IInv, PlaceAnswered, NEW r \in responses, r.kind = "place", r.result # "ok",
         NEW x, x = PendingCloid(r), x # NoCloid
  PROVE  book[x].state = "ended"
<1>1. PendingOf(r) # {}
  BY DEF PendingCloid
<1>p. PICK p \in PendingOf(r) : x = p.cloid
  <2>1. (CHOOSE p \in PendingOf(r) : TRUE) \in PendingOf(r)
    BY <1>1
  <2> QED
    BY <1>1, <2>1 DEF PendingCloid
<1>2. p \in pending /\ p.kind = "place" /\ p.corr = r.corr
  BY DEF PendingOf
<1> QED
  BY <1>p, <1>2 DEF PlaceAnswered

LEMMA ResponseOrders ==
  ASSUME IInv, FillInv, OrderInv, PlaceAnswered, NEW r \in responses, ResponseArrives(r)
  PROVE  GatewayOrders
<1>o. PICK own : OwnedBy(own)
  BY DEF FillInv
<1>x. PICK x, result : x = PendingCloid(r) /\ result = r.result
  OBVIOUS
<1>s. PICK st, rp, t : st = stream /\ rp = replaying /\ t = gw'
  OBVIOUS
<1>1. stream' = st /\ replaying' = rp /\ nextOid' = nextOid
  BY <1>s DEF ResponseArrives
<1>2. AllOrders(own, gw, st, rp) /\ Placed(gw) /\ Typed(gw)
  <2>1. AllOrders(own, gw, st, rp)
    BY <1>1, <1>o, <1>s, OrdersNow
  <2> QED
    BY <2>1, GatewayPlaced DEF AllOrders, Owned
<1>c. PICK client : client = LookupClientOrderId(gw, x)
  OBVIOUS
<1>3. client \in Clients \cup {NoClient}
  BY <1>2, <1>c, ClientTyped
<1>4. CASE r.kind = "place"
  <2>1. t = OnPlaceOrder(gw, result, x)
    BY <1>4, <1>s, <1>x DEF ResponseArrives
  <2>2. CASE t = gw
    BY <1>2, <2>2, MindsSame, <1>1, <1>s DEF GatewayOrders
  <2>3. CASE t # gw
    <3>1. /\ result # "ok" /\ t = SendNewOrderReject(gw, x)
          /\ x # NoCloid \/ client # NoClient
      BY <1>c, <2>1, <2>3 DEF OnPlaceOrder
    <3>2. x # NoCloid
      <4>1. NoCloid \notin DOMAIN gw.cloidToClient
        <5>1. NoCloid \notin Cloids
          BY ExchangeAssumption DEF NoCloid
        <5> QED
          BY <1>2, <5>1 DEF Typed, IsMap
      <4> QED
        BY <1>c, <3>1, <4>1 DEF LookupClientOrderId
    <3>3. book[x].state = "ended"
      BY <1>4, <1>x, <3>1, <3>2, AnsweredEnded
    <3>4. AllOrders(own, t, st, rp) /\ Minds(gw, t)
      BY <1>2, <3>1, <3>3, RejectedOrders
    <3> QED
      BY <1>1, <1>s, <3>4 DEF GatewayOrders
  <2> QED
    BY <2>2, <2>3
<1>5. CASE r.kind # "place"
  <2>1. PICK report \in {"AmendReject", "CancelReject"} : t = gw \/ t = Report(gw, client, report)
    BY <1>5, <1>c, <1>s, <1>x
       DEF ResponseArrives, OnModifyOrder, OnCancelOrder, SendAmendReject, SendCancelReject,
           ReportKnown
  <2>2. report \in ReportKinds /\ report # "FILLED" /\ report \notin Endings
    BY DEF ReportKinds, Endings
  <2>3. AllOrders(own, t, st, rp) /\ Minds(gw, t)
    BY <1>2, <1>3, <2>1, <2>2, ToldOrders
  <2> QED
    BY <1>1, <1>s, <2>3 DEF GatewayOrders
<1> QED
  BY <1>4, <1>5

(* While the main thread is in a handler, the connection is up.            *)
Posted == main.at # "idle" => connected = TRUE

LEMMA MainStepOrders ==
  ASSUME IInv, FillInv, Linked, OrderInv, Posted, MainStep
  PROVE  GatewayOrders
<1>o. PICK own : OwnedBy(own)
  BY DEF FillInv
<1>s. PICK st, rp, t : st = stream /\ rp = replaying /\ t = gw'
  OBVIOUS
<1>1. stream' = st /\ replaying' = rp /\ nextOid' = nextOid
  BY <1>s DEF MainStep, PlaceOrder, PlaceOrderThrows, ModifyOrder, CancelOrderByCloid,
              CancelOrderFails,
              HandlerDone, WebsocketUnchanged
<1>2. AllOrders(own, gw, st, rp) /\ Typed(gw)
  <2>1. AllOrders(own, gw, st, rp)
    BY <1>1, <1>o, <1>s, OrdersNow
  <2> QED
    BY <2>1 DEF AllOrders, Owned
<1>3. /\ main.client \in Clients \cup {NoClient} /\ main.cloid \in AnyCloid
      /\ main.qty \in Nat /\ main.ioc \in BOOLEAN
  <2>1. main.client \in Clients \cup {NoClient} /\ main.cloid \in AnyCloid
        /\ main.qty \in Quantities \cup {0} /\ main.ioc \in BOOLEAN
    BY DEF IInv, TypesOK, Handlers
  <2>2. Quantities \cup {0} \subseteq Nat
    BY ExchangeAssumption
  <2> QED
    BY <2>1, <2>2
<1>4. ~PlaceOrderThrows
  BY DEF PlaceOrderThrows, Posted, Linked
<1>5. CASE t = EnterAmend(gw, main.cloid, main.qty, main.ioc)
  <2>1. Typed(t) /\ SameIds(gw, t) /\ t.told = gw.told /\ \A y : SameQuantities(gw, t, y)
    BY <1>2, <1>3, <1>5, AmendIds
  <2>2. AllOrders(own, t, st, rp)
    BY <1>2, <2>1, UnmovedOrders
  <2>3. Minds(gw, t)
    BY <2>1, MindsSame DEF SameIds
  <2> QED
    BY <1>1, <1>s, <2>2, <2>3 DEF GatewayOrders
<1>6. CASE t = gw \/ t = Report(gw, main.client, "CancelReject")
  <2>r. PICK report \in ReportKinds : report = "CancelReject" /\ report # "FILLED" /\ report \notin Endings
    BY DEF ReportKinds, Endings
  <2>1. AllOrders(own, t, st, rp) /\ Minds(gw, t)
    BY <1>2, <1>3, <1>6, <2>r, ToldOrders
  <2> QED
    BY <1>1, <1>s, <2>1 DEF GatewayOrders
<1> QED
  BY <1>4, <1>5, <1>6, <1>s
     DEF MainStep, PlaceOrder, ModifyOrder, CancelOrderByCloid, CancelOrderFails

(* The other steps of the main thread, but for entering a new order.       *)
LEMMA OtherOrders ==
  ASSUME IInv, FillInv, OrderInv, NEW c \in Clients,
         \/ EndReplay \/ IgnoreNewOrder(c) \/ RejectNewOrder(c)
         \/ FindAmended(c) \/ FindCancelled(c) \/ RejectCancelOrder(c)
  PROVE  GatewayOrders
<1>o. PICK own : OwnedBy(own)
  BY DEF FillInv
<1>s. PICK st, rp, t : st = stream /\ rp = replaying /\ t = gw'
  OBVIOUS
<1>1. stream' = st /\ replaying' = rp /\ nextOid' = nextOid
  BY <1>s DEF EndReplay, IgnoreNewOrder, RejectNewOrder, FindAmended, FindCancelled,
              RejectCancelOrder,
              MayCancel, WebsocketUnchanged, exchangeVars
<1>2. AllOrders(own, gw, st, rp)
  BY <1>1, <1>o, <1>s, OrdersNow
<1>3. \/ t = gw \/ t = Report(gw, c, "CancelReject")
      \/ t = Report(gw, c, "REJECTED") /\ seen[c] = "no"
  BY <1>s DEF EndReplay, IgnoreNewOrder, RejectNewOrder, FindAmended, FindCancelled,
              RejectCancelOrder,
              MayCancel
<1>4. PICK report \in ReportKinds :
        /\ report # "FILLED"
        /\ report \in Endings => c \notin Entered
        /\ t = gw \/ t = Report(gw, c, report)
  BY <1>3 DEF ReportKinds, Endings, Entered
<1>5. c \in Clients \cup {NoClient}
  OBVIOUS
<1>6. AllOrders(own, t, st, rp) /\ Minds(gw, t)
  BY <1>2, <1>4, <1>5, ToldOrders
<1> QED
  BY <1>1, <1>s, <1>6 DEF GatewayOrders

(* A new order is entered.                                                 *)
NewlyIn(t, c, x) ==
  /\ Typed(t)
  /\ t.clientToCloid = Put(gw.clientToCloid, c, x) /\ t.cloidToClient = Put(gw.cloidToClient, x, c)
  /\ t.cloidToAsset = gw.cloidToAsset \cup {x}
  /\ t.oidToCloid = gw.oidToCloid /\ t.cloidToOid = gw.cloidToOid
  /\ t.bufferedFills = gw.bufferedFills /\ t.told = gw.told
  /\ \A y : y # x => StateOf(t, y) = StateOf(gw, y)

LEMMA EntersMaps ==
  ASSUME IInv, FillInv, NEW c \in Clients, EnterNewOrder(c), Good(gw'), NEW t, t = gw'
  PROVE  NewlyIn(t, c, nextCloid)
<1>x. PICK x : x = nextCloid
  OBVIOUS
<1>1. x \in Cloids /\ \E qty \in Quantities, ioc \in BOOLEAN : gw' = AddOrder(gw, c, x, qty, ioc)
  BY <1>x DEF EnterNewOrder
<1>2. PICK qty, ioc : qty \in Nat /\ ioc \in BOOLEAN /\ t = AddOrder(gw, c, x, qty, ioc)
  BY <1>1, ExchangeAssumption
<1>3. Typed(gw) /\ Good(t)
  BY DEF FillInv
<1>4. \A own : Spares(gw, t, own)
  BY <1>1, <1>2, <1>3, AddOrderSpares
<1>n. PICK n : t = [gw EXCEPT !.clientToCloid = Put(gw.clientToCloid, c, x),
                              !.cloidToClient = Put(gw.cloidToClient, x, c),
                              !.cloidToAsset = gw.cloidToAsset \cup {x},
                              !.cloidToState = Put(gw.cloidToState, x, n)]
  BY <1>2 DEF AddOrder
<1>5. /\ t.clientToCloid = Put(gw.clientToCloid, c, x)
      /\ t.cloidToClient = Put(gw.cloidToClient, x, c)
      /\ t.cloidToAsset = gw.cloidToAsset \cup {x}
      /\ t.cloidToState = Put(gw.cloidToState, x, n)
      /\ t.oidToCloid = gw.oidToCloid /\ t.cloidToOid = gw.cloidToOid
      /\ t.bufferedFills = gw.bufferedFills /\ t.told = gw.told
  BY <1>3, <1>n DEF Typed, Good, Fields
<1>6. \A y : y # x => StateOf(t, y) = StateOf(gw, y)
  BY <1>5 DEF StateOf, Put
<1> QED
  BY <1>4, <1>5, <1>6, <1>x DEF Spares, NewlyIn

(* Nobody has heard of the order yet.                                      *)
LEMMA FreshOrder ==
  ASSUME IInv, NEW own, NEW st, NEW rp, st = stream, AllOrders(own, gw, st, rp), BookOids,
         NEW x, x = nextCloid, x \in Cloids,
         NEW c, NEW t, NewlyIn(t, c, x), Owned(own, t, st, rp)
  PROVE  Order(x, book[x], t, st, rp)
<1>b. PICK b : b = book[x]
  OBVIOUS
<1>1. Order(x, b, gw, st, rp) /\ Owned(own, gw, st, rp)
  BY <1>b DEF AllOrders, Orders
<1>2. Ghost(x)
  <2>1. x >= nextCloid
    BY DEF IInv, MapsInv
  <2> QED
    BY <2>1 DEF IInv, GhostInv
<1>3. b.oid = 0
  BY <1>2, <1>b DEF Ghost, NeverSent, BookOids
<1>4. Announced(x, b, st, t.bufferedFills, rp)
  BY <1>1 DEF Order, NewlyIn
<1>5. x \notin DOMAIN t.cloidToOid
  <2>1. ASSUME x \in DOMAIN gw.cloidToOid
        PROVE  FALSE
    <3>1. 0 < gw.cloidToOid[x] /\ gw.cloidToOid[x] <= 0
      BY <1>1, <1>3, <2>1 DEF Order, ActiveFits
    <3>2. gw.cloidToOid[x] \in Nat
      BY <1>1, <2>1 DEF Owned, Typed, IsMap
    <3> QED
      BY <3>1, <3>2
  <2> QED
    BY <2>1 DEF NewlyIn
<1>6. \A i \in 1 .. Len(st) : st[i].cloid # x
  BY <1>2 DEF Ghost, NeverSent
<1>7. ASSUME NEW seq \in Seq(Fill), HandedOut(x, b, seq)
      PROVE  \A i \in 1 .. Len(seq) : seq[i].cloid # x
  <2>1. ASSUME NEW i \in 1 .. Len(seq), seq[i].cloid = x
        PROVE  FALSE
    <3>1. seq[i].oid \in Nat /\ seq[i].type = "fill"
      BY FillTypes
    <3>2. 0 < seq[i].oid /\ seq[i].oid <= 0
      BY <1>3, <1>7, <2>1, <3>1 DEF HandedOut, IsEnd
    <3> QED
      BY <3>1, <3>2
  <2> QED
    BY <2>1
<1>q. PICK q : q = t.bufferedFills
  OBVIOUS
<1>8. q \in Seq(Fill) /\ rp \in Seq(Fill) /\ HandedOut(x, b, q) /\ HandedOut(x, b, rp)
  BY <1>1, <1>4, <1>q DEF Owned, Typed, NewlyIn, Announced
<1>9. /\ \A i \in 1 .. Len(q) : q[i].cloid # x
      /\ \A i \in 1 .. Len(rp) : rp[i].cloid # x
  BY <1>7, <1>8
<1>10. \A oid : ~IsCurrent(t, x, oid)
  BY <1>5 DEF IsCurrent
<1>11. Registered(x, t)
  BY <1>2 DEF Registered, Ghost, NewlyIn
<1>12. /\ FillsLed(x, t, st) /\ BufferLed(x, st, q) /\ BookLed(x, b, t, st)
       /\ EndsLed(x, b, t, st) /\ ReplayLed(x, t, rp)
  BY <1>3, <1>6, <1>9 DEF FillsLed, BufferLed, BookLed, EndsLed, ReplayLed
<1>13. Measured(x, b, t, st, rp)
  BY <1>10 DEF Measured
<1>14. Followed(x, b, t, st, rp)
  BY <1>11, <1>12, <1>13, <1>q DEF Followed
<1> QED
  BY <1>4, <1>5, <1>14, <1>b DEF Order, ActiveFits

LEMMA EnterOrders ==
  ASSUME IInv, FillInv, OrderInv, NEW c \in Clients, EnterNewOrder(c), Good(gw')
  PROVE  GatewayOrders
<1>o. PICK own : OwnedBy(own)
  BY DEF FillInv
<1>s. PICK st, rp, t, x : st = stream /\ rp = replaying /\ t = gw' /\ x = nextCloid
  OBVIOUS
<1>1. stream' = st /\ replaying' = rp /\ nextOid' = nextOid /\ x \in Cloids
  BY <1>s DEF EnterNewOrder, WebsocketUnchanged, exchangeVars
<1>2. AllOrders(own, gw, st, rp) /\ BookOids
  BY <1>1, <1>o, <1>s, OrdersNow DEF OrderInv
<1>3. NewlyIn(t, c, x)
  BY <1>s, EntersMaps
<1>4. Owned(own, t, st, rp)
  BY <1>2, <1>3 DEF AllOrders, Owned, NewlyIn, OidsOwned
<1>5. ASSUME NEW y \in Cloids, y # x
      PROVE  Order(y, book[y], t, st, rp)
  <2>b. PICK b : b = book[y]
    OBVIOUS
  <2>1. Owned(own, gw, st, rp) /\ Order(y, b, gw, st, rp)
    BY <1>2, <2>b DEF AllOrders, Orders
  <2>2. b.done \in Nat
    BY <2>b DEF IInv, TypesOK, ExchangeTypeOK, BookEntry
  <2>3. SameEntries(y, gw, t) /\ t.bufferedFills = gw.bufferedFills
    BY <1>3, <1>5 DEF SameEntries, NewlyIn, IsCurrent, Put
  <2>4. Order(y, b, t, st, rp)
    BY <1>4, <2>1, <2>2, <2>3, Unmoved
  <2> QED
    BY <2>4, <2>b
<1>6. Order(x, book[x], t, st, rp)
  BY <1>1, <1>2, <1>3, <1>4, <1>s, FreshOrder
<1>7. AllOrders(own, t, st, rp)
  BY <1>4, <1>5, <1>6 DEF AllOrders, Orders
<1>8. Minds(gw, t)
  BY <1>3 DEF Minds, NewlyIn, Put
<1> QED
  BY <1>1, <1>7, <1>8, <1>s DEF GatewayOrders

-----------------------------------------------------------------------------
(* The invariant, and what keeps it.                                       *)
Held == HeldIn(gw)

FullOnly == \A c \in Clients : gw.told[c].asFilled => c \in Entered /\ Full(c)

OrderKeep == OrderInv /\ Held /\ FullOnly /\ PlaceAnswered /\ Posted

LEMMA ConnectedOrders ==
  ASSUME IInv, FillInv, OrderInv, OnConnected
  PROVE  GatewayOrders
<1>o. PICK own : OwnedBy(own)
  BY DEF FillInv
<1>s. PICK st, rp, t : st = stream /\ rp = replaying /\ t = gw'
  OBVIOUS
<1>1. stream' = st /\ replaying' = rp /\ nextOid' = nextOid /\ t = gw
  BY <1>s DEF OnConnected
<1>2. AllOrders(own, gw, st, rp)
  BY <1>1, <1>o, <1>s, OrdersNow
<1>3. Minds(gw, t)
  BY <1>1, MindsSame
<1> QED
  BY <1>1, <1>2, <1>3, <1>s DEF GatewayOrders

LEMMA WebsocketOrders ==
  ASSUME IInv, FillInv, KeepInv, OrderKeep, ~Timeouts, FillsFirst, WebsocketStep
  PROVE  GatewayOrders
<1>0. OrderInv /\ HeldIn(gw) /\ PlaceAnswered /\ Linked /\ Replayed
  BY DEF OrderKeep, Held, KeepInv
<1>1. ~OnDisconnected
  BY <1>0 DEF OnDisconnected, Linked
<1>2. CASE \E i \in 1 .. Len(stream) : OrderUpdateArrives(i) \/ UserFillArrives(i)
  BY <1>0, <1>2, UpdateOrders, UserFillOrders
<1>3. CASE ReplayFill
  BY <1>0, <1>3, ReplayOrders
<1>4. CASE \E r \in responses : ResponseArrives(r)
  BY <1>0, <1>4, ResponseOrders
<1>5. CASE OnConnected
  BY <1>0, <1>5, ConnectedOrders
<1> QED
  BY <1>1, <1>2, <1>3, <1>4, <1>5 DEF WebsocketStep

LEMMA OrdersKept ==
  ASSUME OrderInv, GatewayOrders, book' = book, nextOid' = nextOid
  PROVE  OrderInv'
<1>1. PICK own, t, st, rp :
        t = gw' /\ st = stream' /\ rp = replaying' /\ AllOrders(own, t, st, rp)
  BY DEF GatewayOrders
<1>2. Orders(book, t, st, rp)
  BY <1>1 DEF AllOrders
<1>3. Orders(book, gw, stream, replaying)'
  BY <1>1, <1>2
<1>4. BookOids'
  BY DEF OrderInv, BookOids
<1> QED
  BY <1>3, <1>4 DEF OrderInv

LEMMA HeldKept ==
  ASSUME Held, FullOnly, GatewayOrders, book' = book, cloidOf' = cloidOf, Entered' = Entered
  PROVE  Held' /\ FullOnly'
<1>1. PICK t : t = gw' /\ Minds(gw, t)
  BY DEF GatewayOrders
<1>2. Held'
  BY <1>1 DEF Held, HeldIn, Minds
<1>3. FullOnly'
  BY <1>1 DEF FullOnly, Full, Minds
<1> QED
  BY <1>2, <1>3

LEMMA EnterHeld ==
  ASSUME IInv, FillInv, Held, FullOnly, NEW c \in Clients, EnterNewOrder(c), Good(gw')
  PROVE  Held' /\ FullOnly'
<1>t. PICK t, x : t = gw' /\ x = nextCloid
  OBVIOUS
<1>1. NewlyIn(t, c, x)
  BY <1>t, EntersMaps
<1>2. /\ book' = book /\ seen[c] = "no" /\ seen' = [seen EXCEPT ![c] = "entered"]
      /\ cloidOf' = [cloidOf EXCEPT ![c] = x]
  BY <1>t DEF EnterNewOrder, exchangeVars
<1>3. /\ Entered' = Entered \cup {c} /\ c \notin Entered
      /\ cloidOf'[c] = x /\ \A d \in Entered : cloidOf'[d] = cloidOf[d]
  <2>1. cloidOf \in [Clients -> AnyCloid] /\ seen \in [Clients -> {"no", "ignored", "rejected", "entered"}]
    BY DEF IInv, MapsInv, TypesOK
  <2> QED
    BY <1>2, <2>1 DEF Entered
<1>4. ASSUME NEW d \in Entered', book'[cloidOf'[d]].state # "ended"
      PROVE  t.told[d].ends = 0 /\ d \in DOMAIN t.clientToCloid /\ cloidOf'[d] \in t.cloidToAsset
  <2>1. CASE d = c
    <3>1. gw.told[c].ends = 0
      BY <1>2 DEF IInv, EndInv
    <3> QED
      BY <1>1, <1>3, <2>1, <3>1 DEF NewlyIn, Put
  <2>2. CASE d # c
    <3>1. /\ d \in Entered /\ cloidOf'[d] = cloidOf[d]
          /\ gw.told[d].ends = 0 /\ d \in DOMAIN gw.clientToCloid /\ cloidOf[d] \in gw.cloidToAsset
      BY <1>2, <1>3, <1>4, <2>2 DEF Held, HeldIn
    <3> QED
      BY <1>1, <3>1 DEF NewlyIn, Put
  <2> QED
    BY <2>1, <2>2
<1>5. Held'
  BY <1>4, <1>t DEF Held, HeldIn
<1>6. FullOnly'
  BY <1>1, <1>2, <1>3, <1>t DEF FullOnly, Full, NewlyIn
<1> QED
  BY <1>5, <1>6

LEMMA ExchangeHeld ==
  ASSUME IInv, Held, FullOnly, EndedStay, UNCHANGED gatewayVars
  PROVE  Held' /\ FullOnly'
<1>1. gw' = gw /\ cloidOf' = cloidOf /\ Entered' = Entered
  BY DEF gatewayVars, history, Entered
<1>2. \A c \in Entered : cloidOf[c] \in Cloids
  BY DEF IInv, CloidInv
<1>3. Held'
  BY <1>1, <1>2 DEF Held, HeldIn, EndedStay
<1>4. FullOnly'
  BY <1>1, <1>2 DEF FullOnly, Full, EndedStay
<1> QED
  BY <1>3, <1>4

(* Only the answer to a place that ends its order says that it failed.     *)
LEMMA ExchangeAnswers ==
  ASSUME IInv, PlaceAnswered, EndedStay, ExchangeNext, pending' = pending
  PROVE  PlaceAnswered'
<1>h. PICK h : h = Head(requests)
  OBVIOUS
<1>1. ASSUME NEW r \in responses', r \notin responses, r.kind = "place", r.result # "ok"
      PROVE  RejectPlace /\ r.corr = h.corr
  <2>1. ASSUME NEW result, Answers(h, result)
        PROVE  r.kind = h.kind /\ r.corr = h.corr /\ r.result = result
    BY <1>1, <2>1 DEF Answers
  <2>2. ~AcceptPlace
    BY <1>1, <1>h, <2>1 DEF AcceptPlace
  <2>3. ~AcceptModify /\ ~RejectModify /\ ~AcceptCancel /\ ~RejectCancel
    BY <1>1, <1>h, <2>1 DEF AcceptModify, RejectModify, AcceptCancel, RejectCancel, IsNext
  <2>4. RejectPlace
    BY <1>1, <2>2, <2>3 DEF ExchangeNext, HandleRequest, Trade, IocGivenUp, ExchangeCancels
  <2>5. r.corr = h.corr
    BY <1>h, <2>1, <2>4 DEF RejectPlace
  <2> QED
    BY <2>4, <2>5
<1>2. ASSUME NEW r \in responses', NEW p \in pending,
             r.kind = "place", p.kind = "place", p.corr = r.corr, r.result # "ok"
      PROVE  book'[p.cloid].state = "ended"
  <2>0. p.cloid \in Cloids
    BY DEF IInv, TypesOK, Pendings
  <2>1. CASE r \in responses
    BY <1>2, <2>0, <2>1 DEF PlaceAnswered, EndedStay
  <2>2. CASE r \notin responses
    <3>1. RejectPlace /\ p.corr = h.corr
      BY <1>1, <1>2, <2>2
    <3>2. requests \in Seq(Request) /\ requests # <<>>
      BY <3>1 DEF RejectPlace, IsNext, IInv, TypesOK, ExchangeTypeOK
    <3>3. 1 \in 1 .. Len(requests) /\ requests[1] = h
      BY <1>h, <3>2
    <3>4. p.cloid = h.cloid
      BY <3>1, <3>3 DEF IInv, CorrInv
    <3>5. book' = [book EXCEPT ![h.cloid].state = "ended"]
      BY <1>h, <3>1 DEF RejectPlace
    <3>6. book \in [Cloids -> BookEntry]
      BY DEF IInv, TypesOK, ExchangeTypeOK
    <3> QED
      BY <2>0, <3>4, <3>5, <3>6 DEF BookEntry
  <2> QED
    BY <2>1, <2>2
<1> QED
  BY <1>2 DEF PlaceAnswered

(* A new request's number is larger than that of any response.             *)
LEMMA RequestAnswers ==
  ASSUME IInv, PlaceAnswered, book' = book, responses' \subseteq responses,
         \/ pending' \subseteq pending
         \/ \E p : p.corr = nextCorr /\ pending' = pending \cup {p}
  PROVE  PlaceAnswered'
<1>1. nextCorr \in Nat /\ \A r \in responses : r.corr \in Nat /\ r.corr < nextCorr
  BY DEF IInv, TypesOK, ExchangeTypeOK, Response, CorrInv
<1>2. ASSUME NEW r \in responses', NEW q \in pending', q.corr = r.corr
      PROVE  q \in pending /\ r \in responses
  <2>1. r \in responses /\ q.corr # nextCorr
    BY <1>1, <1>2
  <2> QED
    BY <2>1
<1> QED
  BY <1>2 DEF PlaceAnswered

LEMMA GatewayAnswers ==
  ASSUME IInv, PlaceAnswered, WebsocketStep \/ MainNext
  PROVE  PlaceAnswered'
<1>1. CASE WebsocketStep
  <2>1. book' = book /\ responses' \subseteq responses /\ pending' \subseteq pending
    BY <1>1 DEF WebsocketStep, OrderUpdateArrives, UserFillArrives, ReplayFill, ResponseArrives,
                OnConnected, OnDisconnected, exchangeVars
  <2> QED
    BY <2>1, RequestAnswers
<1>2. CASE MainStep
  <2>1. book' = book /\ responses' = responses
    BY <1>2 DEF MainStep, PlaceOrder, PlaceOrderThrows, ModifyOrder, CancelOrderByCloid,
                CancelOrderFails,
                HandlerDone
  <2>2. \/ pending' = pending
        \/ \E kind : Track(kind)
    BY <1>2 DEF MainStep, PlaceOrder, PlaceOrderThrows, ModifyOrder, CancelOrderByCloid,
                CancelOrderFails
  <2>3. \/ pending' \subseteq pending
        \/ \E p : p.corr = nextCorr /\ pending' = pending \cup {p}
    <3>1. ASSUME NEW kind, Track(kind)
          PROVE  \E p : p.corr = nextCorr /\ pending' = pending \cup {p}
      <4>p. PICK p : p = [kind |-> kind, corr |-> nextCorr, cloid |-> main.cloid]
        OBVIOUS
      <4>1. p.corr = nextCorr /\ pending' = pending \cup {p}
        BY <3>1, <4>p DEF Track
      <4> QED
        BY <4>1
    <3> QED
      BY <2>2, <3>1
  <2> QED
    BY <2>1, <2>3, RequestAnswers
<1>3. CASE MainNext /\ ~MainStep
  <2>1. book' = book /\ responses' = responses /\ pending' = pending
    BY <1>3 DEF MainNext, EndReplay, IgnoreNewOrder, RejectNewOrder, EnterNewOrder, FindAmended,
                FindCancelled, RejectCancelOrder, MayCancel, exchangeVars
  <2> QED
    BY <2>1, RequestAnswers
<1> QED
  BY <1>1, <1>2, <1>3

LEMMA PostedKept ==
  ASSUME FillInv, Linked, Posted, Exchange \/ WebsocketStep \/ MainNext
  PROVE  Posted'
<1>0. connected \in BOOLEAN
  BY DEF FillInv
<1>1. CASE Exchange
  BY <1>1 DEF Exchange, gatewayVars, Posted
<1>2. CASE WebsocketStep
  <2>1. ~OnDisconnected
    BY DEF OnDisconnected, Linked
  <2>2. main' = main /\ (connected' = connected \/ connected' = TRUE)
    BY <1>2, <2>1 DEF WebsocketStep, OrderUpdateArrives, UserFillArrives, ReplayFill,
                      ResponseArrives,
                      OnConnected, RestUnchanged
  <2> QED
    BY <2>2 DEF Posted
<1>3. CASE MainNext
  <2>1. connected' = connected
    BY <1>3 DEF MainNext, MainStep, PlaceOrder, PlaceOrderThrows, ModifyOrder, CancelOrderByCloid,
                CancelOrderFails, HandlerDone, EndReplay, IgnoreNewOrder, RejectNewOrder,
                EnterNewOrder,
                FindAmended, FindCancelled, RejectCancelOrder, MayCancel, WebsocketUnchanged
  <2>2. main' = main \/ main' = NoHandler \/ connected
    BY <1>3 DEF MainNext, MainStep, PlaceOrder, PlaceOrderThrows, ModifyOrder, CancelOrderByCloid,
                CancelOrderFails, HandlerDone, EndReplay, IgnoreNewOrder, RejectNewOrder,
                EnterNewOrder,
                FindAmended, FindCancelled, RejectCancelOrder
  <2>3. NoHandler.at = "idle"
    BY DEF NoHandler
  <2> QED
    BY <1>0, <2>1, <2>2, <2>3 DEF Posted
<1> QED
  BY <1>1, <1>2, <1>3

LEMMA MainOrders ==
  ASSUME IInv, FillInv, Linked, OrderKeep, MainNext
  PROVE  OrderInv' /\ Held' /\ FullOnly'
<1>0. OrderInv /\ Held /\ FullOnly /\ Posted
  BY DEF OrderKeep
<1>1. CASE MainStep
  <2>1. GatewayOrders
    BY <1>0, <1>1, MainStepOrders
  <2>2. book' = book /\ nextOid' = nextOid /\ cloidOf' = cloidOf /\ Entered' = Entered
    BY <1>1 DEF MainStep, PlaceOrder, PlaceOrderThrows, ModifyOrder, CancelOrderByCloid,
                CancelOrderFails, HandlerDone, history, Entered
  <2> QED
    BY <1>0, <2>1, <2>2, OrdersKept, HeldKept
<1>2. ASSUME NEW c \in Clients, EnterNewOrder(c)
      PROVE  OrderInv' /\ Held' /\ FullOnly'
  <2>1. MapsInv'
    BY MainNextMaps DEF IInv
  <2>2. Good(gw')
    BY <2>1 DEF MapsInv
  <2>3. GatewayOrders
    BY <1>0, <1>2, <2>2, EnterOrders
  <2>4. book' = book /\ nextOid' = nextOid
    BY <1>2 DEF EnterNewOrder, exchangeVars
  <2>5. OrderInv'
    BY <1>0, <2>3, <2>4, OrdersKept
  <2>6. Held' /\ FullOnly'
    BY <1>0, <1>2, <2>2, EnterHeld
  <2> QED
    BY <2>5, <2>6
<1>3. ASSUME NEW c \in Clients,
             \/ EndReplay \/ IgnoreNewOrder(c) \/ RejectNewOrder(c)
             \/ FindAmended(c) \/ FindCancelled(c) \/ RejectCancelOrder(c)
      PROVE  OrderInv' /\ Held' /\ FullOnly'
  <2>1. GatewayOrders
    BY <1>0, <1>3, OtherOrders
  <2>2. book' = book /\ nextOid' = nextOid /\ cloidOf' = cloidOf
    BY <1>3 DEF EndReplay, IgnoreNewOrder, RejectNewOrder, FindAmended, FindCancelled,
                RejectCancelOrder,
                MayCancel, exchangeVars, history
  <2>3. Entered' = Entered
    <3>1. seen' = seen \/ \E fate \in {"ignored", "rejected"} : seen' = [seen EXCEPT ![c] = fate]
      BY <1>3 DEF EndReplay, IgnoreNewOrder, RejectNewOrder, FindAmended, FindCancelled,
                  RejectCancelOrder, MayCancel, history
    <3>2. seen[c] = "no" \/ seen' = seen
      BY <1>3 DEF EndReplay, IgnoreNewOrder, RejectNewOrder, FindAmended, FindCancelled,
                  RejectCancelOrder, MayCancel, history
    <3>3. seen \in [Clients -> {"no", "ignored", "rejected", "entered"}]
      BY DEF IInv, MapsInv
    <3> QED
      BY <3>1, <3>2, <3>3 DEF Entered
  <2> QED
    BY <1>0, <2>1, <2>2, <2>3, OrdersKept, HeldKept
<1>4. CASE EndReplay /\ Clients = {}
  <2>1. gw' = gw /\ UNCHANGED <<book, nextOid, stream, replaying, cloidOf, seen>>
    BY <1>4 DEF EndReplay, WebsocketUnchanged, exchangeVars, history
  <2>2. OrderInv'
    BY <1>0, <2>1 DEF OrderInv, BookOids
  <2> QED
    BY <1>0, <2>1, <2>2 DEF Held, HeldIn, FullOnly, Full, Entered
<1> QED
  BY <1>1, <1>2, <1>3, <1>4 DEF MainNext

LEMMA OrderKeepKept ==
  ASSUME FillsInv, KeepInv, OrderKeep, Reliable, FillsFirst, [Next]_vars
  PROVE  OrderKeep'
<1>0. /\ IInv /\ FillInv /\ ~Timeouts /\ MaxDisconnects = 0 /\ Linked
      /\ OrderInv /\ Held /\ FullOnly /\ PlaceAnswered /\ Posted
  BY DEF FillsInv, Reliable, KeepInv, OrderKeep
<1>1. CASE Exchange
  <2>1. ExchangeNext /\ UNCHANGED gatewayVars
    BY <1>1 DEF Exchange
  <2>2. OrderInv' /\ EndedStay
    BY <1>0, <2>1, ExchangeOrders
  <2>3. Held' /\ FullOnly'
    BY <1>0, <2>1, <2>2, ExchangeHeld
  <2>4. pending' = pending
    BY <2>1 DEF gatewayVars
  <2>5. PlaceAnswered'
    BY <1>0, <2>1, <2>2, <2>4, ExchangeAnswers
  <2>6. Posted'
    BY <1>0, <1>1, PostedKept
  <2> QED
    BY <2>2, <2>3, <2>5, <2>6 DEF OrderKeep
<1>2. CASE WebsocketStep
  <2>1. GatewayOrders
    BY <1>0, <1>2, WebsocketOrders
  <2>2. book' = book /\ nextOid' = nextOid /\ cloidOf' = cloidOf /\ Entered' = Entered
    BY <1>2 DEF WebsocketStep, OrderUpdateArrives, UserFillArrives, ReplayFill, ResponseArrives,
                OnConnected, OnDisconnected, exchangeVars, RestUnchanged, history, Entered
  <2>3. OrderInv' /\ Held' /\ FullOnly'
    BY <1>0, <2>1, <2>2, OrdersKept, HeldKept
  <2>4. PlaceAnswered' /\ Posted'
    BY <1>0, <1>2, GatewayAnswers, PostedKept
  <2> QED
    BY <2>3, <2>4 DEF OrderKeep
<1>3. CASE MainNext
  <2>1. OrderInv' /\ Held' /\ FullOnly'
    BY <1>0, <1>3, MainOrders
  <2>2. PlaceAnswered' /\ Posted'
    BY <1>0, <1>3, GatewayAnswers, PostedKept
  <2> QED
    BY <2>1, <2>2 DEF OrderKeep
<1>4. ~LinkBreaks
  BY <1>0, LinkBreaksNot
<1>5. CASE UNCHANGED vars
  <2>1. /\ UNCHANGED <<book, nextOid, stream, replaying, cloidOf, seen>> /\ gw' = gw
        /\ UNCHANGED <<responses, pending, main, connected>>
    BY <1>5 DEF vars, exchangeVars, gatewayVars, history
  <2>2. OrderInv'
    BY <1>0, <2>1 DEF OrderInv, BookOids
  <2>3. Held' /\ FullOnly' /\ PlaceAnswered' /\ Posted'
    BY <1>0, <2>1 DEF Held, HeldIn, FullOnly, Full, Entered, PlaceAnswered, Posted
  <2> QED
    BY <2>2, <2>3 DEF OrderKeep
<1> QED
  BY <1>1, <1>2, <1>3, <1>4, <1>5 DEF Next

LEMMA InitOrders ==
  ASSUME Init
  PROVE  OrderKeep
<1>1. /\ stream = <<>> /\ replaying = <<>> /\ gw.bufferedFills = <<>>
      /\ gw.oidToCloid = NoEntries /\ gw.cloidToOid = NoEntries /\ gw.cloidToClient = NoEntries
      /\ gw.told = [c \in Clients |-> NothingTold]
  BY DEF Init, ExchangeInit, GatewayInit
<1>2. /\ book = [cloid \in Cloids |-> Unknown] /\ nextOid = 1 /\ responses = {}
      /\ main = NoHandler /\ seen = [c \in Clients |-> "no"]
  BY DEF Init, ExchangeInit, GatewayInit
<1>3. DOMAIN NoEntries = {}
  BY DEF NoEntries
<1>4. BookOids
  <2>1. Unknown.state = "unknown" /\ Unknown.oid = 0
    BY DEF Unknown
  <2> QED
    BY <1>2, <2>1 DEF BookOids
<1>5. ASSUME NEW y \in Cloids
      PROVE  Order(y, book[y], gw, stream, replaying)
  <2>n. PICK none : none = <<>> /\ 1 .. Len(none) = {}
    OBVIOUS
  <2>b. PICK b : b = book[y]
    OBVIOUS
  <2>1. HandedOut(y, b, none) /\ EndsDated(y, b, none) /\ InOrder(y, none) /\ OpensFit(y, b, none, none)
    BY <2>n DEF HandedOut, EndsDated, InOrder, OpensFit
  <2>2. Announced(y, b, stream, gw.bufferedFills, replaying)
    BY <1>1, <2>1, <2>n DEF Announced
  <2>3. ActiveFits(y, b, gw, stream) /\ y \notin DOMAIN gw.cloidToClient
    BY <1>1, <1>3 DEF ActiveFits
  <2> QED
    BY <2>2, <2>3, <2>b DEF Order
<1>6. Entered = {}
  BY <1>2 DEF Entered
<1>7. Held /\ PlaceAnswered
  BY <1>2, <1>6 DEF Held, HeldIn, PlaceAnswered
<1>8. FullOnly
  BY <1>1 DEF FullOnly, NothingTold
<1>9. Posted
  BY <1>2 DEF Posted, NoHandler
<1> QED
  BY <1>4, <1>5, <1>7, <1>8, <1>9 DEF OrderKeep, OrderInv, Orders

LEMMA OrdersAlways ==
  ASSUME Reliable, FillsFirst
  PROVE  Spec => [](FillsInv /\ KeepInv /\ OrderKeep)
<1> DEFINE Inv == FillsInv /\ KeepInv /\ OrderKeep
<1>1. Init => Inv
  BY InitEstablishes, InitFills, InitConserves, InitOrders DEF FillsInv
<1>2. Inv /\ [Next]_vars => Inv'
  BY FillsInvKept, KeepInvKept, OrderKeepKept
<1> QED
  BY <1>1, <1>2, PTL DEF Spec

(* If nothing times out, the connection, once up, stays up, and a fill is  *)
(* never delivered later than an order update the exchange produced after  *)
(* it: however fills, updates, responses, amends and cancels overtake each *)
(* other, FILLED is reported of an order only when nothing is left of it   *)
(* at the exchange, so cumQty never reaches origSz too early, not even for *)
(* an order that was filled in part before it was amended.                 *)
THEOREM FilledMeansFull == Reliable /\ FillsFirst => (Spec => []FilledIsFull)
<1> SUFFICES ASSUME Reliable, FillsFirst PROVE Spec => []FilledIsFull
  OBVIOUS
<1>1. FillsInv /\ KeepInv /\ OrderKeep => FilledIsFull
  BY DEF OrderKeep, FullOnly, Full, FilledIsFull, Entered
<1> QED
  BY <1>1, OrdersAlways, PTL

(* Under the same conditions an order that lives at the exchange has not   *)
(* been reported over, and is still in the maps that onAmendOrder and      *)
(* onCancelOrder look into: no stale update, no early FILLED and no        *)
(* response makes the gateway forget an order it could still be asked to   *)
(* cancel.  The REJECTED that sendAmendReject writes is not counted as a   *)
(* report that the order is over.                                          *)
THEOREM NoOrderForgotten == Reliable /\ FillsFirst => (Spec => []NoOrphans)
<1> SUFFICES ASSUME Reliable, FillsFirst PROVE Spec => []NoOrphans
  OBVIOUS
<1>1. FillsInv /\ KeepInv /\ OrderKeep => NoOrphans
  <2>1. ASSUME IInv, Held, NEW c \in Entered, book[cloidOf[c]].state = "live"
        PROVE  /\ gw.told[c].ends = 0
               /\ c \in DOMAIN gw.clientToCloid /\ gw.clientToCloid[c] = cloidOf[c]
               /\ cloidOf[c] \in gw.cloidToAsset
    <3>1. gw.told[c].ends = 0 /\ c \in DOMAIN gw.clientToCloid /\ cloidOf[c] \in gw.cloidToAsset
      BY <2>1 DEF Held, HeldIn
    <3> QED
      BY <2>1, <3>1 DEF IInv, CloidInv
  <2> QED
    BY <2>1 DEF FillsInv, OrderKeep, NoOrphans
<1> QED
  BY <1>1, OrdersAlways, PTL

=============================================================================
