--------------------------- MODULE OrderBookProofs ---------------------------
(***************************************************************************)
(* For any number of slots and any prices, orders and quantities, and with *)
(* all that a call that throws halfway leaves: the slots of a depth are    *)
(* used from the first on, by the levels that have orders, and a slot that *)
(* shows something else has been stamped.                                  *)
(***************************************************************************)
EXTENDS OrderBook, FiniteSetTheorems, WellFoundedInduction, TLAPS

AnyLevel == [price : Price \cup {INVALID}, qty : Int, count : Nat]

(* What every call leaves, whatever it was. *)
DepthOK(d) ==
  /\ d = [slot |-> d.slot, excess |-> d.excess, stamped |-> d.stamped, threw |-> d.threw]
  /\ d.slot \in [1 .. Size -> AnyLevel]
  /\ \A k \in 1 .. Size : d.slot[k].price = INVALID <=> d.slot[k].count = 0
  /\ \A k \in 2 .. Size : Used(d, k) => Used(d, k - 1)
  /\ d.excess = [p \in DOMAIN d.excess |-> d.excess[p]]
  /\ DOMAIN d.excess \subseteq Price /\ IsFiniteSet(DOMAIN d.excess)
  /\ \A p \in DOMAIN d.excess :
       d.excess[p] \in AnyLevel /\ d.excess[p].price = p /\ d.excess[p].count # 0

(* What a call stamps. *)
StampedSince(c, d) ==
  /\ c.stamped \subseteq d.stamped
  /\ \A k \in 1 .. Size :
       d.slot[k] # c.slot[k] /\ (Used(c, k) \/ Used(d, k)) => k \in d.stamped
Follows(c, d) == DepthOK(d) /\ StampedSince(c, d)

(* A call may be made of two. *)
LEMMA FollowsOn == ASSUME NEW c, NEW d, NEW e, Follows(c, d), Follows(d, e) PROVE Follows(c, e)
  BY DEF Follows, StampedSince, Used

LEMMA LeastNat ==
  ASSUME NEW N \in SUBSET Nat, N # {}
  PROVE  \E n \in N : \A m \in N : n <= m
<1>1. PICK n \in N : \A m \in N : <<m, n>> \notin OpToRel(<, Nat)
  BY NatLessThanWellFounded, WFMin, Zenon
<1>2. \A m \in N : ~(m < n)
  BY <1>1 DEF OpToRel
<1>3. QED
  BY <1>2

(* By the least size of a set without: *)
LEMMA GreatestOf ==
  ASSUME NEW S \in SUBSET Nat, IsFiniteSet(S), S # {}
  PROVE  \E n \in S : \A m \in S : m <= n
<1> DEFINE None(T) == T # {} /\ \A n \in T : \E m \in T : m > n
           Bad == {n \in Nat : \E T \in SUBSET S : None(T) /\ Cardinality(T) = n}
<1>1. Bad = {}
  <2>1. SUFFICES ASSUME Bad # {} PROVE FALSE
    OBVIOUS
  <2>2. PICK n \in Bad : \A m \in Bad : n <= m
    BY <2>1, LeastNat
  <2>3. PICK T \in SUBSET S : None(T) /\ Cardinality(T) = n
    BY <2>2
  <2>4. PICK p \in T : TRUE
    BY <2>3
  <2>5. IsFiniteSet(T) /\ Cardinality(T \ {p}) = n - 1 /\ n - 1 \in Nat
    <3>1. IsFiniteSet(T)
      BY FS_Subset
    <3>2. IsFiniteSet(T \ {p}) /\ Cardinality(T \ {p}) = n - 1
      BY <2>3, <3>1, FS_RemoveElement
    <3>3. QED
      BY <3>1, <3>2, FS_CardinalityType
  <2>6. ~None(T \ {p})
    BY <2>2, <2>5
  <2>7. PICK r \in T : r > p
    BY <2>3
  <2>8. PICK q \in T \ {p} : \A m \in T \ {p} : ~(m > q)
    BY <2>6, <2>7
  <2>9. q >= r
    BY <2>7, <2>8
  <2>10. \A m \in T : ~(m > q)
    BY <2>7, <2>8, <2>9
  <2>11. QED
    BY <2>3, <2>10
<1>2. ~None(S)
  <2>1. Cardinality(S) \in Nat
    BY FS_CardinalityType
  <2>2. QED
    BY <1>1, <2>1
<1>3. QED
  BY <1>2

(* The first place, and the best of the excess levels. *)
LEMMA FirstIs ==
  ASSUME NEW K \in SUBSET (1 .. Size), NEW k, k = First(K)
  PROVE  IF K = {} THEN k = 0 ELSE k \in K /\ \A j \in K : k <= j
<1>1. K # {} => \E n \in K : \A m \in K : n <= m
  BY SizeAssumption, LeastNat
<1>2. QED
  BY <1>1 DEF First, Min

LEMMA BestIs ==
  ASSUME NEW b \in BOOLEAN, NEW d, DepthOK(d), DOMAIN d.excess # {}
  PROVE  BestExcess(b, d) \in DOMAIN d.excess
<1>1. DOMAIN d.excess \in SUBSET Nat /\ IsFiniteSet(DOMAIN d.excess)
  BY PriceAssumption DEF DepthOK
<1>2. PICK n \in DOMAIN d.excess : \A m \in DOMAIN d.excess : n <= m
  BY <1>1, LeastNat
<1>3. PICK g \in DOMAIN d.excess : \A m \in DOMAIN d.excess : m <= g
  BY <1>1, GreatestOf
<1>4. \E p \in DOMAIN d.excess : \A r \in DOMAIN d.excess \ {p} : Better(b, p, r)
  <2>1. CASE b
    BY <1>1, <1>3, <2>1 DEF Better
  <2>2. CASE ~b
    BY <1>1, <1>2, <2>2 DEF Better
  <2>3. QED
    BY <2>1, <2>2
<1>5. QED
  BY <1>4 DEF BestExcess
-----------------------------------------------------------------------------
(* One level of the excess map changes, or leaves it. *)
LEMMA ExcessSet ==
  ASSUME NEW d, DepthOK(d), NEW p \in Price, NEW l \in AnyLevel, l.price = p, l.count # 0
  PROVE  Follows(d, SetExcess(d, p, l))
<1> DEFINE e == SetExcess(d, p, l)
           x == [r \in DOMAIN d.excess \cup {p} |-> IF r = p THEN l ELSE d.excess[r]]
<1>1. e = [slot |-> d.slot, excess |-> x, stamped |-> d.stamped, threw |-> d.threw]
  BY DEF DepthOK, SetExcess
<1>2. e.slot = d.slot /\ e.excess = x /\ e.stamped = d.stamped /\ e.threw = d.threw
  BY <1>1
<1>3. IsFiniteSet(DOMAIN x)
  BY FS_AddElement DEF DepthOK
<1>4. DOMAIN x \subseteq Price
  BY DEF DepthOK
<1>5. \A r \in DOMAIN x : x[r] \in AnyLevel /\ x[r].price = r /\ x[r].count # 0
  BY DEF DepthOK
<1> HIDE DEF e
<1>6. DepthOK(e)
  <2>1. e = [slot |-> e.slot, excess |-> e.excess, stamped |-> e.stamped, threw |-> e.threw]
    BY <1>1, <1>2
  <2>2. x = [r \in DOMAIN x |-> x[r]]
    OBVIOUS
  <2> HIDE DEF x
  <2>3. QED
    BY <1>2, <1>3, <1>4, <1>5, <2>1, <2>2 DEF DepthOK, Used
<1>7. StampedSince(d, e)
  BY <1>2 DEF StampedSince
<1>8. QED
  BY <1>6, <1>7 DEF Follows, e

LEMMA ExcessDropped ==
  ASSUME NEW d, DepthOK(d), NEW p
  PROVE  Follows(d, DropExcess(d, p))
<1> DEFINE e == DropExcess(d, p)
           x == [r \in DOMAIN d.excess \ {p} |-> d.excess[r]]
<1>1. e = [slot |-> d.slot, excess |-> x, stamped |-> d.stamped, threw |-> d.threw]
  BY DEF DepthOK, DropExcess, Restrict
<1>2. e.slot = d.slot /\ e.excess = x /\ e.stamped = d.stamped /\ e.threw = d.threw
  BY <1>1
<1>3. IsFiniteSet(DOMAIN x)
  BY FS_Subset DEF DepthOK
<1>4. DOMAIN x \subseteq Price
  BY DEF DepthOK
<1>5. \A r \in DOMAIN x : x[r] \in AnyLevel /\ x[r].price = r /\ x[r].count # 0
  BY DEF DepthOK
<1> HIDE DEF e
<1>6. DepthOK(e)
  <2>1. e = [slot |-> e.slot, excess |-> e.excess, stamped |-> e.stamped, threw |-> e.threw]
    BY <1>1, <1>2
  <2>2. x = [r \in DOMAIN x |-> x[r]]
    OBVIOUS
  <2> HIDE DEF x
  <2>3. QED
    BY <1>2, <1>3, <1>4, <1>5, <2>1, <2>2 DEF DepthOK, Used
<1>7. StampedSince(d, e)
  BY <1>2 DEF StampedSince
<1>8. QED
  BY <1>6, <1>7 DEF Follows, e

(* The slots are s now, and those in st are stamped. *)
LEMMA SlotsSet ==
  ASSUME NEW d, DepthOK(d), NEW e, NEW s, NEW st,
         e = [slot |-> s, excess |-> d.excess, stamped |-> d.stamped \cup st, threw |-> d.threw],
         s \in [1 .. Size -> AnyLevel],
         \A k \in 1 .. Size : s[k].price = INVALID <=> s[k].count = 0,
         \A k \in 2 .. Size : s[k].price # INVALID => s[k - 1].price # INVALID,
         \A k \in 1 .. Size : s[k] # d.slot[k] /\ (s[k].price # INVALID \/ Used(d, k)) => k \in st
  PROVE  Follows(d, e)
<1>1. e.slot = s /\ e.excess = d.excess /\ e.stamped = d.stamped \cup st /\ e.threw = d.threw
  OBVIOUS
<1>2. e = [slot |-> e.slot, excess |-> e.excess, stamped |-> e.stamped, threw |-> e.threw]
  BY <1>1
<1>3. DepthOK(e)
  BY <1>1, <1>2 DEF DepthOK, Used
<1>4. StampedSince(d, e)
  BY <1>1 DEF StampedSince, Used
<1>5. QED
  BY <1>3, <1>4 DEF Follows

(* One slot changes, and is used as the first free one or no less than before. *)
LEMMA SlotSet ==
  ASSUME NEW d, DepthOK(d), NEW k \in 1 .. Size, NEW l \in AnyLevel,
         l.price = INVALID <=> l.count = 0,
         \/ l.price = INVALID /\ ~Used(d, k)
         \/ l.price # INVALID /\ (Used(d, k) \/ k = 1 \/ Used(d, k - 1))
  PROVE  Follows(d, Stamp([d EXCEPT !.slot[k] = l], {k}))
<1> DEFINE s == [d.slot EXCEPT ![k] = l]
           e == Stamp([d EXCEPT !.slot[k] = l], {k})
<1>1. e = [slot |-> s, excess |-> d.excess, stamped |-> d.stamped \cup {k}, threw |-> d.threw]
  <2> DEFINE c == [d EXCEPT !.slot[k] = l]
  <2>1. c = [slot |-> s, excess |-> d.excess, stamped |-> d.stamped, threw |-> d.threw]
    BY DEF DepthOK
  <2>2. e = Stamp(c, {k})
    OBVIOUS
  <2> HIDE DEF s, c, e
  <2>3. QED
    BY <2>1, <2>2 DEF Stamp
<1>2. s \in [1 .. Size -> AnyLevel]
  BY DEF DepthOK
<1>3. \A j \in 1 .. Size : s[j] = IF j = k THEN l ELSE d.slot[j]
  BY DEF DepthOK
<1>4. \A j \in 1 .. Size : s[j].price = INVALID <=> s[j].count = 0
  BY <1>3 DEF DepthOK
<1>5. \A j \in 2 .. Size : s[j].price # INVALID => s[j - 1].price # INVALID
  BY <1>3, SizeAssumption DEF DepthOK, Used
<1>6. \A j \in 1 .. Size : s[j] # d.slot[j] => j \in {k}
  BY <1>3
<1> HIDE DEF s, e
<1>7. Follows(d, e)
  BY <1>1, <1>2, <1>4, <1>5, <1>6, SlotsSet
<1>8. QED
  BY <1>7 DEF e
-----------------------------------------------------------------------------
LEMMA MoreIs ==
  ASSUME NEW l \in AnyLevel, NEW q \in Int
  PROVE  More(l, q) = Level(l.price, l.qty + q, l.count + 1)
<1> DEFINE m == [l EXCEPT !.qty = @ + q, !.count = @ + 1]
<1>1. PICK p, n, c : l = [price |-> p, qty |-> n, count |-> c]
  BY DEF AnyLevel
<1>2. DOMAIN m = {"price", "qty", "count"}
  BY <1>1
<1>3. m.price = l.price /\ m.qty = l.qty + q /\ m.count = l.count + 1
  BY <1>1
<1>4. m = [f \in {"price", "qty", "count"} |-> m[f]]
  BY <1>2
<1>5. m = More(l, q)
  BY DEF More
<1> HIDE DEF m
<1>6. m = [price |-> l.price, qty |-> l.qty + q, count |-> l.count + 1]
  BY <1>3, <1>4
<1>7. QED
  BY <1>5, <1>6 DEF Level

LEMMA LessIs ==
  ASSUME NEW l \in AnyLevel, NEW q \in Int
  PROVE  Less(l, q) = Level(l.price, IF l.qty >= q THEN l.qty - q ELSE l.qty, l.count - 1)
<1> DEFINE x == IF l.qty >= q THEN l.qty - q ELSE l.qty
           m == [l EXCEPT !.count = @ - 1, !.qty = IF @ >= q THEN @ - q ELSE @]
<1>1. PICK p, n, c : l = [price |-> p, qty |-> n, count |-> c]
  BY DEF AnyLevel
<1>2. DOMAIN m = {"price", "qty", "count"}
  BY <1>1
<1>3. m.price = l.price /\ m.qty = x /\ m.count = l.count - 1
  BY <1>1
<1>4. m = [f \in {"price", "qty", "count"} |-> m[f]]
  BY <1>2
<1>5. m = Less(l, q)
  BY DEF Less
<1> HIDE DEF m, x
<1>6. m = [price |-> l.price, qty |-> x, count |-> l.count - 1]
  BY <1>3, <1>4
<1>7. QED
  BY <1>5, <1>6 DEF Level, x

LEMMA LevelIs ==
  ASSUME NEW p, NEW q, NEW n
  PROVE  /\ Level(p, q, n).price = p /\ Level(p, q, n).qty = q /\ Level(p, q, n).count = n
         /\ p \in Price \cup {INVALID} /\ q \in Int /\ n \in Nat => Level(p, q, n) \in AnyLevel
  BY DEF Level, AnyLevel

LEMMA PlaceIs ==
  ASSUME NEW b \in BOOLEAN, NEW d, DepthOK(d), NEW p \in Price, NEW k, k = PlaceFor(b, d, p), k # 0
  PROVE  k \in 1 .. Size /\ k < Size /\ \A j \in 1 .. k - 1 : Used(d, j)
<1> DEFINE K == {j \in 1 .. Last - 1 : \/ d.slot[j].price \in {p, INVALID}
                                      \/ Better(b, p, d.slot[j].price)}
<1>1. k = First(K)
  BY DEF PlaceFor
<1>2. K \in SUBSET (1 .. Size) /\ \A j \in K : j < Size
  BY SizeAssumption DEF Last
<1>3. k \in K /\ \A j \in K : k <= j
  BY <1>1, <1>2, FirstIs
<1>4. ASSUME NEW j \in 1 .. k - 1 PROVE Used(d, j)
  <2>1. j \notin K
    BY <1>2, <1>3, SizeAssumption
  <2>2. j \in 1 .. Last - 1
    BY <1>2, <1>3, SizeAssumption DEF Last
  <2>3. QED
    BY <2>1, <2>2 DEF Used
<1>5. QED
  BY <1>2, <1>3, <1>4

(* The level that falls off the end is kept, and the others move down. *)
LEMMA InsertFollows ==
  ASSUME NEW d, DepthOK(d), NEW p \in Price, NEW q \in Int, NEW k \in 1 .. Size, k < Size,
         \A j \in 1 .. k : Used(d, j), NEW e,
         e = Stamp([InsertedBefore(d, k, p) EXCEPT !.slot[k] = More(@, q)], {k})
  PROVE  Follows(d, e)
<1> DEFINE fallen == d.slot[Last]
           kept == IF fallen.price = INVALID \/ fallen.price \in DOMAIN d.excess THEN d
                   ELSE SetExcess(d, fallen.price, fallen)
           down == [j \in 1 .. Size |-> CASE j < k -> d.slot[j]
                                          [] j = k -> Level(p, 0, 0)
                                          [] j > k -> d.slot[j - 1]]
           moved == {j \in k + 1 .. Size : d.slot[j - 1].price # INVALID}
           made == Stamp([kept EXCEPT !.slot = down], moved)
           s == [down EXCEPT ![k] = More(down[k], q)]
<1>0. \A j \in 1 .. Size : d.slot[j] \in AnyLevel
  BY DEF DepthOK
<1>1. made = InsertedBefore(d, k, p)
  BY DEF InsertedBefore
<1>2. /\ Follows(d, kept) /\ kept.slot = d.slot /\ kept.stamped = d.stamped
      /\ kept.threw = d.threw
  <2>1. CASE fallen.price = INVALID \/ fallen.price \in DOMAIN d.excess
    BY <2>1 DEF Follows, StampedSince
  <2>2. CASE ~(fallen.price = INVALID \/ fallen.price \in DOMAIN d.excess)
    <3>1. fallen \in AnyLevel /\ fallen.price \in Price /\ fallen.count # 0
      <4>1. Last \in 1 .. Size
        BY SizeAssumption DEF Last
      <4>2. fallen \in AnyLevel /\ (fallen.price = INVALID <=> fallen.count = 0)
        BY <4>1 DEF DepthOK
      <4> HIDE DEF fallen
      <4>3. fallen.price \in Price \cup {INVALID}
        BY <4>2 DEF AnyLevel
      <4>4. QED
        BY <2>2, <4>2, <4>3
    <3>2. Follows(d, SetExcess(d, fallen.price, fallen))
      BY <3>1, ExcessSet
    <3>3. kept = SetExcess(d, fallen.price, fallen)
      BY <2>2
    <3> HIDE DEF fallen, kept
    <3>4. kept.slot = d.slot /\ kept.stamped = d.stamped /\ kept.threw = d.threw
      BY <3>3 DEF SetExcess, DepthOK
    <3>5. QED
      BY <3>2, <3>3, <3>4
  <2>3. QED
    BY <2>1, <2>2
<1>3. DepthOK(kept)
  BY <1>2 DEF Follows
<1> HIDE DEF kept
<1>4. made = [slot |-> down, excess |-> kept.excess, stamped |-> d.stamped \cup moved,
              threw |-> kept.threw]
  <2> DEFINE c == [kept EXCEPT !.slot = down]
  <2> HIDE DEF down, moved
  <2>1. c = [slot |-> down, excess |-> kept.excess, stamped |-> d.stamped, threw |-> kept.threw]
    BY <1>2, <1>3 DEF DepthOK
  <2>2. made = Stamp(c, moved)
    OBVIOUS
  <2> HIDE DEF c
  <2>3. QED
    BY <2>1, <2>2 DEF Stamp
<1> HIDE DEF made
<1>5. e = [slot |-> s, excess |-> kept.excess, stamped |-> kept.stamped \cup (moved \cup {k}),
           threw |-> kept.threw]
  <2> DEFINE c == [made EXCEPT !.slot[k] = More(@, q)]
  <2>1. c = [slot |-> s, excess |-> kept.excess, stamped |-> d.stamped \cup moved,
             threw |-> kept.threw]
    <3> HIDE DEF down, moved
    <3>1. made.slot = down
      BY <1>4
    <3> DEFINE t == [made.slot EXCEPT ![k] = More(made.slot[k], q)]
    <3>2. c = [made EXCEPT !.slot = t]
      OBVIOUS
    <3>3. t = s
      BY <3>1
    <3> HIDE DEF t, c, s
    <3>4. QED
      BY <1>4, <3>2, <3>3
  <2>2. e = Stamp(c, {k})
    BY <1>1
  <2> HIDE DEF s, c, moved
  <2>3. e = [slot |-> s, excess |-> kept.excess, stamped |-> (d.stamped \cup moved) \cup {k},
             threw |-> kept.threw]
    BY <2>1, <2>2 DEF Stamp
  <2>4. (d.stamped \cup moved) \cup {k} = kept.stamped \cup (moved \cup {k})
    BY <1>2
  <2>5. QED
    BY <2>3, <2>4
<1>6. \A j \in 1 .. Size : s[j] = IF j < k THEN d.slot[j]
                                  ELSE IF j = k THEN Level(p, q, 1) ELSE d.slot[j - 1]
  <2>1. \A j \in 1 .. Size : j # k => s[j] = IF j < k THEN d.slot[j] ELSE d.slot[j - 1]
    BY SizeAssumption
  <2>2. s[k] = More(Level(p, 0, 0), q)
    BY SizeAssumption
  <2>3. s[k] = Level(p, q, 1)
    <3>1. Level(p, 0, 0) \in AnyLevel /\ Level(p, 0, 0).price = p /\ Level(p, 0, 0).qty = 0
          /\ Level(p, 0, 0).count = 0 /\ 0 + q = q
      BY LevelIs
    <3>2. QED
      BY <2>2, <3>1, MoreIs
  <2>4. QED
    BY <2>1, <2>3
<1>7. Level(p, q, 1) \in AnyLevel /\ Level(p, q, 1).price # INVALID /\ Level(p, q, 1).count # 0
  BY PriceAssumption DEF Level, AnyLevel, INVALID
<1>8. s = [j \in 1 .. Size |-> s[j]]
  <2>1. DOMAIN down = 1 .. Size
    OBVIOUS
  <2> HIDE DEF down
  <2>2. QED
    BY <2>1
<1> HIDE DEF s
<1>9. s \in [1 .. Size -> AnyLevel]
  <2>1. ASSUME NEW j \in 1 .. Size PROVE s[j] \in AnyLevel
    <3>1. CASE j <= k
      <4>1. s[j] = IF j < k THEN d.slot[j] ELSE Level(p, q, 1)
        BY <1>6, <3>1
      <4>2. QED
        BY <1>7, <1>0, <4>1
    <3>2. CASE j > k
      <4>1. j - 1 \in 1 .. Size /\ s[j] = d.slot[j - 1]
        BY <1>6, <3>2, SizeAssumption
      <4>2. QED
        BY <1>0, <4>1
    <3>3. QED
      BY <3>1, <3>2
  <2>2. QED
    BY <1>8, <2>1
<1>10. ASSUME NEW j \in 1 .. Size PROVE s[j].price = INVALID <=> s[j].count = 0
  <2>1. CASE j <= k
    BY <1>6, <1>7, <2>1 DEF DepthOK
  <2>2. CASE j > k
    <3>1. j - 1 \in 1 .. Size /\ s[j] = d.slot[j - 1]
      BY <1>6, <2>2, SizeAssumption
    <3>2. QED
      BY <3>1 DEF DepthOK
  <2>3. QED
    BY <2>1, <2>2
<1>11. ASSUME NEW j \in 2 .. Size, s[j].price # INVALID PROVE s[j - 1].price # INVALID
  <2>1. CASE j <= k
    BY <1>6, <2>1, SizeAssumption DEF Used
  <2>2. CASE j = k + 1
    BY <1>6, <1>7, <2>2, SizeAssumption
  <2>3. CASE j > k + 1
    <3>1. s[j] = d.slot[j - 1] /\ s[j - 1] = d.slot[j - 2] /\ j - 1 \in 2 .. Size
      BY <1>6, <2>3, SizeAssumption
    <3>2. j - 1 - 1 = j - 2
      OBVIOUS
    <3>3. QED
      BY <1>11, <3>1, <3>2 DEF DepthOK, Used
  <2>4. QED
    BY <2>1, <2>2, <2>3
<1>12. ASSUME NEW j \in 1 .. Size, s[j] # d.slot[j], s[j].price # INVALID \/ Used(d, j)
       PROVE  j \in moved \cup {k}
  <2>1. CASE j <= k
    BY <1>6, <1>12, <2>1
  <2>2. CASE j > k
    <3>1. s[j] = d.slot[j - 1] /\ j \in k + 1 .. Size /\ j \in 2 .. Size
      BY <1>6, <2>2, SizeAssumption
    <3>2. d.slot[j - 1].price # INVALID
      BY <1>12, <3>1 DEF DepthOK, Used
    <3>3. QED
      BY <3>1, <3>2
  <2>3. QED
    BY <2>1, <2>2
<1>13. \A j \in 1 .. Size : s[j] # kept.slot[j] /\ (s[j].price # INVALID \/ Used(kept, j))
                            => j \in moved \cup {k}
  BY <1>2, <1>12 DEF Used
<1> HIDE DEF moved
<1>14. Follows(kept, e)
  BY <1>3, <1>5, <1>9, <1>10, <1>11, <1>13, SlotsSet
<1>15. QED
  BY <1>2, <1>14, FollowsOn

LEMMA AddFollows ==
  ASSUME NEW b \in BOOLEAN, NEW d, DepthOK(d), NEW p \in Price, NEW q \in Int
  PROVE  Follows(d, AddOrder(b, d, p, q))
<1> DEFINE k == PlaceFor(b, d, p)
           made == CASE d.slot[k].price = p -> d
                     [] d.slot[k].price = INVALID -> [d EXCEPT !.slot[k] = Level(p, 0, 0)]
                     [] OTHER -> InsertedBefore(d, k, p)
           beyond == IF p \in DOMAIN d.excess THEN d.excess[p] ELSE Level(p, 0, 0)
<1>1. AddOrder(b, d, p, q) = IF k = 0 THEN SetExcess(d, p, More(beyond, q))
                             ELSE Stamp([made EXCEPT !.slot[k] = More(@, q)], {k})
  BY DEF AddOrder
<1>2. p # INVALID /\ p \in Price \cup {INVALID} /\ Level(p, 0, 0) \in AnyLevel
  BY PriceAssumption, LevelIs DEF INVALID
<1>3. CASE k = 0
  <2>1. beyond \in AnyLevel /\ beyond.price = p
    BY <1>2, LevelIs DEF DepthOK
  <2> HIDE DEF beyond
  <2>2. More(beyond, q) = Level(p, beyond.qty + q, beyond.count + 1)
    BY <2>1, MoreIs
  <2>3. beyond.qty + q \in Int /\ beyond.count + 1 \in Nat /\ beyond.count + 1 # 0
    BY <2>1 DEF AnyLevel
  <2>4. /\ More(beyond, q) \in AnyLevel /\ More(beyond, q).price = p
        /\ More(beyond, q).count # 0
    BY <1>2, <2>2, <2>3, LevelIs
  <2>5. Follows(d, SetExcess(d, p, More(beyond, q)))
    BY <2>4, ExcessSet
  <2>6. QED
    BY <1>1, <1>3, <2>5
<1>4. CASE k # 0
  <2>1. k \in 1 .. Size /\ k < Size /\ \A j \in 1 .. k - 1 : Used(d, j)
    BY <1>4, PlaceIs
  <2>2. AddOrder(b, d, p, q) = Stamp([made EXCEPT !.slot[k] = More(@, q)], {k})
    BY <1>1, <1>4
  <2> HIDE DEF k
  <2>3. d.slot[k] \in AnyLevel /\ d.slot \in [1 .. Size -> AnyLevel]
    BY <2>1 DEF DepthOK
  <2>4. CASE d.slot[k].price = p
    <3> DEFINE l == More(d.slot[k], q)
    <3>1. l = Level(p, d.slot[k].qty + q, d.slot[k].count + 1)
      BY <2>3, <2>4, MoreIs
    <3>2. d.slot[k].qty + q \in Int /\ d.slot[k].count + 1 \in Nat /\ d.slot[k].count + 1 # 0
      BY <2>3 DEF AnyLevel
    <3>3. l \in AnyLevel /\ l.price = p /\ l.count # 0
      BY <1>2, <3>1, <3>2, LevelIs
    <3>4. made = d
      BY <1>2, <2>4
    <3>5. AddOrder(b, d, p, q) = Stamp([d EXCEPT !.slot[k] = l], {k})
      BY <2>2, <3>4
    <3> HIDE DEF l
    <3>6. QED
      BY <1>2, <2>1, <2>4, <3>3, <3>5, SlotSet DEF Used
  <2>5. CASE d.slot[k].price = INVALID
    <3> DEFINE l == Level(p, q, 1)
    <3>1. l \in AnyLevel /\ l.price = p /\ l.count # 0
      BY <1>2, LevelIs
    <3>2. l = More(Level(p, 0, 0), q)
      <4>1. /\ Level(p, 0, 0).price = p /\ Level(p, 0, 0).qty + q = q
            /\ Level(p, 0, 0).count + 1 = 1
        BY LevelIs
      <4>2. QED
        BY <1>2, <4>1, MoreIs
    <3>3. made = [d EXCEPT !.slot[k] = Level(p, 0, 0)]
      BY <1>2, <2>5
    <3>4. [made EXCEPT !.slot[k] = More(@, q)] = [d EXCEPT !.slot[k] = l]
      <4> DEFINE s == [d.slot EXCEPT ![k] = Level(p, 0, 0)]
                 t == [d.slot EXCEPT ![k] = l]
      <4>1. made = [d EXCEPT !.slot = s]
        BY <3>3
      <4>2. [d EXCEPT !.slot[k] = l] = [d EXCEPT !.slot = t]
        OBVIOUS
      <4>3. s[k] = Level(p, 0, 0) /\ DOMAIN s = 1 .. Size
        BY <2>1, <2>3
      <4>4. [s EXCEPT ![k] = More(s[k], q)] = t
        BY <2>1, <2>3, <3>2, <4>3
      <4> HIDE DEF s, t, made, l
      <4>5. made = [slot |-> s, excess |-> d.excess, stamped |-> d.stamped, threw |-> d.threw]
        BY <4>1 DEF DepthOK
      <4>6. made.slot = s
        BY <4>5
      <4>7. [made EXCEPT !.slot[k] = More(@, q)]
              = [made EXCEPT !.slot = [s EXCEPT ![k] = More(s[k], q)]]
        BY <4>6
      <4>8. [made EXCEPT !.slot = t]
              = [slot |-> t, excess |-> d.excess, stamped |-> d.stamped, threw |-> d.threw]
        BY <4>5
      <4>9. [d EXCEPT !.slot = t]
              = [slot |-> t, excess |-> d.excess, stamped |-> d.stamped, threw |-> d.threw]
        BY DEF DepthOK
      <4>10. QED
        BY <4>2, <4>4, <4>7, <4>8, <4>9
    <3>5. AddOrder(b, d, p, q) = Stamp([d EXCEPT !.slot[k] = l], {k})
      BY <2>2, <3>4
    <3>6. k = 1 \/ Used(d, k - 1)
      BY <2>1
    <3> HIDE DEF l
    <3>7. QED
      BY <1>2, <2>1, <3>1, <3>5, <3>6, SlotSet
  <2>6. CASE d.slot[k].price # p /\ d.slot[k].price # INVALID
    <3>1. made = InsertedBefore(d, k, p)
      BY <2>6
    <3>2. \A j \in 1 .. k : Used(d, j)
      BY <2>1, <2>6 DEF Used
    <3>3. AddOrder(b, d, p, q)
            = Stamp([InsertedBefore(d, k, p) EXCEPT !.slot[k] = More(@, q)], {k})
      BY <2>2, <3>1
    <3>4. QED
      BY <2>1, <3>2, <3>3, InsertFollows
  <2>7. QED
    BY <2>4, <2>5, <2>6
<1>5. QED
  BY <1>3, <1>4
-----------------------------------------------------------------------------
LEMMA UsedBelow ==
  ASSUME NEW d, DepthOK(d), NEW k \in 1 .. Size, Used(d, k)
  PROVE  \A j \in 1 .. k : Used(d, j)
<1> DEFINE Free == {n \in 0 .. k - 1 : ~Used(d, k - n)}
<1>1. SUFFICES ASSUME NEW j \in 1 .. k, ~Used(d, j) PROVE FALSE
  OBVIOUS
<1>2. k - j \in Free
  <2>1. k - (k - j) = j /\ k - j \in 0 .. k - 1
    BY SizeAssumption
  <2>2. QED
    BY <1>1, <2>1
<1>3. Free \in SUBSET Nat
  BY SizeAssumption
<1>4. PICK n \in Free : \A m \in Free : n <= m
  BY <1>2, <1>3, LeastNat
<1>5. n # 0
  <2>1. k - 0 = k
    BY SizeAssumption
  <2>2. QED
    BY <1>4, <2>1
<1>6. n - 1 \in 0 .. k - 1 /\ n - 1 \notin Free
  BY <1>3, <1>4, <1>5, SizeAssumption
<1>7. k - (n - 1) \in 2 .. Size /\ k - (n - 1) - 1 = k - n
  BY <1>4, <1>5, SizeAssumption
<1>8. Used(d, k - (n - 1))
  BY <1>6
<1>9. Used(d, k - (n - 1) - 1)
  <2> DEFINE m == k - (n - 1)
  <2>1. m \in 2 .. Size /\ Used(d, m)
    BY <1>7, <1>8
  <2> HIDE DEF m
  <2>2. Used(d, m - 1)
    BY <2>1 DEF DepthOK
  <2>3. QED
    BY <2>2 DEF m
<1>10. QED
  BY <1>4, <1>7, <1>9

(* The levels from k on move up, and the last slot takes the level l. *)
MovesOf(d, k) == {j \in k .. Last - 1 : j = k \/ Used(d, j)}
Refill(d, k) == k = Last \/ Used(d, Last)
Stamps(d, k) == MovesOf(d, k) \cup (IF Refill(d, k) THEN {Last} ELSE {})
MovedUp(d, k, l) ==
  [j \in 1 .. Size |-> IF j \in MovesOf(d, k) THEN d.slot[j + 1]
                       ELSE IF j = Last /\ Refill(d, k) THEN l ELSE d.slot[j]]

LEMMA MovedUpFollows ==
  ASSUME NEW d, DepthOK(d), NEW k \in 1 .. Size, Used(d, k),
         NEW l \in AnyLevel, l.price = INVALID <=> l.count = 0
  PROVE  Follows(d, [slot |-> MovedUp(d, k, l), excess |-> d.excess,
                     stamped |-> d.stamped \cup Stamps(d, k), threw |-> d.threw])
<1> DEFINE moves == MovesOf(d, k)
           refill == Refill(d, k)
           st == Stamps(d, k)
           s == MovedUp(d, k, l)
           e == [slot |-> s, excess |-> d.excess,
                 stamped |-> d.stamped \cup Stamps(d, k), threw |-> d.threw]
<1>1. \A j \in moves : j \in 1 .. Size /\ j + 1 \in 2 .. Size /\ j # Last /\ j >= k
  BY SizeAssumption DEF Last, MovesOf
<1>2. /\ \A j \in moves : s[j] = d.slot[j + 1]
      /\ \A j \in (1 .. Size) \ moves : s[j] = IF j = Last /\ refill THEN l ELSE d.slot[j]
      /\ Last = Size /\ Size \in Nat
  BY <1>1, SizeAssumption DEF Last, MovedUp
<1> HIDE DEF s
<1>3. ASSUME NEW j \in 1 .. Size
      PROVE  s[j] \in AnyLevel /\ (s[j].price = INVALID <=> s[j].count = 0)
  <2>1. CASE j \in moves
    BY <1>1, <1>2, <2>1 DEF DepthOK
  <2>2. CASE j \notin moves /\ j = Last /\ refill
    BY <1>2, <2>2
  <2>3. CASE j \notin moves /\ ~(j = Last /\ refill)
    BY <1>2, <2>3 DEF DepthOK
  <2>4. QED
    BY <2>1, <2>2, <2>3
<1>4. s \in [1 .. Size -> AnyLevel]
  <2>1. s = [j \in 1 .. Size |-> s[j]]
    BY DEF MovedUp, s
  <2>2. QED
    BY <1>3, <2>1
<1>5. \A j \in 1 .. k : Used(d, j)
  BY UsedBelow
<1>6. ASSUME refill PROVE \A j \in 1 .. Size : Used(d, j)
  <2>1. Used(d, Last) /\ Last \in 1 .. Size
    <3>1. CASE k = Last
      BY <1>2, <3>1
    <3>2. CASE k # Last
      BY <1>2, <1>6, <3>2, SizeAssumption DEF Refill
    <3>3. QED
      BY <3>1, <3>2
  <2>2. \A j \in 1 .. Last : Used(d, j)
    BY <2>1, UsedBelow
  <2>3. QED
    BY <1>2, <2>2
<1>7. ASSUME NEW j \in 2 .. Size, s[j].price # INVALID PROVE s[j - 1].price # INVALID
  <2>1. j - 1 \in 1 .. Size /\ j - 1 + 1 = j /\ (j \in moves => j + 1 - 1 = j)
    BY SizeAssumption
  <2>2. Used(d, j) \/ j = Last
    <3>1. CASE j \in moves
      <4> DEFINE i == j + 1
      <4>1. i \in 2 .. Size /\ Used(d, i) /\ i - 1 = j
        BY <1>1, <1>2, <1>7, <2>1, <3>1 DEF Used
      <4> HIDE DEF i
      <4>2. QED
        BY <4>1 DEF DepthOK
    <3>2. CASE j \notin moves
      BY <1>2, <1>7, <3>2 DEF Used
    <3>3. QED
      BY <3>1, <3>2
  <2>3. CASE refill
    <3>1. \A i \in 1 .. Size : d.slot[i].price # INVALID
      BY <1>6, <2>3 DEF Used
    <3>2. CASE j - 1 \in moves
      <4>1. s[j - 1] = d.slot[j]
        BY <1>2, <2>1, <3>2
      <4>2. QED
        BY <3>1, <4>1
    <3>3. CASE j - 1 \notin moves
      <4>1. j - 1 # Last
        BY <1>2
      <4>2. QED
        BY <1>2, <2>1, <3>1, <3>3, <4>1
    <3>4. QED
      BY <3>2, <3>3
  <2>4. CASE ~refill
    <3>1. Used(d, j)
      <4>1. CASE j \in moves
        BY <1>1, <2>2, <4>1
      <4>2. CASE j \notin moves
        BY <1>2, <1>7, <2>4, <4>2 DEF Used
      <4>3. QED
        BY <4>1, <4>2
    <3>2. Used(d, j - 1)
      BY <3>1 DEF DepthOK
    <3>3. CASE j - 1 \in moves
      BY <1>2, <2>1, <3>1, <3>3 DEF Used
    <3>4. CASE j - 1 \notin moves
      BY <1>2, <2>1, <2>4, <3>2, <3>4 DEF Used
    <3>5. QED
      BY <3>3, <3>4
  <2>5. QED
    BY <2>3, <2>4
<1>8. \A j \in 1 .. Size : s[j] # d.slot[j] => j \in st
  BY <1>2 DEF Stamps
<1>9. e = [slot |-> s, excess |-> d.excess, stamped |-> d.stamped \cup st, threw |-> d.threw]
  OBVIOUS
<1> HIDE DEF st, e
<1>10. \A j \in 1 .. Size : s[j].price = INVALID <=> s[j].count = 0
  BY <1>3
<1>11. \A j \in 1 .. Size : s[j] # d.slot[j] /\ (s[j].price # INVALID \/ Used(d, j)) => j \in st
  BY <1>8
<1>12. \A j \in 2 .. Size : s[j].price # INVALID => s[j - 1].price # INVALID
  BY <1>7
<1>13. Follows(d, e)
  BY <1>4, <1>9, <1>10, <1>11, <1>12, SlotsSet
<1>14. QED
  BY <1>13 DEF e, s

LEMMA ErasedFollows ==
  ASSUME NEW b \in BOOLEAN, NEW d, DepthOK(d), NEW k \in 1 .. Size, Used(d, k)
  PROVE  Follows(d, ErasedSlot(b, d, k))
<1> DEFINE moves == {j \in k .. Last - 1 : j = k \/ d.slot[j].price # INVALID}
           u == [j \in 1 .. Size |-> IF j \in moves THEN d.slot[j + 1] ELSE d.slot[j]]
           up == [d EXCEPT !.slot = u]
           refill == k = Last \/ d.slot[Last].price # INVALID
           best == BestExcess(b, d)
           c == CASE ~refill -> up
                  [] refill /\ DOMAIN d.excess = {} -> [up EXCEPT !.slot[Last] = NoLevel]
                  [] OTHER -> DropExcess([up EXCEPT !.slot[Last] = d.excess[best]], best)
           st == moves \cup (IF refill THEN {Last} ELSE {})
           e(l) == [slot |-> MovedUp(d, k, l), excess |-> d.excess,
                    stamped |-> d.stamped \cup Stamps(d, k), threw |-> d.threw]
           f(l) == [slot |-> MovedUp(d, k, l), excess |-> d.excess,
                    stamped |-> d.stamped, threw |-> d.threw]
<1>1. ErasedSlot(b, d, k) = Stamp(c, st)
  BY DEF ErasedSlot
<1>2. moves = MovesOf(d, k) /\ (refill <=> Refill(d, k)) /\ st = Stamps(d, k)
  BY DEF MovesOf, Refill, Stamps, Used
<1>3. /\ Last \in 1 .. Size /\ Last \notin MovesOf(d, k)
  BY SizeAssumption DEF Last, MovesOf
<1> HIDE DEF st, moves
<1>4. up = [slot |-> u, excess |-> d.excess, stamped |-> d.stamped, threw |-> d.threw]
  <2> HIDE DEF u
  <2>1. QED
    BY DEF DepthOK
<1>5. NoLevel \in AnyLevel /\ NoLevel.price = INVALID /\ NoLevel.count = 0
  BY LevelIs DEF NoLevel
<1>6. ~refill => \A l : MovedUp(d, k, l) = u
  BY <1>2 DEF MovedUp
<1>7. refill => \A l : MovedUp(d, k, l) = [u EXCEPT ![Last] = l]
  BY <1>2, <1>3 DEF MovedUp
<1>8. \A l : Stamp(f(l), st) = e(l)
  BY <1>2 DEF Stamp
<1>9. refill => \A l : [up EXCEPT !.slot[Last] = l] = f(l)
  <2> HIDE DEF u, up
  <2>1. SUFFICES ASSUME refill, NEW l PROVE [up EXCEPT !.slot[Last] = l] = f(l)
    OBVIOUS
  <2> DEFINE v == [u EXCEPT ![Last] = l]
  <2>2. up.slot = u
    BY <1>4
  <2>3. [up EXCEPT !.slot[Last] = l] = [up EXCEPT !.slot = v]
    BY <2>2
  <2>4. MovedUp(d, k, l) = v
    BY <1>7, <2>1
  <2> HIDE DEF v
  <2>5. QED
    BY <1>4, <2>3, <2>4
<1> HIDE DEF up, u
<1>10. CASE ~refill
  <2>1. c = up
    BY <1>10
  <2>2. up = f(NoLevel)
    BY <1>4, <1>6, <1>10
  <2>3. Stamp(c, st) = e(NoLevel)
    BY <1>8, <2>1, <2>2
  <2>4. QED
    BY <1>1, <1>5, <2>3, MovedUpFollows
<1>11. CASE refill /\ DOMAIN d.excess = {}
  <2>1. c = [up EXCEPT !.slot[Last] = NoLevel]
    BY <1>11
  <2>2. Stamp(c, st) = e(NoLevel)
    BY <1>8, <1>9, <1>11, <2>1
  <2>3. QED
    BY <1>1, <1>5, <2>2, MovedUpFollows
<1>12. CASE refill /\ DOMAIN d.excess # {}
  <2> DEFINE l == d.excess[best]
  <2>1. best \in DOMAIN d.excess
    BY <1>12, BestIs
  <2>2. c = DropExcess([up EXCEPT !.slot[Last] = l], best)
    BY <1>12
  <2> HIDE DEF best
  <2>3. l \in AnyLevel /\ l.price = best /\ l.count # 0 /\ best # INVALID
    BY <2>1, PriceAssumption DEF DepthOK, INVALID
  <2>4. c = DropExcess(f(l), best)
    BY <1>9, <1>12, <2>2
  <2> HIDE DEF c
  <2>5. Stamp(c, st) = DropExcess(e(l), best)
    <3> DEFINE m == MovedUp(d, k, l)
               x == Restrict(d.excess, DOMAIN d.excess \ {best})
    <3>1. c = [slot |-> m, excess |-> x, stamped |-> d.stamped, threw |-> d.threw]
      BY <2>4 DEF DropExcess
    <3>2. DropExcess(e(l), best)
            = [slot |-> m, excess |-> x, stamped |-> d.stamped \cup Stamps(d, k),
               threw |-> d.threw]
      BY DEF DropExcess
    <3> HIDE DEF m, x
    <3>3. Stamp(c, st) = [slot |-> m, excess |-> x, stamped |-> d.stamped \cup st,
                          threw |-> d.threw]
      BY <3>1 DEF Stamp
    <3>4. QED
      BY <1>2, <3>2, <3>3
  <2>6. Follows(d, e(l))
    BY <2>3, MovedUpFollows
  <2> HIDE DEF e, l
  <2>7. Follows(e(l), DropExcess(e(l), best))
    BY <2>6, ExcessDropped DEF Follows
  <2>8. QED
    BY <1>1, <2>5, <2>6, <2>7, FollowsOn
<1>13. QED
  BY <1>10, <1>11, <1>12
-----------------------------------------------------------------------------
(* Where a level is found. *)
Where(d, p) == IF SlotOf(d, p) = 0 THEN Last ELSE SlotOf(d, p)
InExcess(d, p) == SlotOf(d, p) = 0 /\ p \in DOMAIN d.excess

LEMMA WhereIs ==
  ASSUME NEW d, DepthOK(d), NEW p
  PROVE  /\ Where(d, p) \in 1 .. Size /\ d.slot[Where(d, p)] \in AnyLevel
         /\ Used(d, Where(d, p)) <=> d.slot[Where(d, p)].count # 0
<1> DEFINE K == {k \in 1 .. Last - 1 : d.slot[k].price = p}
<1>1. K \in SUBSET (1 .. Size) /\ Last \in 1 .. Size
  BY SizeAssumption DEF Last
<1>2. SlotOf(d, p) = First(K)
  BY DEF SlotOf
<1>3. SlotOf(d, p) # 0 => SlotOf(d, p) \in 1 .. Size
  BY <1>1, <1>2, FirstIs
<1>4. Where(d, p) \in 1 .. Size
  BY <1>1, <1>3 DEF Where
<1>5. QED
  BY <1>4 DEF DepthOK, Used

LEMMA CloseFollows ==
  ASSUME NEW b \in BOOLEAN, NEW d, DepthOK(d), NEW p \in Price, NEW q \in Int
  PROVE  Follows(d, CloseOrder(b, d, p, q))
<1> DEFINE k == Where(d, p)
           in == InExcess(d, p)
           l == IF in THEN d.excess[p] ELSE d.slot[k]
<1>1. CloseOrder(b, d, p, q)
        = CASE l.count = 0 -> [d EXCEPT !.threw = TRUE]
            [] l.count = 1 -> IF in THEN DropExcess(d, p) ELSE ErasedSlot(b, d, k)
            [] OTHER -> IF in THEN SetExcess(d, p, Less(l, q))
                        ELSE Stamp([d EXCEPT !.slot[k] = Less(l, q)], {k})
  BY DEF CloseOrder, Where, InExcess
<1>2. k \in 1 .. Size /\ d.slot[k] \in AnyLevel /\ (Used(d, k) <=> d.slot[k].count # 0)
  BY WhereIs
<1>3. in => d.excess[p] \in AnyLevel /\ d.excess[p].price = p /\ d.excess[p].count # 0
  BY DEF DepthOK, InExcess
<1>4. p # INVALID
  BY PriceAssumption DEF INVALID
<1> HIDE DEF k, in
<1>5. l \in AnyLevel
  BY <1>2, <1>3
<1>6. CASE l.count = 0
  <2> DEFINE e == [d EXCEPT !.threw = TRUE]
  <2>1. PICK t : e = [slot |-> d.slot, excess |-> d.excess, stamped |-> d.stamped, threw |-> t]
    <3>1. \A t : [d EXCEPT !.threw = t]
                   = [slot |-> d.slot, excess |-> d.excess, stamped |-> d.stamped, threw |-> t]
      BY DEF DepthOK
    <3>2. QED
      BY <3>1
  <2> HIDE DEF e
  <2>2. e.slot = d.slot /\ e.excess = d.excess /\ e.stamped = d.stamped /\ e.threw = t
    BY <2>1
  <2>3. e = [slot |-> e.slot, excess |-> e.excess, stamped |-> e.stamped, threw |-> e.threw]
    BY <2>1, <2>2
  <2>4. DepthOK(e)
    BY <2>2, <2>3 DEF DepthOK, Used
  <2>5. StampedSince(d, e)
    BY <2>2 DEF StampedSince
  <2>6. CloseOrder(b, d, p, q) = e
    BY <1>1, <1>6 DEF e
  <2>7. QED
    BY <2>4, <2>5, <2>6 DEF Follows
<1>7. CASE l.count = 1
  <2>1. CASE in
    <3>1. CloseOrder(b, d, p, q) = DropExcess(d, p)
      BY <1>1, <1>7, <2>1
    <3>2. QED
      BY <3>1, ExcessDropped
  <2>2. CASE ~in
    <3>1. CloseOrder(b, d, p, q) = ErasedSlot(b, d, k)
      BY <1>1, <1>7, <2>2
    <3>2. Used(d, k)
      BY <1>2, <1>7, <2>2
    <3>3. QED
      BY <1>2, <3>1, <3>2, ErasedFollows
  <2>3. QED
    BY <2>1, <2>2
<1>8. CASE l.count # 0 /\ l.count # 1
  <2> DEFINE m == Less(l, q)
             x == IF l.qty >= q THEN l.qty - q ELSE l.qty
  <2>1. m = Level(l.price, x, l.count - 1)
    BY <1>5, LessIs
  <2>2. l.price \in Price \cup {INVALID} /\ l.qty \in Int /\ l.count \in Nat
    BY <1>5 DEF AnyLevel
  <2> HIDE DEF l
  <2>3. x \in Int /\ l.count - 1 \in Nat /\ l.count - 1 # 0
    BY <1>8, <2>2
  <2> HIDE DEF m, x
  <2>4. m \in AnyLevel /\ m.price = l.price /\ m.count # 0
    BY <2>1, <2>2, <2>3, LevelIs
  <2>5. CASE in
    <3>1. CloseOrder(b, d, p, q) = SetExcess(d, p, m)
      BY <1>1, <1>8, <2>5 DEF m
    <3>2. m.price = p
      BY <1>3, <2>4, <2>5 DEF l
    <3>3. QED
      BY <2>4, <3>1, <3>2, ExcessSet
  <2>6. CASE ~in
    <3>1. CloseOrder(b, d, p, q) = Stamp([d EXCEPT !.slot[k] = m], {k})
      BY <1>1, <1>8, <2>6 DEF m
    <3>2. Used(d, k) /\ m.price # INVALID
      BY <1>2, <1>8, <2>4, <2>6 DEF Used, l
    <3>3. QED
      BY <1>2, <2>4, <3>1, <3>2, SlotSet
  <2>7. QED
    BY <2>5, <2>6
<1>9. QED
  BY <1>6, <1>7, <1>8

LEMMA ChangeFollows ==
  ASSUME NEW d, DepthOK(d), NEW p \in Price, NEW q \in Int
  PROVE  Follows(d, ChangeQty(d, p, q))
<1> DEFINE k == Where(d, p)
           in == InExcess(d, p)
<1>1. ChangeQty(d, p, q)
        = CASE q = 0 -> d
            [] q # 0 /\ in -> [d EXCEPT !.excess[p].qty = @ + q]
            [] OTHER -> Stamp([d EXCEPT !.slot[k].qty = @ + q], {k})
  BY DEF ChangeQty, Where, InExcess
<1>2. k \in 1 .. Size /\ d.slot[k] \in AnyLevel /\ (Used(d, k) <=> d.slot[k].count # 0)
  BY WhereIs
<1>3. ASSUME in
      PROVE  /\ d.excess[p] \in AnyLevel /\ d.excess[p].price = p /\ d.excess[p].count # 0
             /\ p \in DOMAIN d.excess
  BY <1>3 DEF DepthOK, InExcess
<1> HIDE DEF k, in
<1>4. ASSUME NEW l \in AnyLevel
      PROVE  /\ [l EXCEPT !.qty = @ + q] \in AnyLevel
             /\ [l EXCEPT !.qty = @ + q].price = l.price
             /\ [l EXCEPT !.qty = @ + q].count = l.count
  <2>1. PICK r \in Price \cup {INVALID}, n \in Int, c \in Nat :
          l = [price |-> r, qty |-> n, count |-> c]
    BY DEF AnyLevel
  <2>2. [l EXCEPT !.qty = @ + q] = [price |-> r, qty |-> n + q, count |-> c]
    BY <2>1
  <2>3. n + q \in Int
    OBVIOUS
  <2>4. QED
    BY <2>1, <2>2, <2>3 DEF AnyLevel
<1>5. CASE q = 0
  <2>1. ChangeQty(d, p, q) = d
    BY <1>1, <1>5
  <2>2. QED
    BY <2>1 DEF Follows, StampedSince
<1>6. CASE q # 0 /\ in
  <2> DEFINE l == [d.excess[p] EXCEPT !.qty = @ + q]
             x == [d.excess EXCEPT ![p] = l]
             y == [r \in DOMAIN d.excess \cup {p} |-> IF r = p THEN l ELSE d.excess[r]]
  <2>1. ChangeQty(d, p, q) = [d EXCEPT !.excess = x]
    BY <1>1, <1>6
  <2>2. x = y
    <3> HIDE DEF l
    <3>1. DOMAIN d.excess \cup {p} = DOMAIN d.excess
      BY <1>3, <1>6
    <3>2. \A r \in DOMAIN d.excess : x[r] = y[r]
      OBVIOUS
    <3>3. x = [r \in DOMAIN d.excess |-> x[r]]
      OBVIOUS
    <3>4. QED
      BY <3>1
  <2>3. SetExcess(d, p, l) = [d EXCEPT !.excess = y]
    BY DEF SetExcess
  <2>4. l \in AnyLevel /\ l.price = p /\ l.count # 0
    BY <1>3, <1>4, <1>6
  <2> HIDE DEF l, x, y
  <2>5. ChangeQty(d, p, q) = SetExcess(d, p, l)
    BY <2>1, <2>2, <2>3
  <2>6. QED
    BY <2>4, <2>5, ExcessSet
<1>7. CASE q # 0 /\ ~in
  <2> DEFINE l == [d.slot[k] EXCEPT !.qty = @ + q]
  <2>1. ChangeQty(d, p, q) = Stamp([d EXCEPT !.slot[k] = l], {k})
    BY <1>1, <1>7
  <2>2. l \in AnyLevel /\ l.price = d.slot[k].price /\ l.count = d.slot[k].count
    BY <1>2, <1>4
  <2> HIDE DEF l
  <2>3. /\ l.price = INVALID <=> l.count = 0
        /\ \/ l.price = INVALID /\ ~Used(d, k)
           \/ l.price # INVALID /\ Used(d, k)
    BY <1>2, <2>2 DEF Used
  <2>4. QED
    BY <1>2, <2>1, <2>2, <2>3, SlotSet
<1>8. QED
  BY <1>5, <1>6, <1>7

LEMMA ReplaceFollows ==
  ASSUME NEW b \in BOOLEAN, NEW d, DepthOK(d), NEW p \in Price, NEW r \in Price,
         NEW n \in Int, NEW q \in Int
  PROVE  Follows(d, ReplaceOrder(b, d, p, r, n, q))
<1>1. CASE p = r
  BY <1>1, ChangeFollows DEF ReplaceOrder
<1>2. CASE p # r
  <2>1. Follows(d, AddOrder(b, d, r, q))
    BY AddFollows
  <2>2. Follows(AddOrder(b, d, r, q), CloseOrder(b, AddOrder(b, d, r, q), p, n))
    BY <2>1, CloseFollows DEF Follows
  <2>3. Follows(d, CloseOrder(b, AddOrder(b, d, r, q), p, n))
    BY <2>1, <2>2, FollowsOn
  <2>4. QED
    BY <1>2, <2>3 DEF ReplaceOrder
<1>3. QED
  BY <1>1, <1>2
-----------------------------------------------------------------------------
AnyKeeper == [oprice : Price, oqty : Quantity, open : Nat, price : Price]

(* The depth is as the calls leave it, and the keepers have prices and      *)
(* quantities to give to the next call.                                     *)
KeepersOK ==
  /\ DOMAIN keeper \subseteq OrderId
  /\ \A i \in DOMAIN keeper : keeper[i] \in AnyKeeper
BookInv ==
  /\ bid \in BOOLEAN
  /\ DepthOK(depth)
  /\ KeepersOK
  /\ ret \in {"nothing", "added", "closed", "replaced", "threw"}
  /\ crashed \in BOOLEAN

LEMMA InitBook == Init => BookInv
<1> SUFFICES ASSUME Init PROVE BookInv
  OBVIOUS
<1>1. depth = [slot |-> [k \in 1 .. Size |-> NoLevel], excess |-> [p \in {} |-> NoLevel],
               stamped |-> {}, threw |-> FALSE]
  BY DEF Init, NewDepth
<1>2. /\ depth.slot = [k \in 1 .. Size |-> NoLevel] /\ depth.excess = [p \in {} |-> NoLevel]
      /\ depth = [slot |-> depth.slot, excess |-> depth.excess, stamped |-> depth.stamped,
                  threw |-> depth.threw]
  BY <1>1
<1>3. NoLevel \in AnyLevel /\ NoLevel.price = INVALID /\ NoLevel.count = 0
  BY LevelIs DEF NoLevel
<1>4. IsFiniteSet(DOMAIN depth.excess)
  BY <1>2, FS_EmptySet
<1>5. \A k \in 2 .. Size : ~Used(depth, k)
  BY <1>2, <1>3 DEF Used
<1>6. DOMAIN depth.excess = {} /\ depth.excess = [p \in DOMAIN depth.excess |-> depth.excess[p]]
  BY <1>2
<1>7. depth.slot \in [1 .. Size -> AnyLevel]
      /\ \A k \in 1 .. Size : depth.slot[k].price = INVALID <=> depth.slot[k].count = 0
  BY <1>2, <1>3
<1>8. DepthOK(depth)
  BY <1>2, <1>4, <1>5, <1>6, <1>7 DEF DepthOK
<1>9. KeepersOK
  BY DEF Init, KeepersOK
<1>10. QED
  BY <1>8, <1>9 DEF Init, BookInv

LEMMA RestedIs ==
  ASSUME DepthOK(depth)
  PROVE  DepthOK(Rested) /\ Rested.slot = depth.slot
<1>1. PICK t : Rested = [slot |-> depth.slot, excess |-> depth.excess, stamped |-> {}, threw |-> t]
  <2> DEFINE e(t) == [depth EXCEPT !.stamped = {}, !.threw = t]
  <2>1. \A t : /\ DOMAIN e(t) = {"slot", "excess", "stamped", "threw"}
               /\ e(t).slot = depth.slot /\ e(t).excess = depth.excess
               /\ e(t).stamped = {} /\ e(t).threw = t
    BY DEF DepthOK
  <2>2. \A t : e(t) = [f \in DOMAIN e(t) |-> e(t)[f]]
    OBVIOUS
  <2>3. Rested = e(FALSE)
    BY DEF Rested, Fresh
  <2> HIDE DEF e
  <2>4. \A t : e(t) = [slot |-> depth.slot, excess |-> depth.excess, stamped |-> {}, threw |-> t]
    BY <2>1, <2>2
  <2>5. QED
    BY <2>3, <2>4
<1>2. /\ Rested.slot = depth.slot /\ Rested.excess = depth.excess /\ Rested.stamped = {}
      /\ Rested.threw = t
  BY <1>1
<1>3. Rested = [slot |-> Rested.slot, excess |-> Rested.excess, stamped |-> Rested.stamped,
                threw |-> Rested.threw]
  BY <1>1, <1>2
<1> HIDE DEF Rested
<1>4. DepthOK(Rested)
  BY <1>2, <1>3 DEF DepthOK, Used
<1>5. QED
  BY <1>2, <1>4

(* A call of which the depth and the keepers are what a call may leave. *)
Left == Follows(Rested, depth') /\ KeepersOK'

LEMMA CallLeaves ==
  ASSUME BookInv, NEW does \in {"nothing", "added", "closed", "replaced", "threw"}, NEW d, NEW ks,
         Call(does, d, ks), Follows(Rested, d), crashed' \in BOOLEAN,
         DOMAIN ks \subseteq OrderId, \A i \in DOMAIN ks : ks[i] \in AnyKeeper
  PROVE  Left /\ BookInv'
<1>1. depth' = d /\ keeper' = ks /\ ret' = (IF d.threw THEN "threw" ELSE does) /\ bid' = bid
  BY DEF Call
<1>2. KeepersOK'
  BY <1>1 DEF KeepersOK
<1>3. Follows(Rested, depth') /\ DepthOK(depth)'
  BY <1>1 DEF Follows
<1>4. ret' \in {"nothing", "added", "closed", "replaced", "threw"}
  BY <1>1
<1>5. QED
  BY <1>1, <1>2, <1>3, <1>4 DEF Left, BookInv

LEMMA NothingFollows == ASSUME NEW d, DepthOK(d) PROVE Follows(d, d)
  BY DEF Follows, StampedSince

LEMMA QuantityIsInt == Quantity \subseteq Int
  BY QuantityAssumption

LEMMA KeptIs ==
  ASSUME NEW k \in AnyKeeper
  PROVE  k.price \in Price /\ k.oprice \in Price /\ k.open \in Int /\ k.oqty \in Int
<1>1. k.price \in Price /\ k.oprice \in Price /\ k.open \in Nat /\ k.oqty \in Quantity
  BY DEF AnyKeeper
<1>2. k.oqty \in Int
  BY <1>1, QuantityIsInt, Zenon
<1>3. QED
  BY <1>1, <1>2

LEMMA KeeperIs ==
  ASSUME NEW o \in Order
  PROVE  Keeper(o) \in AnyKeeper /\ o.id \in OrderId /\ o.price \in Price /\ o.qty \in Int
<1>1. o.id \in OrderId /\ o.price \in Price /\ o.qty \in Quantity
  BY DEF Order
<1>2. o.qty \in Nat
  BY <1>1, QuantityAssumption
<1>3. QED
  BY <1>1, <1>2 DEF Keeper, AnyKeeper

LEMMA AddNewLeaves ==
  ASSUME BookInv, NEW o \in Order, AddNew(o)
  PROVE  Left /\ BookInv'
<1> DEFINE ks == [i \in DOMAIN keeper \cup {o.id} |->
                    IF Known(i) THEN keeper[i] ELSE Keeper(o)]
<1>1. DepthOK(Rested) /\ bid \in BOOLEAN /\ crashed' \in BOOLEAN
  BY RestedIs DEF BookInv, AddNew
<1>2. DOMAIN keeper \subseteq OrderId /\ \A i \in DOMAIN keeper : keeper[i] \in AnyKeeper
  BY DEF BookInv, KeepersOK
<1>3. CASE o.qty = 0
  <2>1. Call("threw", Rested, keeper)
    BY <1>3 DEF AddNew
  <2>2. QED
    BY <1>1, <1>2, <2>1, NothingFollows, CallLeaves
<1>4. CASE o.qty # 0
  <2>1. Call("added", AddOrder(bid, Rested, o.price, o.qty), ks)
    BY <1>4 DEF AddNew
  <2>2. DOMAIN ks \subseteq OrderId /\ \A i \in DOMAIN ks : ks[i] \in AnyKeeper
    BY <1>2, KeeperIs DEF Known
  <2>3. Follows(Rested, AddOrder(bid, Rested, o.price, o.qty))
    BY <1>1, KeeperIs, AddFollows
  <2> HIDE DEF ks
  <2>4. QED
    BY <1>1, <2>1, <2>2, <2>3, CallLeaves
<1>5. QED
  BY <1>3, <1>4

LEMMA ClosedFollows ==
  ASSUME BookInv, NEW i, Known(i)
  PROVE  Follows(Rested, Closed(i))
<1>1. keeper[i].oprice \in Price /\ keeper[i].oqty \in Int
  BY QuantityIsInt DEF BookInv, KeepersOK, AnyKeeper, Known
<1>2. DepthOK(Rested) /\ bid \in BOOLEAN
  BY RestedIs DEF BookInv
<1>3. QED
  BY <1>1, <1>2, CloseFollows DEF Closed

LEMMA CancelLeaves ==
  ASSUME BookInv, NEW i, CancelBuy(i) \/ CancelSell(i) \/ CancelUnknown(i)
  PROVE  Left /\ BookInv'
<1> DEFINE d == Closed(i)
           ks == IF d.threw THEN keeper ELSE Restrict(keeper, DOMAIN keeper \ {i})
<1>1. DepthOK(Rested)
  BY RestedIs DEF BookInv
<1>2. DOMAIN keeper \subseteq OrderId /\ \A j \in DOMAIN keeper : keeper[j] \in AnyKeeper
  BY DEF BookInv, KeepersOK
<1>3. CASE CancelBuy(i)
  <2>1. Known(i) /\ Call("closed", d, ks) /\ crashed' \in BOOLEAN
    BY <1>3 DEF CancelBuy, BookInv
  <2>2. DOMAIN ks \subseteq OrderId /\ \A j \in DOMAIN ks : ks[j] \in AnyKeeper
    BY <1>2 DEF Restrict
  <2>3. Follows(Rested, d)
    BY <2>1, ClosedFollows
  <2> HIDE DEF d, ks
  <2>4. QED
    BY <2>1, <2>2, <2>3, CallLeaves
<1>4. CASE CancelSell(i)
  <2>1. Known(i) /\ Call("closed", d, keeper) /\ crashed' \in BOOLEAN
    BY <1>4 DEF CancelSell
  <2>2. Follows(Rested, d)
    BY <2>1, ClosedFollows
  <2> HIDE DEF d
  <2>3. QED
    BY <1>2, <2>1, <2>2, CallLeaves
<1>5. CASE CancelUnknown(i)
  <2>1. Call("nothing", Rested, keeper) /\ crashed' \in BOOLEAN
    BY <1>5 DEF CancelUnknown, BookInv
  <2>2. QED
    BY <1>1, <1>2, <2>1, NothingFollows, CallLeaves
<1>6. QED
  BY <1>3, <1>4, <1>5

LEMMA ChangedIs ==
  ASSUME NEW k \in AnyKeeper, NEW delta \in Int, NEW p \in Price, ~Refused(k, delta)
  PROVE  Changed(k, delta, p) \in AnyKeeper
<1> DEFINE c == [k EXCEPT !.open = @ + delta, !.price = IF p = k.oprice THEN @ ELSE p]
<1>1. PICK f \in Price, n \in Quantity, m \in Nat, r \in Price :
        k = [oprice |-> f, oqty |-> n, open |-> m, price |-> r]
  BY DEF AnyKeeper
<1>2. k.oprice = f /\ k.oqty = n /\ k.open = m /\ k.price = r
  BY <1>1
<1>3. m + delta \in Nat
  BY <1>2 DEF Refused
<1>4. DOMAIN c = {"oprice", "oqty", "open", "price"}
  BY <1>1
<1>5. /\ c.oprice = f /\ c.oqty = n /\ c.open = m + delta
      /\ c.price = IF p = f THEN r ELSE p
  BY <1>1
<1>6. c = [x \in {"oprice", "oqty", "open", "price"} |-> c[x]]
  BY <1>4
<1>7. c = Changed(k, delta, p)
  BY DEF Changed
<1> HIDE DEF c
<1>8. c = [oprice |-> f, oqty |-> n, open |-> m + delta, price |-> IF p = f THEN r ELSE p]
  BY <1>5, <1>6
<1>9. f \in Price /\ n \in Quantity /\ (IF p = f THEN r ELSE p) \in Price
  BY <1>1
<1>10. QED
  BY <1>3, <1>7, <1>8, <1>9 DEF AnyKeeper

LEMMA ReplaceLeaves ==
  ASSUME BookInv, NEW o \in Order, Replace(o)
  PROVE  Left /\ BookInv'
<1> DEFINE k == keeper[o.id]
           d == Replaced(o, k)
           delta == k.oqty - o.qty
           fails == d.threw \/ Refused(k, delta)
           ks == IF fails THEN keeper ELSE [keeper EXCEPT ![o.id] = Changed(k, delta, o.price)]
           does == IF fails THEN "threw" ELSE "replaced"
<1>1. DepthOK(Rested) /\ bid \in BOOLEAN /\ crashed' \in BOOLEAN
  BY RestedIs DEF BookInv, Replace
<1>2. DOMAIN keeper \subseteq OrderId /\ \A i \in DOMAIN keeper : keeper[i] \in AnyKeeper
  BY DEF BookInv, KeepersOK
<1>3. Known(o.id) /\ Call(does, d, ks)
  BY DEF Replace
<1>4. o.id \in DOMAIN keeper /\ k \in AnyKeeper
  BY <1>2, <1>3 DEF Known
<1> HIDE DEF k
<1>5. k.price \in Price /\ k.oprice \in Price /\ k.open \in Int /\ k.oqty \in Int
  BY <1>4, KeptIs
<1>6. o.price \in Price /\ o.qty \in Int /\ delta \in Int
  BY <1>5, KeeperIs
<1>7. Follows(Rested, d)
  <2>1. CASE ~bid /\ o.price = k.oprice
    BY <1>1, <1>6, <2>1, ChangeFollows DEF Replaced
  <2>2. CASE ~(~bid /\ o.price = k.oprice)
    <3>1. d = ReplaceOrder(bid, Rested, k.price, o.price, k.open, o.qty)
      BY <2>2 DEF Replaced
    <3>2. QED
      BY <1>1, <1>5, <1>6, <3>1, ReplaceFollows
  <2>3. QED
    BY <2>1, <2>2
<1> HIDE DEF d, delta
<1>8. ~fails => Changed(k, delta, o.price) \in AnyKeeper
  BY <1>4, <1>6, ChangedIs
<1>9. DOMAIN ks \subseteq OrderId /\ \A i \in DOMAIN ks : ks[i] \in AnyKeeper
  BY <1>2, <1>4, <1>8
<1> HIDE DEF ks
<1>10. QED
  BY <1>1, <1>3, <1>7, <1>9, CallLeaves

LEMMA StepLeaves == ASSUME BookInv, Next PROVE Left /\ BookInv'
  BY AddNewLeaves, CancelLeaves, ReplaceLeaves DEF Next

LEMMA BookInvAlways == Spec => []BookInv
<1>1. BookInv /\ UNCHANGED vars => BookInv'
  BY DEF BookInv, KeepersOK, vars
<1>2. BookInv /\ [Next]_vars => BookInv'
  BY <1>1, StepLeaves
<1>3. QED
  BY <1>2, InitBook, PTL DEF Spec
-----------------------------------------------------------------------------
LEMMA LevelsOf ==
  ASSUME DepthOK(depth), NEW l \in Levels(depth)
  PROVE  l \in AnyLevel /\ (l.price = INVALID <=> l.count = 0)
<1>1. CASE \E k \in 1 .. Size : l = depth.slot[k]
  <2>1. PICK k \in 1 .. Size : l = depth.slot[k]
    BY <1>1
  <2>2. QED
    BY <2>1 DEF DepthOK
<1>2. CASE \E p \in DOMAIN depth.excess : l = depth.excess[p]
  <2>1. PICK p \in DOMAIN depth.excess : l = depth.excess[p]
    BY <1>2
  <2>2. l \in AnyLevel /\ l.price = p /\ l.count # 0 /\ p \in Price
    BY <2>1 DEF DepthOK
  <2>3. QED
    BY <2>2, PriceAssumption DEF INVALID
<1>3. QED
  BY <1>1, <1>2 DEF Levels, Range

(* Whatever the calls are, also one that throws halfway: the levels of the  *)
(* depth and the keepers keep their types (Depth.hpp, OrderBook.hpp).       *)
THEOREM TypeCorrect == Spec => []TypeOK
<1>1. BookInv => TypeOK
  <2> SUFFICES ASSUME BookInv PROVE TypeOK
    OBVIOUS
  <2>1. DepthOK(depth)
    BY DEF BookInv
  <2>2. \A l \in Levels(depth) : l.price \in Price \cup {INVALID} /\ l.count \in Nat
    BY <2>1, LevelsOf DEF AnyLevel
  <2>3. /\ DOMAIN depth.slot = 1 .. Size /\ DOMAIN depth.excess \subseteq Price
        /\ \A p \in DOMAIN depth.excess : depth.excess[p].price = p
    BY <2>1 DEF DepthOK
  <2>4. \A i \in DOMAIN keeper :
          keeper[i].open \in Nat /\ {keeper[i].price, keeper[i].oprice} \subseteq Price
    BY DEF BookInv, KeepersOK, AnyKeeper
  <2>5. QED
    BY <2>2, <2>3, <2>4 DEF TypeOK, BookInv, KeepersOK
<1>2. QED
  BY <1>1, BookInvAlways, PTL

(* However levels are shifted between the slots and the excess map, and     *)
(* whatever is closed at a price it is no longer at (insert_level_before    *)
(* and erase_level of Depth.hpp): the slots are used from the first on, and *)
(* exactly the levels that have orders have a price.                        *)
THEOREM LevelsAlwaysHaveOrders == Spec => []LevelsHaveOrders
<1>1. BookInv => LevelsHaveOrders
  <2> SUFFICES ASSUME BookInv PROVE LevelsHaveOrders
    OBVIOUS
  <2>1. DepthOK(depth)
    BY DEF BookInv
  <2>2. \A l \in Levels(depth) : l.price = INVALID <=> l.count = 0
    BY <2>1, LevelsOf
  <2>3. QED
    BY <2>1, <2>2 DEF LevelsHaveOrders, DepthOK
<1>2. QED
  BY <1>1, BookInvAlways, PTL

(* A reader of the change ids (Depth.hpp:69) misses no slot: what shows     *)
(* something else after a call has a new one, after a call of two halves,   *)
(* of which the second threw, too.                                          *)
THEOREM ChangesAlwaysStamped == Spec => ChangesAreStamped
<1> DEFINE Stamped == \A k \in 1 .. Size :
                        depth'.slot[k] # depth.slot[k] /\ (Used(depth, k) \/ Used(depth', k))
                        => k \in depth'.stamped
<1>1. ASSUME BookInv, Next PROVE Stamped
  <2>1. Follows(Rested, depth') /\ Rested.slot = depth.slot
    BY <1>1, StepLeaves, RestedIs DEF Left, BookInv
  <2>2. QED
    BY <2>1 DEF Follows, StampedSince, Used
<1>2. ASSUME UNCHANGED vars PROVE [Stamped]_vars
  BY <1>2
<1>3. BookInv /\ [Next]_vars => [Stamped]_vars
  BY <1>1, <1>2
<1>4. QED
  BY <1>3, BookInvAlways, PTL DEF Spec, ChangesAreStamped
==============================================================================
