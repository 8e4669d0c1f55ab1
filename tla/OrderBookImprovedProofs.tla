----------------------- MODULE OrderBookImprovedProofs -----------------------
(***************************************************************************)
(* For any ids, prices, quantities and number of orders: the types, the    *)
(* validity of the iterators, the step by step refinement of LiveOrders,   *)
(* what one call may not do, and what the printed levels show.             *)
(***************************************************************************)
EXTENDS OrderBookImproved, FiniteSetTheorems, WellFoundedInduction, TLAPS

(* The invariant of one side, T its multimap and H its hash. The calls that *)
(* change both are shown to keep it as operations on T and H.               *)
SideInv(T, H) ==
  /\ DOMAIN T \subseteq Node /\ T \in [DOMAIN T -> Order]
  /\ DOMAIN H \subseteq OrderId /\ H \in [DOMAIN H -> Node]
  /\ \A i \in DOMAIN H : H[i] \in DOMAIN T /\ T[H[i]].id = i

BookInv ==
  /\ tree = [s \in Side |-> tree[s]] /\ hash = [s \in Side |-> hash[s]]
  /\ \A s \in Side : SideInv(tree[s], hash[s])
  /\ threw \in BOOLEAN

LEMMA MessageIsOrder == Message \subseteq Order
  BY QuantityAssumption DEF Message, Order

LEMMA NoOrderUnknown == ASSUME BookInv, NEW s \in Side PROVE ~Known(s, NoOrder)
  BY NoOrderAssumption DEF BookInv, SideInv, Known

(* emplace in the multimap alone: the refused 'N'.                          *)
LEMMA InsertNode ==
  ASSUME NEW T, NEW H, SideInv(T, H), NEW n \in Node \ DOMAIN T, NEW o \in Order
  PROVE  SideInv(Put(T, n, o), H)
  BY DEF SideInv, Put

(* emplace in the multimap and in the hash: 'N', and 'M' to another price.  *)
LEMMA InsertOrder ==
  ASSUME NEW T, NEW H, SideInv(T, H), NEW n \in Node \ DOMAIN T, NEW o \in Order,
         \A i \in DOMAIN H : i # o.id
  PROVE  SideInv(Put(T, n, o), Put(H, o.id, n))
<1>1. o.id \in OrderId
  BY DEF Order
<1>2. QED
  BY <1>1 DEF SideInv, Put

LEMMA DropOrder ==
  ASSUME NEW T, NEW H, SideInv(T, H), NEW i \in DOMAIN H
  PROVE  SideInv(Drop(T, H[i]), Drop(H, i))
  BY DEF SideInv, Drop, Restrict

(* erase of the old node and re-pointing of the hash entry. *)
LEMMA MoveOrder ==
  ASSUME NEW T, NEW H, SideInv(T, H), NEW o \in Order, o.id \in DOMAIN H,
         NEW n \in Node \ DOMAIN Drop(T, H[o.id])
  PROVE  SideInv(Put(Drop(T, H[o.id]), n, o), [H EXCEPT ![o.id] = n])
  BY DEF SideInv, Drop, Restrict, Put

LEMMA SetQtyInv ==
  ASSUME NEW T, NEW H, SideInv(T, H), NEW i \in DOMAIN H, NEW q \in Nat \ {0}
  PROVE  SideInv(SetQty(T, H[i], q), H)
<1>1. H[i] \in DOMAIN T /\ T[H[i]] \in Order
  BY DEF SideInv
<1>2. [T[H[i]] EXCEPT !.qty = q] \in Order /\ [T[H[i]] EXCEPT !.qty = q].id = T[H[i]].id
  BY <1>1 DEF Order
<1>3. SetQty(T, H[i], q) = [T EXCEPT ![H[i]] = [T[H[i]] EXCEPT !.qty = q]]
  BY <1>1 DEF SetQty
<1>4. QED
  BY <1>1, <1>2, <1>3 DEF SideInv
-----------------------------------------------------------------------------
LEMMA InitBookInv == Init => BookInv
  BY DEF Init, BookInv, SideInv, Side

(* What a call that changes only side s has to keep.                        *)
LEMMA OneSide ==
  ASSUME BookInv, NEW s \in Side, NEW T, NEW H, SideInv(T, H),
         tree' = [tree EXCEPT ![s] = T], hash' = [hash EXCEPT ![s] = H], threw' \in BOOLEAN
  PROVE  BookInv'
  BY DEF BookInv

LEMMA NewOrderInv ==
  ASSUME BookInv, NEW s \in Side, NEW o \in Order, NewOrder(s, o) PROVE BookInv'
<1>1. PICK n \in Node \ DOMAIN tree[s] :
        /\ tree' = [tree EXCEPT ![s] = Put(tree[s], n, o)]
        /\ hash' = IF Known(s, o.id) THEN hash ELSE [hash EXCEPT ![s] = Put(hash[s], o.id, n)]
        /\ threw' = Known(s, o.id)
  BY DEF NewOrder
<1>2. SideInv(tree[s], hash[s]) /\ hash = [hash EXCEPT ![s] = hash[s]]
  BY DEF BookInv
<1>3. CASE Known(s, o.id)
  <2>1. SideInv(Put(tree[s], n, o), hash[s])
    BY <1>2, InsertNode
  <2>2. hash' = [hash EXCEPT ![s] = hash[s]] /\ threw' \in BOOLEAN
    BY <1>1, <1>2, <1>3 DEF Known
  <2>3. QED
    BY <1>1, <2>1, <2>2, OneSide
<1>4. CASE ~Known(s, o.id)
  <2>1. SideInv(Put(tree[s], n, o), Put(hash[s], o.id, n))
    BY <1>2, <1>4, InsertOrder DEF Known
  <2>2. hash' = [hash EXCEPT ![s] = Put(hash[s], o.id, n)] /\ threw' \in BOOLEAN
    BY <1>1, <1>4 DEF Known
  <2>3. QED
    BY <1>1, <2>1, <2>2, OneSide
<1>5. QED
  BY <1>3, <1>4

LEMMA ModifyPriceInv ==
  ASSUME BookInv, NEW s \in Side, NEW o \in Order, ModifyPrice(s, o) PROVE BookInv'
<1>1. SideInv(tree[s], hash[s]) /\ o.id \in DOMAIN hash[s]
  BY DEF BookInv, ModifyPrice, Known
<1>2. PICK n \in Node \ DOMAIN Drop(tree[s], hash[s][o.id]) :
        /\ tree' = [tree EXCEPT ![s] = Put(Drop(tree[s], hash[s][o.id]), n, o)]
        /\ hash' = [hash EXCEPT ![s][o.id] = n]
  BY DEF ModifyPrice
<1>3. SideInv(Put(Drop(tree[s], hash[s][o.id]), n, o), [hash[s] EXCEPT ![o.id] = n])
  BY <1>1, MoveOrder
<1>4. hash' = [hash EXCEPT ![s] = [hash[s] EXCEPT ![o.id] = n]] /\ threw' \in BOOLEAN
  BY <1>2 DEF ModifyPrice
<1>5. QED
  BY <1>2, <1>3, <1>4, OneSide

LEMMA ModifyQtyInv ==
  ASSUME BookInv, NEW s \in Side, NEW o \in Order, ModifyQty(s, o) PROVE BookInv'
<1>1. SideInv(tree[s], hash[s]) /\ o.id \in DOMAIN hash[s] /\ o.qty \in Nat \ {0}
  BY DEF BookInv, ModifyQty, Known, Order
<1>2. SideInv(SetQty(tree[s], hash[s][o.id], o.qty), hash[s])
  BY <1>1, SetQtyInv
<1>3. /\ tree' = [tree EXCEPT ![s] = SetQty(tree[s], hash[s][o.id], o.qty)]
      /\ hash' = [hash EXCEPT ![s] = hash[s]] /\ threw' \in BOOLEAN
  BY DEF ModifyQty, BookInv
<1>4. QED
  BY <1>2, <1>3, OneSide

LEMMA CancelInv ==
  ASSUME BookInv, NEW s \in Side, NEW i \in OrderId, Cancel(s, i) PROVE BookInv'
<1>1. SideInv(tree[s], hash[s]) /\ i \in DOMAIN hash[s]
  BY DEF BookInv, Cancel, Known
<1>2. SideInv(Drop(tree[s], hash[s][i]), Drop(hash[s], i))
  BY <1>1, DropOrder
<1>3. QED
  BY <1>2, OneSide DEF Cancel

(* One leg of a trade keeps the invariant of its side, whether it reduces   *)
(* the order, fills it or refuses it.                                       *)
LEMMA LegInv ==
  ASSUME BookInv, NEW s \in Side, NEW i, NEW q \in Quantity
  PROVE  SideInv(TreeAfterLeg(s, i, q), HashAfterLeg(s, i, q))
<1>1. SideInv(tree[s], hash[s])
  BY DEF BookInv
<1>2. CASE Known(s, i)
  <2>1. i \in DOMAIN hash[s] /\ Held(s, i).qty \in Nat /\ q \in Nat
    BY <1>1, <1>2, QuantityAssumption DEF Known, Held, SideInv, Order
  <2>2. CASE Delta(s, i, q) > 0
    <3>1. Delta(s, i, q) \in Nat \ {0}
      BY <2>1, <2>2 DEF Delta
    <3>2. SideInv(SetQty(tree[s], hash[s][i], Delta(s, i, q)), hash[s])
      BY <1>1, <2>1, <3>1, SetQtyInv
    <3>3. Reduced(s, i, q) /\ ~Filled(s, i, q)
      BY <1>2, <2>2, <3>1 DEF Reduced, Filled
    <3>4. QED
      BY <3>2, <3>3 DEF TreeAfterLeg, HashAfterLeg
  <2>3. CASE Delta(s, i, q) = 0
    <3>1. SideInv(Drop(tree[s], hash[s][i]), Drop(hash[s], i))
      BY <1>1, <2>1, DropOrder
    <3>2. ~Reduced(s, i, q) /\ Filled(s, i, q)
      BY <1>2, <2>3 DEF Reduced, Filled
    <3>3. QED
      BY <3>1, <3>2 DEF TreeAfterLeg, HashAfterLeg
  <2>4. CASE Delta(s, i, q) < 0
    <3>1. ~Reduced(s, i, q) /\ ~Filled(s, i, q)
      BY <2>1, <2>4 DEF Reduced, Filled, Delta
    <3>2. QED
      BY <1>1, <3>1 DEF TreeAfterLeg, HashAfterLeg
  <2>5. QED
    BY <2>1, <2>2, <2>3, <2>4 DEF Delta
<1>3. CASE ~Known(s, i)
  BY <1>1, <1>3 DEF TreeAfterLeg, HashAfterLeg, Reduced, Filled
<1>4. QED
  BY <1>2, <1>3

LEMMA TradeInv ==
  ASSUME BookInv, NEW leg, NEW q \in Quantity, ProcessTrade(leg, q) PROVE BookInv'
<1>1. \A s \in Side : SideInv(TreeAfterLeg(s, leg[s], q), HashAfterLeg(s, leg[s], q))
  BY LegInv
<1>2. \A s \in Side : SideInv(tree'[s], hash'[s])
  BY <1>1 DEF ProcessTrade, BookInv
<1>3. QED
  BY <1>2 DEF ProcessTrade, BookInv

LEMMA StepBookInv == BookInv /\ [Next]_vars => BookInv'
<1> SUFFICES ASSUME BookInv, [Next]_vars PROVE BookInv'
  OBVIOUS
<1>1. ASSUME NEW s \in Side, NEW o \in Message,
             NewOrder(s, o) \/ ModifyUnknown(s, o) \/ ModifyPrice(s, o) \/ ModifyQty(s, o)
      PROVE  BookInv'
  BY <1>1, MessageIsOrder, NewOrderInv, ModifyPriceInv, ModifyQtyInv DEF ModifyUnknown
<1>2. ASSUME NEW s \in Side, NEW i \in OrderId, Cancel(s, i) PROVE BookInv'
  BY <1>2, CancelInv
<1>3. ASSUME NEW s \in Side, NEW i \in OrderId, CancelUnknown(s, i) PROVE BookInv'
  BY <1>3 DEF CancelUnknown, Ignore, BookInv
<1>4. CASE Trade
  BY <1>4, TradeInv DEF Trade
<1>5. CASE UNCHANGED vars
  BY <1>5 DEF vars, BookInv
<1>6. QED
  BY <1>1, <1>2, <1>3, <1>4, <1>5 DEF Next, Update

LEMMA BookInvAlways == Spec => []BookInv
  BY InitBookInv, StepBookInv, PTL DEF Spec

(* The multimaps, hashes and flag of the book keep their types.             *)
THEOREM TypeCorrect == Spec => []TypeOK
<1>1. BookInv => TypeOK
  BY DEF BookInv, SideInv, TypeOK
<1>2. QED
  BY <1>1, BookInvAlways, PTL

(* For any number of orders, no hash entry ever dangles or leads to the     *)
(* order of another id.                                                     *)
THEOREM NoDanglingIterator == Spec => []IteratorsValid
<1>1. BookInv => IteratorsValid
  BY DEF BookInv, SideInv, IteratorsValid, Held
<1>2. QED
  BY <1>1, BookInvAlways, PTL
-----------------------------------------------------------------------------
(* The abstract operations on the live orders of a side.                    *)
Entered(L, o) == [j \in DOMAIN L \cup {o.id} |->
                    IF j = o.id THEN [price |-> o.price, qty |-> o.qty] ELSE L[j]]
Amended(L, i, p, q) == [L EXCEPT ![i] = [price |-> p, qty |-> q]]
Left(L, i) == [j \in DOMAIN L \ {i} |-> L[j]]

(* What the operations on T and H do to the live orders they stand for.     *)
LEMMA LiveInsertNode ==
  ASSUME NEW T, NEW H, SideInv(T, H), NEW n \in Node \ DOMAIN T, NEW o \in Order
  PROVE  LiveOf(Put(T, n, o), H) = LiveOf(T, H)
  BY DEF LiveOf, SideInv, Put

LEMMA LiveInsertOrder ==
  ASSUME NEW T, NEW H, SideInv(T, H), NEW n \in Node \ DOMAIN T, NEW o \in Order,
         o.id \notin DOMAIN H
  PROVE  LiveOf(Put(T, n, o), Put(H, o.id, n)) = Entered(LiveOf(T, H), o)
  BY DEF LiveOf, SideInv, Put, Entered

LEMMA LiveDrop ==
  ASSUME NEW T, NEW H, SideInv(T, H), NEW i \in DOMAIN H
  PROVE  LiveOf(Drop(T, H[i]), Drop(H, i)) = Left(LiveOf(T, H), i)
  BY DEF LiveOf, SideInv, Drop, Restrict, Left

LEMMA LiveMove ==
  ASSUME NEW T, NEW H, SideInv(T, H), NEW o \in Order, o.id \in DOMAIN H,
         NEW n \in Node \ DOMAIN Drop(T, H[o.id])
  PROVE  LiveOf(Put(Drop(T, H[o.id]), n, o), [H EXCEPT ![o.id] = n])
           = Amended(LiveOf(T, H), o.id, o.price, o.qty)
<1> DEFINE T2 == Put(Drop(T, H[o.id]), n, o)
           H2 == [H EXCEPT ![o.id] = n]
<1>1. \A j \in DOMAIN H : j # o.id => H2[j] = H[j] /\ H[j] # H[o.id] /\ H[j] # n
  BY DEF SideInv, Drop, Restrict
<1>2. \A j \in DOMAIN H : j # o.id => T2[H2[j]] = T[H[j]]
  BY <1>1 DEF SideInv, Drop, Restrict, Put
<1>3. T2[H2[o.id]] = o
  BY DEF SideInv, Put
<1>4. DOMAIN H2 = DOMAIN H
  OBVIOUS
<1> HIDE DEF T2, H2
<1>5. LiveOf(T2, H2) = Amended(LiveOf(T, H), o.id, o.price, o.qty)
  BY <1>2, <1>3, <1>4 DEF LiveOf, Amended
<1>6. QED
  BY <1>5 DEF T2, H2

LEMMA LiveSetQty ==
  ASSUME NEW T, NEW H, SideInv(T, H), NEW i \in DOMAIN H, NEW q
  PROVE  LiveOf(SetQty(T, H[i], q), H) = Amended(LiveOf(T, H), i, T[H[i]].price, q)
<1> DEFINE T2 == SetQty(T, H[i], q)
<1>1. H[i] \in DOMAIN T /\ T[H[i]] \in Order
  BY DEF SideInv
<1>2. /\ [T[H[i]] EXCEPT !.qty = q].price = T[H[i]].price
      /\ [T[H[i]] EXCEPT !.qty = q].qty = q
  BY <1>1 DEF Order
<1>3. T2 = [T EXCEPT ![H[i]] = [T[H[i]] EXCEPT !.qty = q]]
  BY <1>1 DEF SetQty
<1>4. \A j \in DOMAIN H : j # i => H[j] # H[i] /\ H[j] \in DOMAIN T
  BY DEF SideInv
<1>5. \A j \in DOMAIN H : j # i => T2[H[j]] = T[H[j]]
  BY <1>3, <1>4
<1>6. T2[H[i]].price = T[H[i]].price /\ T2[H[i]].qty = q
  BY <1>1, <1>2, <1>3
<1> HIDE DEF T2
<1>7. LiveOf(T2, H) = Amended(LiveOf(T, H), i, T[H[i]].price, q)
  BY <1>5, <1>6 DEF LiveOf, Amended
<1>8. QED
  BY <1>7 DEF T2

(* A call that changes only side s changes only the live orders of s.       *)
LEMMA LiveOneSide ==
  ASSUME BookInv, NEW s \in Side, NEW T, NEW H,
         tree' = [tree EXCEPT ![s] = T], hash' = [hash EXCEPT ![s] = H]
  PROVE  Live' = [Live EXCEPT ![s] = LiveOf(T, H)]
  BY DEF BookInv, Live

LEMMA LiveOneTree ==
  ASSUME BookInv, NEW s \in Side, NEW T, tree' = [tree EXCEPT ![s] = T], hash' = hash
  PROVE  Live' = [Live EXCEPT ![s] = LiveOf(T, hash[s])]
  BY DEF BookInv, Live

LEMMA SameLive ==
  ASSUME BookInv, NEW s \in Side PROVE Live = [Live EXCEPT ![s] = LiveOf(tree[s], hash[s])]
  BY DEF Live
-----------------------------------------------------------------------------
(* Every call, from a state of the invariant, is a step of LiveOrders or    *)
(* leaves the live orders as they are.                                      *)
LEMMA NewOrderRefines ==
  ASSUME BookInv, NEW s \in Side, NEW o \in Message, NewOrder(s, o)
  PROVE  LiveBook!Enter(s, o.id, o.price, o.qty) \/ UNCHANGED Live
<1>1. PICK n \in Node \ DOMAIN tree[s] :
        /\ tree' = [tree EXCEPT ![s] = Put(tree[s], n, o)]
        /\ hash' = IF Known(s, o.id) THEN hash ELSE [hash EXCEPT ![s] = Put(hash[s], o.id, n)]
  BY DEF NewOrder
<1>2. SideInv(tree[s], hash[s]) /\ hash = [hash EXCEPT ![s] = hash[s]] /\ o \in Order
  BY MessageIsOrder DEF BookInv
<1>3. CASE Known(s, o.id)
  <2>1. Live' = [Live EXCEPT ![s] = LiveOf(Put(tree[s], n, o), hash[s])]
    BY <1>1, <1>2, <1>3, LiveOneSide
  <2>2. LiveOf(Put(tree[s], n, o), hash[s]) = LiveOf(tree[s], hash[s])
    BY <1>2, LiveInsertNode
  <2>3. QED
    BY <2>1, <2>2, SameLive
<1>4. CASE ~Known(s, o.id)
  <2>1. Live' = [Live EXCEPT ![s] = LiveOf(Put(tree[s], n, o), Put(hash[s], o.id, n))]
    BY <1>1, <1>4, LiveOneSide
  <2>2. Live[s] = LiveOf(tree[s], hash[s]) /\ o.id \notin DOMAIN Live[s]
    BY <1>4 DEF Live, LiveOf, Known
  <2>3. LiveOf(Put(tree[s], n, o), Put(hash[s], o.id, n)) = Entered(Live[s], o)
    BY <1>2, <1>4, <2>2, LiveInsertOrder DEF Known
  <2>4. QED
    BY <2>1, <2>2, <2>3 DEF LiveBook!Enter, Entered
<1>5. QED
  BY <1>3, <1>4

LEMMA AmendOf ==
  ASSUME NEW s \in Side, NEW o \in Message, o.id \in DOMAIN Live[s], NEW L,
         Live' = [Live EXCEPT ![s] = L],
         L = Amended(Live[s], o.id, o.price, o.qty)
  PROVE  LiveBook!Amend(s, o.id, o.price, o.qty)
<1>1. s \in DOMAIN Live
  BY DEF Live
<1>2. Live' = [Live EXCEPT ![s][o.id] = [price |-> o.price, qty |-> o.qty]]
  BY <1>1 DEF Amended
<1>3. QED
  BY <1>2 DEF LiveBook!Amend

LEMMA ModifyPriceRefines ==
  ASSUME BookInv, NEW s \in Side, NEW o \in Message, ModifyPrice(s, o)
  PROVE  LiveBook!Amend(s, o.id, o.price, o.qty)
<1>1. /\ SideInv(tree[s], hash[s]) /\ o.id \in DOMAIN hash[s] /\ o \in Order
      /\ Live[s] = LiveOf(tree[s], hash[s]) /\ o.id \in DOMAIN Live[s]
  BY MessageIsOrder DEF BookInv, ModifyPrice, Known, Live, LiveOf
<1>2. PICK n \in Node \ DOMAIN Drop(tree[s], hash[s][o.id]) :
        /\ tree' = [tree EXCEPT ![s] = Put(Drop(tree[s], hash[s][o.id]), n, o)]
        /\ hash' = [hash EXCEPT ![s][o.id] = n]
  BY DEF ModifyPrice
<1>3. hash' = [hash EXCEPT ![s] = [hash[s] EXCEPT ![o.id] = n]]
  BY <1>2
<1>4. Live' = [Live EXCEPT ![s] = LiveOf(Put(Drop(tree[s], hash[s][o.id]), n, o),
                                         [hash[s] EXCEPT ![o.id] = n])]
  BY <1>2, <1>3, LiveOneSide
<1>5. LiveOf(Put(Drop(tree[s], hash[s][o.id]), n, o), [hash[s] EXCEPT ![o.id] = n])
        = Amended(LiveOf(tree[s], hash[s]), o.id, o.price, o.qty)
  BY <1>1, LiveMove
<1>6. QED
  BY <1>1, <1>4, <1>5, AmendOf

LEMMA ModifyQtyRefines ==
  ASSUME BookInv, NEW s \in Side, NEW o \in Message, ModifyQty(s, o)
  PROVE  LiveBook!Amend(s, o.id, o.price, o.qty)
<1>1. /\ SideInv(tree[s], hash[s]) /\ o.id \in DOMAIN hash[s]
      /\ Live[s] = LiveOf(tree[s], hash[s]) /\ o.id \in DOMAIN Live[s]
      /\ tree[s][hash[s][o.id]].price = o.price
  BY DEF BookInv, ModifyQty, Known, Held, Live, LiveOf
<1>2. LiveOf(SetQty(tree[s], hash[s][o.id], o.qty), hash[s])
        = Amended(LiveOf(tree[s], hash[s]), o.id, o.price, o.qty)
  BY <1>1, LiveSetQty
<1>3. tree' = [tree EXCEPT ![s] = SetQty(tree[s], hash[s][o.id], o.qty)] /\ hash' = hash
  BY DEF ModifyQty
<1>4. Live' = [Live EXCEPT ![s] = LiveOf(SetQty(tree[s], hash[s][o.id], o.qty), hash[s])]
  BY <1>3, LiveOneTree
<1>5. QED
  BY <1>1, <1>2, <1>4, AmendOf

LEMMA CancelRefines ==
  ASSUME BookInv, NEW s \in Side, NEW i \in OrderId, Cancel(s, i)
  PROVE  LiveBook!Leave(s, i)
<1>1. /\ SideInv(tree[s], hash[s]) /\ i \in DOMAIN hash[s]
      /\ Live[s] = LiveOf(tree[s], hash[s]) /\ i \in DOMAIN Live[s]
  BY DEF BookInv, Cancel, Known, Live, LiveOf
<1>2. Live' = [Live EXCEPT ![s] = LiveOf(Drop(tree[s], hash[s][i]), Drop(hash[s], i))]
  BY LiveOneSide DEF Cancel
<1>3. LiveOf(Drop(tree[s], hash[s][i]), Drop(hash[s], i)) = Left(Live[s], i)
  BY <1>1, LiveDrop
<1>4. QED
  BY <1>1, <1>2, <1>3 DEF LiveBook!Leave, Left

(* A leg that is not refused takes its quantity from the live order; any    *)
(* other leaves the live orders of its side alone.                          *)
LEMMA LegRefines ==
  ASSUME BookInv, NEW s \in Side, NEW i, NEW q \in Quantity
  PROVE  /\ Known(s, i) /\ ~Overfilled(s, i, q) =>
              /\ i \in DOMAIN Live[s] /\ q <= Live[s][i].qty
              /\ LiveOf(TreeAfterLeg(s, i, q), HashAfterLeg(s, i, q))
                   = LiveBook!Taken(Live[s], i, q)
         /\ ~Known(s, i) \/ Overfilled(s, i, q) =>
              LiveOf(TreeAfterLeg(s, i, q), HashAfterLeg(s, i, q)) = Live[s]
<1>1. SideInv(tree[s], hash[s]) /\ Live[s] = LiveOf(tree[s], hash[s])
  BY DEF BookInv, Live
<1>2. CASE ~Known(s, i)
  BY <1>1, <1>2 DEF TreeAfterLeg, HashAfterLeg, Reduced, Filled
<1>3. CASE Known(s, i)
  <2>1. /\ i \in DOMAIN hash[s] /\ i \in DOMAIN Live[s]
        /\ Held(s, i).qty \in Nat /\ q \in Nat /\ q > 0
        /\ Live[s][i] = [price |-> Held(s, i).price, qty |-> Held(s, i).qty]
    BY <1>1, <1>3, QuantityAssumption DEF Known, Held, SideInv, Order, LiveOf
  <2>2. CASE Overfilled(s, i, q)
    <3>1. ~Reduced(s, i, q) /\ ~Filled(s, i, q)
      BY <2>1, <2>2 DEF Overfilled, Reduced, Filled, Delta
    <3>2. QED
      BY <1>1, <2>2, <3>1 DEF TreeAfterLeg, HashAfterLeg
  <2>3. CASE Filled(s, i, q)
    <3>1. ~Reduced(s, i, q) /\ ~Overfilled(s, i, q) /\ Live[s][i].qty = q
      BY <2>1, <2>3 DEF Overfilled, Reduced, Filled, Delta
    <3>2. LiveOf(TreeAfterLeg(s, i, q), HashAfterLeg(s, i, q)) = Left(Live[s], i)
      BY <1>1, <2>1, <2>3, <3>1, LiveDrop DEF TreeAfterLeg, HashAfterLeg
    <3>3. Left(Live[s], i) = LiveBook!Taken(Live[s], i, q)
      BY <3>1 DEF Left, LiveBook!Taken
    <3>4. QED
      BY <1>3, <2>1, <3>1, <3>2, <3>3
  <2>4. CASE Reduced(s, i, q)
    <3>1. /\ ~Filled(s, i, q) /\ ~Overfilled(s, i, q) /\ Live[s][i].qty # q
          /\ q <= Live[s][i].qty /\ Delta(s, i, q) = Live[s][i].qty - q
      BY <2>1, <2>4 DEF Overfilled, Reduced, Filled, Delta
    <3>2. LiveOf(TreeAfterLeg(s, i, q), HashAfterLeg(s, i, q))
            = Amended(Live[s], i, Live[s][i].price, Live[s][i].qty - q)
      BY <1>1, <2>1, <2>4, <3>1, LiveSetQty DEF TreeAfterLeg, HashAfterLeg, Held
    <3>3. [price |-> Live[s][i].price, qty |-> Live[s][i].qty - q]
            = [Live[s][i] EXCEPT !.qty = @ - q]
      BY <2>1
    <3>4. Amended(Live[s], i, Live[s][i].price, Live[s][i].qty - q)
            = LiveBook!Taken(Live[s], i, q)
      <4>1. Live[s] = [j \in DOMAIN Live[s] |-> Live[s][j]]
        BY <1>1 DEF LiveOf
      <4>2. QED
        BY <2>1, <3>1, <3>3, <4>1 DEF Amended, LiveBook!Taken
    <3>5. QED
      BY <1>3, <2>1, <3>1, <3>2, <3>4
  <2>5. QED
    BY <1>3, <2>1, <2>2, <2>3, <2>4 DEF Overfilled, Reduced, Filled, Delta
<1>4. QED
  BY <1>2, <1>3

LEMMA TradeRefines ==
  ASSUME BookInv, NEW leg \in [Side -> OrderId \cup {NoOrder}], NEW q \in Quantity,
         ProcessTrade(leg, q)
  PROVE  \E sides \in SUBSET Side : \E hit \in [sides -> OrderId] : LiveBook!Execute(hit, q)
<1> DEFINE done == IF Overfilled("B", leg["B"], q) THEN {} ELSE Side
           sides == {s \in done : Known(s, leg[s]) /\ ~Overfilled(s, leg[s], q)}
           hit == [s \in sides |-> leg[s]]
<1>1. sides \in SUBSET Side
  OBVIOUS
<1>2. hit \in [sides -> OrderId]
  <2>1. \A s \in sides : leg[s] \in OrderId
    BY <1>1, NoOrderUnknown
  <2>2. QED
    BY <2>1
<1>3. \A s \in Side : Live'[s] = IF s \in done
                               THEN LiveOf(TreeAfterLeg(s, leg[s], q), HashAfterLeg(s, leg[s], q))
                               ELSE Live[s]
  <2>1. /\ tree' = [s \in Side |-> IF s \in done THEN TreeAfterLeg(s, leg[s], q) ELSE tree[s]]
        /\ hash' = [s \in Side |-> IF s \in done THEN HashAfterLeg(s, leg[s], q) ELSE hash[s]]
    BY DEF ProcessTrade
  <2> HIDE DEF done
  <2>2. QED
    BY <2>1 DEF Live
<1>4. \A s \in Side : Live'[s] = IF s \in sides THEN LiveBook!Taken(Live[s], leg[s], q) ELSE Live[s]
  BY <1>3, LegRefines
<1>5. \A s \in sides : hit[s] \in DOMAIN Live[s] /\ q <= Live[s][hit[s]].qty
  BY LegRefines
<1>6. Live' = [s \in Side |->
        IF s \in DOMAIN hit THEN LiveBook!Taken(Live[s], hit[s], q) ELSE Live[s]]
  <2>1. Live' = [s \in Side |-> Live'[s]] /\ DOMAIN hit = sides
    BY DEF Live
  <2>2. \A s \in Side : s \in sides => hit[s] = leg[s]
    OBVIOUS
  <2> HIDE DEF sides, hit
  <2>3. QED
    BY <1>4, <2>1, <2>2
<1>7. LiveBook!Execute(hit, q)
  BY <1>5, <1>6 DEF LiveBook!Execute, LiveBook!Side, Side
<1>8. QED
  BY <1>1, <1>2, <1>7

LEMMA InitRefines == Init => LiveBook!Init
  BY DEF Init, LiveBook!Init, LiveBook!Side, Side, Live, LiveOf

LEMMA StepRefines == BookInv /\ [Next]_vars => [LiveBook!Next]_Live
<1> SUFFICES ASSUME BookInv, [Next]_vars PROVE LiveBook!Next \/ UNCHANGED Live
  OBVIOUS
<1>1. ASSUME NEW s \in Side, NEW o \in Message,
             \/ LiveBook!Enter(s, o.id, o.price, o.qty)
             \/ LiveBook!Amend(s, o.id, o.price, o.qty)
      PROVE  LiveBook!Next
  <2>1. o.id \in OrderId /\ o.price \in Price /\ o.qty \in Quantity
    BY DEF Message
  <2>2. QED
    BY <1>1, <2>1 DEF LiveBook!Next, LiveBook!Side, Side
<1>2. ASSUME NEW s \in Side, NEW o \in Message, NewOrder(s, o) \/ ModifyUnknown(s, o)
      PROVE  LiveBook!Next \/ UNCHANGED Live
  BY <1>1, <1>2, NewOrderRefines DEF ModifyUnknown
<1>3. ASSUME NEW s \in Side, NEW o \in Message, ModifyPrice(s, o) \/ ModifyQty(s, o)
      PROVE  LiveBook!Next
  BY <1>1, <1>3, ModifyPriceRefines, ModifyQtyRefines
<1>4. ASSUME NEW s \in Side, NEW i \in OrderId, Cancel(s, i) PROVE LiveBook!Next
  BY <1>4, CancelRefines DEF LiveBook!Next, LiveBook!Side, Side
<1>5. ASSUME NEW s \in Side, NEW i \in OrderId, CancelUnknown(s, i) PROVE UNCHANGED Live
  BY <1>5 DEF CancelUnknown, Ignore, Live
<1>6. CASE Trade
  BY <1>6, TradeRefines DEF Trade, LiveBook!Next, LiveBook!Side, Side
<1>7. CASE UNCHANGED vars
  BY <1>7 DEF vars, Live
<1>8. QED
  BY <1>2, <1>3, <1>4, <1>5, <1>6, <1>7 DEF Next, Update

(* The book implements LiveOrders: through every modification, refused      *)
(* order and half applied trade, its hashes and multimaps stand for the     *)
(* live orders of the feed, for any number of orders.                       *)
THEOREM RefinesLiveOrders == Spec => ImplementsLiveOrders
  BY InitRefines, StepRefines, BookInvAlways, PTL
     DEF Spec, ImplementsLiveOrders, LiveBook!Spec
-----------------------------------------------------------------------------
(* What one call of the book may not do: touch an order that no iterator    *)
(* leads to, or change the sells when it throws.                            *)
OrphansOf(T, H) == DOMAIN T \ Range(H)

(* The orphans of a side stay the same nodes with the same orders. *)
SameOrphans(T, H, T2, H2) ==
  /\ OrphansOf(T2, H2) = OrphansOf(T, H)
  /\ \A n \in OrphansOf(T, H) : n \in DOMAIN T2 /\ T2[n] = T[n]

-----------------------------------------------------------------------------
LEMMA InsertOrderOrphans ==
  ASSUME NEW T, NEW H, NEW n, n \notin DOMAIN T, NEW o, o.id \notin DOMAIN H
  PROVE  SameOrphans(T, H, Put(T, n, o), Put(H, o.id, n))
<1>1. Range(Put(H, o.id, n)) = Range(H) \cup {n}
  BY DEF Range, Put
<1>2. QED
  BY <1>1 DEF SameOrphans, OrphansOf, Put

LEMMA DropOrphans ==
  ASSUME NEW T, NEW H, NEW i \in DOMAIN H
  PROVE  SameOrphans(T, H, Drop(T, H[i]), Drop(H, i))
<1>1. H[i] \in Range(H) /\ Range(H) \ {H[i]} \subseteq Range(Drop(H, i))
      /\ Range(Drop(H, i)) \subseteq Range(H)
  BY DEF Range, Drop, Restrict
<1>2. DOMAIN Drop(T, H[i]) = DOMAIN T \ {H[i]}
      /\ \A x \in DOMAIN T \ {H[i]} : Drop(T, H[i])[x] = T[x]
  BY DEF Drop, Restrict
<1>3. QED
  BY <1>1, <1>2 DEF SameOrphans, OrphansOf

LEMMA MoveOrphans ==
  ASSUME NEW T, NEW H, NEW i \in DOMAIN H, NEW n, n \notin DOMAIN Drop(T, H[i]), NEW o
  PROVE  SameOrphans(T, H, Put(Drop(T, H[i]), n, o), [H EXCEPT ![i] = n])
<1> DEFINE T2 == Put(Drop(T, H[i]), n, o)
           H2 == [H EXCEPT ![i] = n]
<1>1. H[i] \in Range(H) /\ n \in Range(H2) /\ Range(H) \ {H[i]} \subseteq Range(H2)
      /\ Range(H2) \subseteq Range(H) \cup {n}
  BY DEF Range
<1>2. DOMAIN Drop(T, H[i]) = DOMAIN T \ {H[i]}
      /\ \A x \in DOMAIN T \ {H[i]} : Drop(T, H[i])[x] = T[x]
  BY DEF Drop, Restrict
<1>3. DOMAIN T2 = (DOMAIN T \ {H[i]}) \cup {n} /\ \A x \in DOMAIN T \ {H[i]} : T2[x] = T[x]
  BY <1>2 DEF Put
<1>4. n \notin DOMAIN T \ {H[i]}
  BY <1>2
<1> HIDE DEF T2, H2
<1>5. SameOrphans(T, H, T2, H2)
  BY <1>1, <1>3, <1>4 DEF SameOrphans, OrphansOf
<1>6. QED
  BY <1>5 DEF T2, H2

LEMMA SetQtyOrphans ==
  ASSUME NEW T, NEW H, NEW i \in DOMAIN H, NEW q
  PROVE  SameOrphans(T, H, SetQty(T, H[i], q), H)
<1>1. H[i] \in Range(H)
  BY DEF Range
<1>2. DOMAIN SetQty(T, H[i], q) = DOMAIN T
      /\ \A x \in DOMAIN T \ {H[i]} : SetQty(T, H[i], q)[x] = T[x]
  BY DEF SetQty
<1>3. QED
  BY <1>1, <1>2 DEF SameOrphans, OrphansOf

(* A leg that is refused, or names no order of the side, changes nothing.   *)
LEMMA LegOrphans ==
  ASSUME BookInv, NEW s \in Side, NEW i, NEW q \in Quantity
  PROVE  /\ SameOrphans(tree[s], hash[s], TreeAfterLeg(s, i, q), HashAfterLeg(s, i, q))
         /\ Overfilled(s, i, q) => /\ TreeAfterLeg(s, i, q) = tree[s]
                                   /\ HashAfterLeg(s, i, q) = hash[s]
<1>1. SameOrphans(tree[s], hash[s], tree[s], hash[s])
  BY DEF SameOrphans, OrphansOf
<1>2. CASE ~Known(s, i)
  BY <1>1, <1>2 DEF TreeAfterLeg, HashAfterLeg, Reduced, Filled, Overfilled
<1>3. CASE Known(s, i)
  <2>1. i \in DOMAIN hash[s] /\ Delta(s, i, q) \in Int
    BY <1>3, QuantityAssumption DEF BookInv, SideInv, Known, Delta, Held, Order
  <2>2. CASE Delta(s, i, q) > 0
    <3>1. /\ TreeAfterLeg(s, i, q) = SetQty(tree[s], hash[s][i], Delta(s, i, q))
          /\ HashAfterLeg(s, i, q) = hash[s] /\ ~Overfilled(s, i, q)
      BY <1>3, <2>1, <2>2 DEF TreeAfterLeg, HashAfterLeg, Reduced, Filled, Overfilled
    <3>2. QED
      BY <2>1, <3>1, SetQtyOrphans
  <2>3. CASE Delta(s, i, q) = 0
    <3>1. /\ TreeAfterLeg(s, i, q) = Drop(tree[s], hash[s][i])
          /\ HashAfterLeg(s, i, q) = Drop(hash[s], i) /\ ~Overfilled(s, i, q)
      BY <1>3, <2>1, <2>3 DEF TreeAfterLeg, HashAfterLeg, Reduced, Filled, Overfilled
    <3>2. QED
      BY <2>1, <3>1, DropOrphans
  <2>4. CASE Delta(s, i, q) < 0
    <3>1. TreeAfterLeg(s, i, q) = tree[s] /\ HashAfterLeg(s, i, q) = hash[s]
      BY <1>3, <2>1, <2>4 DEF TreeAfterLeg, HashAfterLeg, Reduced, Filled
    <3>2. QED
      BY <1>1, <3>1
  <2>5. QED
    BY <2>1, <2>2, <2>3, <2>4
<1>4. QED
  BY <1>2, <1>3
-----------------------------------------------------------------------------
OrphanStep ==
  \A s \in Side :
    /\ \A n \in Orphans(s) : n \in Orphans(s)' /\ tree'[s][n] = tree[s][n]
    /\ Orphans(s)' # Orphans(s) => threw'

(* A step that keeps the orphans of both sides is an OrphanStep.            *)
LEMMA OrphansKept ==
  ASSUME \A s \in Side : SameOrphans(tree[s], hash[s], tree'[s], hash'[s])
  PROVE  OrphanStep
  BY DEF OrphanStep, SameOrphans, OrphansOf, Orphans

(* A call that changes one side only, and keeps its orphans.                *)
LEMMA OneSideKept ==
  ASSUME BookInv, NEW s \in Side, NEW T, NEW H, SameOrphans(tree[s], hash[s], T, H),
         tree' = [tree EXCEPT ![s] = T], hash' = [hash EXCEPT ![s] = H]
  PROVE  OrphanStep
<1>1. tree'[s] = T /\ hash'[s] = H
      /\ \A r \in Side \ {s} : tree'[r] = tree[r] /\ hash'[r] = hash[r]
  BY DEF BookInv
<1>2. \A r \in Side \ {s} : SameOrphans(tree[r], hash[r], tree'[r], hash'[r])
  BY <1>1 DEF SameOrphans, OrphansOf
<1>3. QED
  BY <1>1, <1>2, OrphansKept

(* 'N', refused or not.                                                     *)
LEMMA NewOrderStep ==
  ASSUME BookInv, NEW s \in Side, NEW o \in Message, NewOrder(s, o)
  PROVE  OrphanStep /\ ThrowStep
<1>1. PICK n \in Node \ DOMAIN tree[s] :
        /\ tree' = [tree EXCEPT ![s] = Put(tree[s], n, o)]
        /\ hash' = IF Known(s, o.id) THEN hash ELSE [hash EXCEPT ![s] = Put(hash[s], o.id, n)]
        /\ threw' = Known(s, o.id)
  BY DEF NewOrder
<1>2. CASE ~Known(s, o.id)
  <2>1. SameOrphans(tree[s], hash[s], Put(tree[s], n, o), Put(hash[s], o.id, n))
    BY <1>2, InsertOrderOrphans DEF Known
  <2>2. OrphanStep
    BY <1>1, <1>2, <2>1, OneSideKept
  <2>3. QED
    BY <1>1, <1>2, <2>2 DEF ThrowStep
<1>3. CASE Known(s, o.id)
  <2>1. /\ hash' = hash /\ threw' /\ tree'[s] = Put(tree[s], n, o)
        /\ \A r \in Side \ {s} : tree'[r] = tree[r]
    BY <1>1, <1>3 DEF BookInv
  <2>2. /\ OrphansOf(tree[s], hash[s]) \subseteq OrphansOf(tree'[s], hash[s])
        /\ \A x \in DOMAIN tree[s] : x \in DOMAIN tree'[s] /\ tree'[s][x] = tree[s][x]
    <3>1. n \notin DOMAIN tree[s]
      BY <1>1
    <3>2. /\ OrphansOf(tree[s], hash[s]) \subseteq OrphansOf(Put(tree[s], n, o), hash[s])
          /\ \A x \in DOMAIN tree[s] :
               x \in DOMAIN Put(tree[s], n, o) /\ Put(tree[s], n, o)[x] = tree[s][x]
      BY <3>1 DEF OrphansOf, Put
    <3>3. QED
      BY <2>1, <3>2
  <2>3. \A r \in Side :
          /\ OrphansOf(tree[r], hash[r]) \subseteq OrphansOf(tree'[r], hash[r])
          /\ \A x \in DOMAIN tree[r] : x \in DOMAIN tree'[r] /\ tree'[r][x] = tree[r][x]
    BY <2>1, <2>2
  <2>4. OrphanStep
    BY <2>1, <2>3 DEF OrphanStep, Orphans, OrphansOf
  <2>5. DOMAIN tree'[s] = DOMAIN tree[s] \cup {n} /\ tree'[s][n] = o
    BY <2>1 DEF Put
  <2>6. LeftByNew(s)
    BY <1>1, <1>3, <2>1, <2>2, <2>5 DEF LeftByNew, Known
  <2>7. \A r \in Side \ {s} : Kept(r)
    BY <2>1 DEF Kept
  <2>8. ThrowStep
    BY <2>6, <2>7 DEF ThrowStep
  <2>9. QED
    BY <2>4, <2>8
<1>4. QED
  BY <1>2, <1>3

LEMMA ModifyPriceStep ==
  ASSUME BookInv, NEW s \in Side, NEW o \in Message, ModifyPrice(s, o)
  PROVE  OrphanStep /\ ThrowStep
<1>1. PICK n \in Node \ DOMAIN Drop(tree[s], hash[s][o.id]) :
        /\ tree' = [tree EXCEPT ![s] = Put(Drop(tree[s], hash[s][o.id]), n, o)]
        /\ hash' = [hash EXCEPT ![s][o.id] = n]
        /\ ~threw'
  BY DEF ModifyPrice
<1>2. hash' = [hash EXCEPT ![s] = [hash[s] EXCEPT ![o.id] = n]]
  BY <1>1
<1>3. SameOrphans(tree[s], hash[s], Put(Drop(tree[s], hash[s][o.id]), n, o),
                  [hash[s] EXCEPT ![o.id] = n])
  BY <1>1, MoveOrphans DEF ModifyPrice, Known
<1>4. OrphanStep
  BY <1>1, <1>2, <1>3, OneSideKept
<1>5. QED
  BY <1>1, <1>4 DEF ThrowStep

LEMMA ModifyQtyStep ==
  ASSUME BookInv, NEW s \in Side, NEW o \in Message, ModifyQty(s, o)
  PROVE  OrphanStep /\ ThrowStep
<1>1. /\ tree' = [tree EXCEPT ![s] = SetQty(tree[s], hash[s][o.id], o.qty)]
      /\ hash' = [hash EXCEPT ![s] = hash[s]] /\ ~threw'
  BY DEF ModifyQty, BookInv
<1>2. SameOrphans(tree[s], hash[s], SetQty(tree[s], hash[s][o.id], o.qty), hash[s])
  BY SetQtyOrphans DEF ModifyQty, Known
<1>3. OrphanStep
  BY <1>1, <1>2, OneSideKept
<1>4. QED
  BY <1>1, <1>3 DEF ThrowStep

LEMMA CancelStep ==
  ASSUME BookInv, NEW s \in Side, NEW i \in OrderId, Cancel(s, i)
  PROVE  OrphanStep /\ ThrowStep
<1>1. /\ tree' = [tree EXCEPT ![s] = Drop(tree[s], hash[s][i])]
      /\ hash' = [hash EXCEPT ![s] = Drop(hash[s], i)] /\ ~threw'
  BY DEF Cancel
<1>2. SameOrphans(tree[s], hash[s], Drop(tree[s], hash[s][i]), Drop(hash[s], i))
  BY DropOrphans DEF Cancel, Known
<1>3. OrphanStep
  BY <1>1, <1>2, OneSideKept
<1>4. QED
  BY <1>1, <1>3 DEF ThrowStep

LEMMA UnchangedStep ==
  ASSUME UNCHANGED <<tree, hash>> PROVE OrphanStep
  BY DEF OrphanStep, Orphans

(* The buy leg of a trade whose sell leg throws.                            *)
LEMMA BuyLegStep ==
  ASSUME BookInv, NEW i, NEW j, NEW q \in Quantity, ~Overfilled("B", i, q), Overfilled("S", j, q),
         tree'["B"] = TreeAfterLeg("B", i, q), hash'["B"] = HashAfterLeg("B", i, q)
  PROVE  Kept("B") \/ (i \in DOMAIN hash["B"] /\ LeftByTrade(i, q))
<1>1. CASE ~Known("B", i)
  BY <1>1 DEF TreeAfterLeg, HashAfterLeg, Reduced, Filled, Kept
<1>2. CASE Known("B", i)
  <2> DEFINE n == hash["B"][i]
             old == Held("B", i).qty
  <2>1. /\ i \in DOMAIN hash["B"] /\ n \in DOMAIN tree["B"] /\ old \in Nat \ {0} /\ q \in Nat \ {0}
        /\ Held("B", i) = tree["B"][n]
    BY <1>2, QuantityAssumption DEF BookInv, SideInv, Known, Held, Order, Side
  <2>2. Delta("B", i, q) = old - q /\ q <= old
    BY <1>2, <2>1 DEF Overfilled, Delta
  <2>3. j \in DOMAIN hash["S"] /\ q > Held("S", j).qty
    <3>1. j \in DOMAIN hash["S"] /\ Held("S", j).qty \in Nat /\ Held("S", j).qty - q < 0
      BY QuantityAssumption DEF BookInv, SideInv, Overfilled, Known, Delta, Held, Order, Side
    <3>2. QED
      BY <2>1, <3>1
  <2>4. CASE q = old
    <3>1. tree'["B"] = Drop(tree["B"], n) /\ hash'["B"] = Drop(hash["B"], i)
      BY <1>2, <2>1, <2>2, <2>4 DEF TreeAfterLeg, HashAfterLeg, Reduced, Filled
    <3>2. /\ DOMAIN tree'["B"] = DOMAIN tree["B"] \ {n}
          /\ \A m \in DOMAIN tree'["B"] : tree'["B"][m] = tree["B"][m] /\ m # n
          /\ DOMAIN hash'["B"] = DOMAIN hash["B"] \ {i}
          /\ \A k \in DOMAIN hash'["B"] : hash'["B"][k] = hash["B"][k]
      BY <3>1 DEF Drop, Restrict
    <3>3. QED
      BY <2>1, <2>2, <2>3, <2>4, <3>2 DEF LeftByTrade
  <2>5. CASE q # old
    <3>1. tree'["B"] = SetQty(tree["B"], n, old - q) /\ hash'["B"] = hash["B"]
      BY <1>2, <2>1, <2>2, <2>5 DEF TreeAfterLeg, HashAfterLeg, Reduced, Filled
    <3>2. /\ DOMAIN tree'["B"] = DOMAIN tree["B"]
          /\ \A m \in DOMAIN tree["B"] :
               tree'["B"][m] = IF m = n THEN [tree["B"][m] EXCEPT !.qty = old - q] ELSE tree["B"][m]
      BY <2>1, <3>1 DEF SetQty
    <3>3. [tree["B"][n] EXCEPT !.qty = old - q] = [tree["B"][n] EXCEPT !.qty = @ - q]
      BY <2>1
    <3>4. QED
      BY <2>1, <2>2, <2>3, <2>5, <3>1, <3>2, <3>3 DEF LeftByTrade
  <2>6. QED
    BY <2>4, <2>5
<1>3. QED
  BY <1>1, <1>2

(* A trade throws for its buy leg, with nothing done, or for its sell leg,  *)
(* with nothing done to the sells.                                          *)
LEMMA TradeStep ==
  ASSUME BookInv, NEW leg, NEW q \in Quantity, ProcessTrade(leg, q)
  PROVE  OrphanStep /\ ThrowStep
<1>1. CASE Overfilled("B", leg["B"], q)
  <2>1. \A s \in Side : tree'[s] = tree[s] /\ hash'[s] = hash[s]
    BY <1>1 DEF ProcessTrade
  <2>2. OrphanStep
    BY <2>1, OrphansKept DEF SameOrphans, OrphansOf
  <2>3. ThrowStep
    BY <2>1 DEF ThrowStep, Kept
  <2>4. QED
    BY <2>2, <2>3
<1>2. CASE ~Overfilled("B", leg["B"], q)
  <2>1. \A s \in Side : /\ tree'[s] = TreeAfterLeg(s, leg[s], q)
                        /\ hash'[s] = HashAfterLeg(s, leg[s], q)
    BY <1>2 DEF ProcessTrade
  <2>2. OrphanStep
    BY <2>1, LegOrphans, OrphansKept
  <2>3. threw' => Overfilled("S", leg["S"], q)
    BY <1>2 DEF ProcessTrade, Side
  <2>4. threw' => tree'["S"] = tree["S"] /\ hash'["S"] = hash["S"]
    BY <2>1, <2>3, LegOrphans DEF Side
  <2>5. ASSUME threw' PROVE ThrowStep
    <3>1. Kept("S")
      BY <2>4, <2>5 DEF Kept
    <3>2. Kept("B") \/ (leg["B"] \in DOMAIN hash["B"] /\ LeftByTrade(leg["B"], q))
      <4>1. tree'["B"] = TreeAfterLeg("B", leg["B"], q) /\ hash'["B"] = HashAfterLeg("B", leg["B"], q)
        BY <2>1 DEF Side
      <4>2. Overfilled("S", leg["S"], q)
        BY <2>3, <2>5
      <4> DEFINE i == leg["B"]
                 j == leg["S"]
      <4>3. ~Overfilled("B", i, q)
        BY <1>2
      <4> HIDE DEF i, j
      <4>4. QED
        BY <4>1, <4>2, <4>3, BuyLegStep DEF i, j
    <3>3. QED
      BY <3>1, <3>2 DEF ThrowStep, Kept, Side
  <2>6. ThrowStep
    BY <2>5 DEF ThrowStep
  <2>7. QED
    BY <2>2, <2>6
<1>3. QED
  BY <1>1, <1>2

LEMMA EveryStep == BookInv /\ Next => OrphanStep /\ ThrowStep
<1> SUFFICES ASSUME BookInv, Next PROVE OrphanStep /\ ThrowStep
  OBVIOUS
<1>1. ASSUME NEW s \in Side, NEW o \in Message,
             NewOrder(s, o) \/ ModifyUnknown(s, o) \/ ModifyPrice(s, o) \/ ModifyQty(s, o)
      PROVE  OrphanStep /\ ThrowStep
  BY <1>1, NewOrderStep, ModifyPriceStep, ModifyQtyStep DEF ModifyUnknown
<1>2. ASSUME NEW s \in Side, NEW i \in OrderId, Cancel(s, i) PROVE OrphanStep /\ ThrowStep
  BY <1>2, CancelStep
<1>3. ASSUME NEW s \in Side, NEW i \in OrderId, CancelUnknown(s, i) PROVE OrphanStep /\ ThrowStep
  BY <1>3, UnchangedStep DEF CancelUnknown, Ignore, ThrowStep
<1>4. ASSUME NEW leg \in [Side -> OrderId \cup {NoOrder}], NEW q \in Quantity, ProcessTrade(leg, q)
      PROVE  OrphanStep /\ ThrowStep
  BY <1>4, TradeStep
<1>5. QED
  BY <1>1, <1>2, <1>3, <1>4 DEF Next, Update, Trade
-----------------------------------------------------------------------------
(* An order that a refused 'N' left in a multimap is never changed or taken *)
(* out again, for any number of orders (OrderBookImproved.cpp:22-24).       *)
THEOREM OrphansAreForGood == Spec => OrphansStay
<1>1. BookInv /\ [Next]_vars => [OrphanStep]_vars
  BY EveryStep
<1>2. QED
  BY <1>1, BookInvAlways, PTL DEF Spec, OrphansStay, OrphanStep

(* A call that throws has left the book as it was, or one node of a refused *)
(* 'N', or one buy order executed against a sell order too small for it,    *)
(* and every other order and name as it was, for any number of orders       *)
(* (OrderBookImproved.cpp:22-24, 115).                                      *)
THEOREM ThrowsLeaveLittle == Spec => ThrownCallsLeave
<1>1. BookInv /\ [Next]_vars => [ThrowStep]_vars
  BY EveryStep
<1>2. QED
  BY <1>1, BookInvAlways, PTL DEF Spec, ThrownCallsLeave
-----------------------------------------------------------------------------
(* The sums of quantities a level prints. They are folds over finite sets, *)
(* compared here by the smallest set on which they would differ.            *)
LEMMA LeastNat ==
  ASSUME NEW N \in SUBSET Nat, N # {}
  PROVE  \E n \in N : \A m \in N : n <= m
<1>1. PICK n \in N : \A m \in N : <<m, n>> \notin OpToRel(<, Nat)
  BY NatLessThanWellFounded, WFMin, Zenon
<1>2. \A m \in N : ~(m < n)
  BY <1>1 DEF OpToRel
<1>3. QED
  BY <1>2

(* The sum of f over the subsets of a set, element by element.              *)
Pick(T) == CHOOSE x \in T : TRUE
Sums(D, f, g) ==
  g = [T \in D |-> IF T = {} THEN 0 ELSE f[Pick(T)] + g[T \ {Pick(T)}]]

LEMMA SumsExist ==
  ASSUME NEW S, IsFiniteSet(S), NEW f \in [S -> Nat]
  PROVE  \E g \in [SUBSET S -> Nat] : Sums(SUBSET S, f, g)
<1> DEFINE D(n) == {T \in SUBSET S : Cardinality(T) <= n}
           Ok(n) == \E g \in [D(n) -> Nat] : Sums(D(n), f, g)
           Bad == {n \in Nat : ~Ok(n)}
<1>1. \A T \in SUBSET S : IsFiniteSet(T) /\ Cardinality(T) \in Nat
  BY FS_Subset, FS_CardinalityType
<1>2. Ok(0)
  <2>1. \A T \in D(0) : T = {}
    BY <1>1, FS_EmptySet
  <2>2. [T \in D(0) |-> 0] = [T \in D(0) |-> IF T = {} THEN 0 ELSE
                                f[Pick(T)] + [U \in D(0) |-> 0][T \ {Pick(T)}]]
    BY <2>1
  <2>3. [T \in D(0) |-> 0] \in [D(0) -> Nat]
    OBVIOUS
  <2>4. QED
    BY <2>2, <2>3 DEF Sums
<1>3. ASSUME NEW n \in Nat, Ok(n) PROVE Ok(n + 1)
  <2>1. PICK g \in [D(n) -> Nat] : Sums(D(n), f, g)
    BY <1>3
  <2> DEFINE h == [T \in D(n + 1) |-> IF T = {} THEN 0 ELSE f[Pick(T)] + g[T \ {Pick(T)}]]
  <2>2. \A T \in D(n + 1) : T # {} => Pick(T) \in T /\ T \ {Pick(T)} \in D(n)
    <3> SUFFICES ASSUME NEW T \in D(n + 1), T # {} PROVE Pick(T) \in T /\ T \ {Pick(T)} \in D(n)
      OBVIOUS
    <3>1. Pick(T) \in T
      BY DEF Pick
    <3>2. Cardinality(T \ {Pick(T)}) = Cardinality(T) - 1
      BY <1>1, <3>1, FS_RemoveElement
    <3>3. QED
      BY <1>1, <3>1, <3>2
  <2>3. \A T \in D(n) : T \in D(n + 1) /\ h[T] = g[T]
    <3> SUFFICES ASSUME NEW T \in D(n) PROVE T \in D(n + 1) /\ h[T] = g[T]
      OBVIOUS
    <3>1. T \in D(n + 1)
      BY <1>1
    <3>2. g[T] = IF T = {} THEN 0 ELSE f[Pick(T)] + g[T \ {Pick(T)}]
      BY <2>1 DEF Sums
    <3>3. QED
      BY <3>1, <3>2
  <2>4. \A T \in D(n + 1) : T # {} => h[T \ {Pick(T)}] = g[T \ {Pick(T)}]
    BY <2>2, <2>3
  <2>5. h = [T \in D(n + 1) |-> IF T = {} THEN 0 ELSE f[Pick(T)] + h[T \ {Pick(T)}]]
    BY <2>4
  <2>6. h \in [D(n + 1) -> Nat]
    BY <2>2
  <2>7. QED
    BY <2>5, <2>6 DEF Sums
<1> HIDE DEF Ok
<1>4. \A n \in Nat : Ok(n)
  <2> SUFFICES ASSUME Bad # {} PROVE FALSE
    OBVIOUS
  <2>1. PICK n \in Bad : \A m \in Bad : n <= m
    BY LeastNat
  <2>2. n # 0 /\ n - 1 \in Nat /\ n - 1 \notin Bad
    BY <1>2, <2>1
  <2>3. Ok(n - 1 + 1)
    BY <1>3, <2>2
  <2>4. QED
    BY <2>1, <2>3
<1>5. D(Cardinality(S)) = SUBSET S
  BY <1>1, FS_Subset
<1>6. Ok(Cardinality(S))
  BY <1>1, <1>4, FS_CardinalityType
<1> HIDE DEF D
<1>7. QED
  BY <1>5, <1>6 DEF Ok

(* A nonempty family of subsets of a finite set has a minimal member.       *)
LEMMA MinimalSubset ==
  ASSUME NEW S, IsFiniteSet(S), NEW B \in SUBSET (SUBSET S), B # {}
  PROVE  \E T \in B : \A x \in T : T \ {x} \notin B
<1> DEFINE N == {Cardinality(T) : T \in B}
<1>1. \A T \in SUBSET S : IsFiniteSet(T) /\ Cardinality(T) \in Nat
  BY FS_Subset, FS_CardinalityType
<1>2. PICK n \in N : \A m \in N : n <= m
  <2>1. N \in SUBSET Nat /\ N # {}
    BY <1>1
  <2>2. QED
    BY <2>1, LeastNat
<1>3. PICK T \in B : Cardinality(T) = n
  BY <1>2
<1>4. ASSUME NEW x \in T, T \ {x} \in B PROVE FALSE
  <2>1. Cardinality(T \ {x}) = Cardinality(T) - 1 /\ Cardinality(T) \in Nat
    BY <1>1, <1>3, FS_RemoveElement
  <2>2. n <= Cardinality(T \ {x})
    BY <1>2, <1>4
  <2>3. QED
    BY <1>3, <2>1, <2>2
<1>5. QED
  BY <1>4

LEMMA SumType ==
  ASSUME NEW S, IsFiniteSet(S), NEW f \in [S -> Nat], NEW g, Sums(SUBSET S, f, g)
  PROVE  g \in [SUBSET S -> Nat]
<1> DEFINE B == {T \in SUBSET S : g[T] \notin Nat}
<1>1. g = [T \in SUBSET S |-> IF T = {} THEN 0 ELSE f[Pick(T)] + g[T \ {Pick(T)}]]
  BY DEF Sums
<1>2. ASSUME B # {} PROVE FALSE
  <2>1. PICK T \in B : \A x \in T : T \ {x} \notin B
    BY <1>2, MinimalSubset
  <2>2. T # {}
    BY <1>1
  <2>3. Pick(T) \in T
    BY <2>2 DEF Pick
  <2>4. T \ {Pick(T)} \in SUBSET S /\ g[T \ {Pick(T)}] \in Nat
    BY <2>1, <2>3
  <2>5. f[Pick(T)] \in Nat
    BY <2>3
  <2>6. g[T] = f[Pick(T)] + g[T \ {Pick(T)}]
    BY <1>1, <2>2
  <2>7. QED
    BY <2>4, <2>5, <2>6
<1>3. QED
  BY <1>1, <1>2

(* The element a sum takes first does not matter. *)
LEMMA SumAt ==
  ASSUME NEW S, IsFiniteSet(S), NEW f \in [S -> Nat], NEW g, Sums(SUBSET S, f, g),
         NEW T \in SUBSET S, NEW x \in T
  PROVE  g[T] = f[x] + g[T \ {x}]
<1> DEFINE B == {U \in SUBSET S : \E y \in U : g[U] # f[y] + g[U \ {y}]}
<1>1. \A U \in SUBSET S : g[U] = IF U = {} THEN 0 ELSE f[Pick(U)] + g[U \ {Pick(U)}]
  BY DEF Sums
<1>2. g \in [SUBSET S -> Nat]
  BY SumType
<1>3. ASSUME B # {} PROVE FALSE
  <2>1. PICK U \in B : \A y \in U : U \ {y} \notin B
    BY <1>3, MinimalSubset
  <2>2. PICK y \in U : g[U] # f[y] + g[U \ {y}]
    BY <2>1
  <2> DEFINE p == Pick(U)
  <2>3. p \in U
    BY <2>2 DEF Pick
  <2>4. g[U] = f[p] + g[U \ {p}]
    BY <1>1, <2>2
  <2> HIDE DEF p
  <2>5. p # y
    BY <2>2, <2>4
  <2>6. g[U \ {p}] = f[y] + g[(U \ {p}) \ {y}]
    BY <2>1, <2>3, <2>5
  <2>7. g[U \ {y}] = f[p] + g[(U \ {y}) \ {p}]
    BY <2>1, <2>3, <2>5
  <2>8. (U \ {p}) \ {y} = (U \ {y}) \ {p}
    OBVIOUS
  <2>9. f[p] \in Nat /\ f[y] \in Nat /\ g[(U \ {y}) \ {p}] \in Nat
    BY <1>2, <2>3
  <2> DEFINE rest == g[(U \ {y}) \ {p}]
  <2>10. g[U \ {p}] = f[y] + rest
    BY <2>6, <2>8
  <2>11. g[U \ {y}] = f[p] + rest
    BY <2>7
  <2> HIDE DEF rest
  <2>12. g[U] = f[p] + (f[y] + rest) /\ g[U] # f[y] + (f[p] + rest)
    BY <2>2, <2>4, <2>10, <2>11
  <2>13. f[p] \in Nat /\ f[y] \in Nat /\ rest \in Nat
    BY <2>9 DEF rest
  <2>14. QED
    BY <2>12, <2>13
<1>4. QED
  BY <1>3

(* Two sums of the same terms, matched one to one by b, are equal. *)
Matched(S, f, g, R, e, h, b) ==
  /\ IsFiniteSet(S) /\ f \in [S -> Nat] /\ Sums(SUBSET S, f, g)
  /\ IsFiniteSet(R) /\ e \in [R -> Nat] /\ Sums(SUBSET R, e, h)
  /\ b \in [R -> S]
  /\ \A x, y \in R : b[x] = b[y] => x = y
  /\ \A y \in S : \E x \in R : b[x] = y
  /\ \A x \in R : e[x] = f[b[x]]

LEMMA SumOfImage ==
  ASSUME NEW S, NEW f, NEW g, NEW R, NEW e, NEW h, NEW b, Matched(S, f, g, R, e, h, b)
  PROVE  h[R] = g[S]
<1> DEFINE Img(T) == {b[x] : x \in T}
           B == {T \in SUBSET R : h[T] # g[Img(T)]}
<1> USE DEF Matched
<1>0. ASSUME NEW T \in SUBSET R, NEW x \in T PROVE h[T] = e[x] + h[T \ {x}]
  BY SumAt
<1>1. ASSUME B # {} PROVE FALSE
  <2>1. PICK T \in B : \A x \in T : T \ {x} \notin B
    BY <1>1, MinimalSubset
  <2>2. Img(T) \in SUBSET S
    OBVIOUS
  <2>3. CASE T = {}
    <3>1. Img(T) = {}
      BY <2>3
    <3>2. h[{}] = 0 /\ g[{}] = 0
      BY DEF Sums
    <3>3. QED
      BY <2>1, <2>3, <3>1, <3>2
  <2>4. ASSUME NEW x \in T PROVE FALSE
    <3>1. h[T] = e[x] + h[T \ {x}]
      BY <1>0, <2>1, <2>4
    <3>2. b[x] \in Img(T)
      BY <2>4
    <3>3. g[Img(T)] = f[b[x]] + g[Img(T) \ {b[x]}]
      BY <2>2, <3>2, SumAt
    <3>4. Img(T) \ {b[x]} = Img(T \ {x})
      BY <2>1, <2>4
    <3>5. h[T \ {x}] = g[Img(T \ {x})]
      BY <2>1, <2>4
    <3>6. QED
      BY <2>1, <2>4, <3>1, <3>3, <3>4, <3>5
  <2>5. QED
    BY <2>3, <2>4
<1>2. h[R] = g[Img(R)]
  BY <1>1
<1>3. Img(R) = S
  OBVIOUS
<1>4. QED
  BY <1>2, <1>3

-----------------------------------------------------------------------------
(* What the two sums of a level are.                                        *)
LEMMA QtyOfSums ==
  ASSUME NEW s, NEW E, IsFiniteSet(E), \A n \in E : tree[s][n].qty \in Nat
  PROVE  \E g : Sums(SUBSET E, [n \in E |-> tree[s][n].qty], g) /\ QtyOf(s, E) = g[E]
<1> DEFINE f == [n \in E |-> tree[s][n].qty]
           Is(g) == g = [T \in SUBSET E |-> IF T = {} THEN 0
                          ELSE tree[s][Pick(T)].qty + g[T \ {Pick(T)}]]
           g == CHOOSE h : Is(h)
<1>1. \A T \in SUBSET E : T # {} => f[Pick(T)] = tree[s][Pick(T)].qty
  BY DEF Pick
<1>2. ASSUME NEW h PROVE Sums(SUBSET E, f, h) <=> Is(h)
  <2>1. [T \in SUBSET E |-> IF T = {} THEN 0 ELSE f[Pick(T)] + h[T \ {Pick(T)}]]
        = [T \in SUBSET E |-> IF T = {} THEN 0 ELSE tree[s][Pick(T)].qty + h[T \ {Pick(T)}]]
    BY <1>1
  <2>2. QED
    BY <2>1 DEF Sums
<1>3. \E h : Is(h)
  <2>1. f \in [E -> Nat]
    OBVIOUS
  <2> HIDE DEF f, Is
  <2>2. \E h : Sums(SUBSET E, f, h)
    BY <2>1, SumsExist
  <2>3. QED
    BY <1>2, <2>2
<1> HIDE DEF Is
<1>4. Is(g)
  BY <1>3
<1>5. QtyOf(s, E) = g[E]
  BY DEF QtyOf, MapThenSumSet, MapThenFoldSet, Pick, Is
<1>6. QED
  BY <1>2, <1>4, <1>5

LEMMA LiveSums ==
  ASSUME NEW s, NEW p, NEW L, L = LiveAt(s, p), IsFiniteSet(L),
         \A i \in L : Held(s, i).qty \in Nat
  PROVE  \E g : Sums(SUBSET L, [i \in L |-> Held(s, i).qty], g) /\ LiveLevel(s, p).qty = g[L]
<1> DEFINE f == [i \in L |-> Held(s, i).qty]
           Is(g) == g = [T \in SUBSET L |-> IF T = {} THEN 0
                          ELSE Held(s, Pick(T)).qty + g[T \ {Pick(T)}]]
           g == CHOOSE h : Is(h)
<1>1. \A T \in SUBSET L : T # {} => f[Pick(T)] = Held(s, Pick(T)).qty
  BY DEF Pick
<1>2. ASSUME NEW h PROVE Sums(SUBSET L, f, h) <=> Is(h)
  <2>1. [T \in SUBSET L |-> IF T = {} THEN 0 ELSE f[Pick(T)] + h[T \ {Pick(T)}]]
        = [T \in SUBSET L |-> IF T = {} THEN 0 ELSE Held(s, Pick(T)).qty + h[T \ {Pick(T)}]]
    BY <1>1
  <2>2. QED
    BY <2>1 DEF Sums
<1>3. \E h : Is(h)
  <2>1. f \in [L -> Nat]
    OBVIOUS
  <2> HIDE DEF f, Is
  <2>2. \E h : Sums(SUBSET L, f, h)
    BY <2>1, SumsExist
  <2>3. QED
    BY <1>2, <2>2
<1> HIDE DEF Is
<1>4. Is(g)
  BY <1>3
<1>5. LiveLevel(s, p).qty = g[L]
  BY DEF LiveLevel, MapThenSumSet, MapThenFoldSet, Pick, Is
<1>6. QED
  BY <1>2, <1>4, <1>5

(* A side without orphans: a level holds its live orders, one node each.    *)
LEMMA LevelIsLive ==
  ASSUME NEW s \in Side, SideInv(tree[s], hash[s]), IsFiniteSet(DOMAIN tree[s]),
         Orphans(s) = {}, NEW p
  PROVE  /\ QtyOf(s, EqualRange(s, p)) = LiveLevel(s, p).qty
         /\ Cardinality(EqualRange(s, p)) = LiveLevel(s, p).count
<1> DEFINE E == EqualRange(s, p)
           L == LiveAt(s, p)
           b == [i \in LiveAt(s, p) |-> hash[s][i]]
           f == [n \in E |-> tree[s][n].qty]
           e == [i \in L |-> Held(s, i).qty]
<1>1. \A i \in DOMAIN hash[s] : hash[s][i] \in DOMAIN tree[s] /\ Held(s, i).id = i
  BY DEF SideInv, Held
<1>2. \A n \in DOMAIN tree[s] : tree[s][n].qty \in Nat /\ tree[s][n] \in Order
  BY DEF SideInv, Order
<1>3. b \in [L -> E] /\ \A i, j \in L : b[i] = b[j] => i = j
  BY <1>1 DEF LiveAt, EqualRange, Held
<1>4. \A n \in E : \E i \in L : b[i] = n
  BY DEF LiveAt, EqualRange, Orphans, Range, Held
<1>5. IsFiniteSet(E)
  <2>1. E \in SUBSET DOMAIN tree[s]
    BY DEF EqualRange
  <2>2. QED
    BY <2>1, FS_Subset
<1>6. b \in Bijection(L, E)
  <2> HIDE DEF E, L, b
  <2>1. QED
    BY <1>3, <1>4 DEF Bijection, Injection, Surjection, IsInjective
<1>7. IsFiniteSet(L) /\ Cardinality(E) = Cardinality(L)
  <2>1. b \in Injection(L, E) /\ b \in Surjection(L, E)
    BY <1>6 DEF Bijection
  <2>2. IsFiniteSet(L)
    BY <1>5, <2>1, FS_Injection
  <2>3. ExistsBijection(L, E)
    BY <1>6 DEF ExistsBijection
  <2>4. QED
    BY <2>2, <2>3, FS_Bijection
<1>8. f \in [E -> Nat] /\ e \in [L -> Nat] /\ \A i \in L : e[i] = f[b[i]]
  BY <1>1, <1>2, <1>3 DEF EqualRange, LiveAt, Held
<1>9. PICK g : Sums(SUBSET E, f, g) /\ QtyOf(s, E) = g[E]
  <2>1. \A n \in E : tree[s][n].qty \in Nat
    BY <1>2 DEF EqualRange
  <2> HIDE DEF E
  <2>2. QED
    BY <1>5, <2>1, QtyOfSums
<1>10. PICK h : Sums(SUBSET L, e, h) /\ LiveLevel(s, p).qty = h[L]
  <2>1. \A i \in L : Held(s, i).qty \in Nat
    BY <1>1, <1>2 DEF LiveAt, Held
  <2>2. L = LiveAt(s, p)
    OBVIOUS
  <2> HIDE DEF L
  <2>3. QED
    BY <1>7, <2>1, <2>2, LiveSums
<1>11. h[L] = g[E]
  <2> HIDE DEF E, L, b, f, e
  <2>1. IsFiniteSet(E) /\ f \in [E -> Nat] /\ Sums(SUBSET E, f, g)
    BY <1>5, <1>8, <1>9
  <2>2. IsFiniteSet(L) /\ e \in [L -> Nat] /\ Sums(SUBSET L, e, h)
    BY <1>7, <1>8, <1>10
  <2>3. b \in [L -> E] /\ \A i, j \in L : b[i] = b[j] => i = j
    BY <1>3
  <2>4. (\A i \in L : e[i] = f[b[i]]) /\ \A n \in E : \E i \in L : b[i] = n
    BY <1>4, <1>8
  <2>5. Matched(E, f, g, L, e, h, b)
    BY <2>1, <2>2, <2>3, <2>4 DEF Matched
  <2>6. QED
    BY <2>5, SumOfImage
<1>12. QED
  BY <1>7, <1>9, <1>10, <1>11 DEF LiveLevel

-----------------------------------------------------------------------------
(* The walk from the best price on: it stops at Depth levels, and a price   *)
(* it does not reach is worse than every price of a full page.              *)
LEMMA BestPrices ==
  ASSUME NEW s \in Side, IsFiniteSet(PricesOf(s)), PricesOf(s) \subseteq Int
  PROVE  /\ Cardinality(Shown(s)) <= Depth
         /\ \A p \in PricesOf(s) \ Shown(s) :
              Cardinality(Shown(s)) = Depth /\ \A r \in Shown(s) : Better(s, r, p)
<1> DEFINE P == PricesOf(s)
           above(p) == {r \in P : Better(s, r, p)}
           rank == [p \in P |-> Cardinality(above(p))]
<1>1. \A p, r \in P : p = r \/ Better(s, p, r) \/ Better(s, r, p)
  BY DEF Better
<1>2. \A p, r, q \in P : Better(s, p, r) /\ Better(s, r, q) => Better(s, p, q)
  BY DEF Better
<1>3. \A p \in P : ~Better(s, p, p)
  BY DEF Better
<1>4. rank \in [P -> Nat] /\ \A p \in P : IsFiniteSet(above(p)) /\ rank[p] = Cardinality(above(p))
  BY FS_Subset, FS_CardinalityType
<1>5. Shown(s) = {p \in P : rank[p] < Depth}
  BY DEF Shown
<1>6. IsFiniteSet(Shown(s)) /\ Cardinality(Shown(s)) \in Nat
  <2>1. Shown(s) \in SUBSET P
    BY <1>5
  <2>2. QED
    BY <2>1, FS_Subset, FS_CardinalityType
<1> HIDE DEF P, rank
<1>7. ASSUME NEW p \in P, NEW r \in P, Better(s, r, p) PROVE rank[r] < rank[p]
  <2>1. above(r) \in SUBSET above(p)
    BY <1>2, <1>7
  <2>2. r \in above(p) /\ r \notin above(r)
    BY <1>3, <1>7
  <2> HIDE DEF above
  <2>3. rank[r] <= rank[p] /\ rank[r] # rank[p]
    BY <1>4, <2>1, <2>2, FS_Subset
  <2>4. QED
    BY <1>4, <2>3
<1>8. Cardinality(Shown(s)) <= Depth
  <2>1. CASE Shown(s) = {}
    BY <2>1, FS_EmptySet, DepthAssumption
  <2>2. CASE Shown(s) # {}
    <3> DEFINE N == {Depth - rank[p] : p \in Shown(s)}
    <3>0. \A p \in Shown(s) : rank[p] \in Nat /\ rank[p] < Depth
      BY <1>4, <1>5
    <3>1. N \in SUBSET Nat /\ N # {}
      BY <2>2, <3>0, DepthAssumption
    <3>2. PICK n \in N : \A m \in N : n <= m
      <4> HIDE DEF N
      <4>1. QED
        BY <3>1, LeastNat
    <3>3. PICK q \in Shown(s) : n = Depth - rank[q]
      BY <3>2
    <3>4. \A r \in Shown(s) : rank[r] <= rank[q]
      <4> SUFFICES ASSUME NEW r \in Shown(s) PROVE rank[r] <= rank[q]
        OBVIOUS
      <4>1. Depth - rank[q] <= Depth - rank[r]
        BY <3>2, <3>3
      <4>2. QED
        BY <3>0, <4>1, DepthAssumption
    <3>5. \A r \in Shown(s) : ~Better(s, q, r)
      BY <1>4, <1>5, <1>7, <3>4
    <3>6. Shown(s) \ {q} \in SUBSET above(q)
      BY <1>1, <1>5, <3>5
    <3>7. Cardinality(Shown(s) \ {q}) <= rank[q]
      <4>1. q \in P /\ IsFiniteSet(above(q)) /\ rank[q] = Cardinality(above(q))
        BY <1>4, <1>5
      <4> HIDE DEF above
      <4>2. QED
        BY <3>6, <4>1, FS_Subset
    <3>8. Cardinality(Shown(s) \ {q}) = Cardinality(Shown(s)) - 1
      BY <1>6, FS_RemoveElement
    <3>9. rank[q] < Depth /\ rank[q] \in Nat
      BY <1>4, <1>5
    <3>10. QED
      BY <1>6, <3>7, <3>8, <3>9, DepthAssumption
  <2>3. QED
    BY <2>1, <2>2
<1>9. ASSUME NEW p \in P \ Shown(s), NEW r \in Shown(s) PROVE Better(s, r, p)
  BY <1>1, <1>4, <1>5, <1>7, DepthAssumption
<1>10. ASSUME NEW p \in P \ Shown(s) PROVE Cardinality(Shown(s)) = Depth
  <2> DEFINE N == {rank[q] : q \in P \ Shown(s)}
  <2>1. N \in SUBSET Nat /\ N # {}
    BY <1>4, <1>10
  <2>2. PICK n \in N : \A m \in N : n <= m
    <3> HIDE DEF N
    <3>1. QED
      BY <2>1, LeastNat
  <2>3. PICK q \in P \ Shown(s) : n = rank[q]
    BY <2>2
  <2>4. \A r \in P \ Shown(s) : rank[q] <= rank[r]
    BY <2>2, <2>3
  <2>5. above(q) \in SUBSET Shown(s)
    <3>1. ASSUME NEW r \in above(q), r \notin Shown(s) PROVE FALSE
      <4>1. rank[r] < rank[q] /\ r \in P
        BY <1>7, <3>1
      <4>2. QED
        BY <1>4, <2>4, <3>1, <4>1
    <3>2. QED
      BY <3>1
  <2>6. rank[q] <= Cardinality(Shown(s))
    <3>1. rank[q] = Cardinality(above(q))
      BY <1>4
    <3> HIDE DEF above
    <3>2. QED
      BY <1>6, <2>5, <3>1, FS_Subset
  <2>7. rank[q] \in Nat /\ ~(rank[q] < Depth)
    BY <1>4, <1>5
  <2>8. QED
    BY <1>6, <1>8, <2>6, <2>7, DepthAssumption
<1>11. QED
  BY <1>8, <1>9, <1>10 DEF P

(* The orders of a side are finitely many: a call adds at most one node.    *)
FiniteBook == \A s \in Side : IsFiniteSet(DOMAIN tree[s])

LEMMA AtMostOneNode ==
  ASSUME BookInv, [Next]_vars
  PROVE  \A s \in Side : \E n : DOMAIN tree'[s] \subseteq DOMAIN tree[s] \cup {n}
<1> DEFINE One == \A s \in Side : \E n : DOMAIN tree'[s] \subseteq DOMAIN tree[s] \cup {n}
<1>1. ASSUME NEW t \in Side, NEW T, tree' = [tree EXCEPT ![t] = T],
             \E n : DOMAIN T \subseteq DOMAIN tree[t] \cup {n}
      PROVE  One
  BY <1>1 DEF BookInv
<1>2. ASSUME NEW t \in Side, NEW o \in Message, NewOrder(t, o) PROVE One
  <2>1. PICK n : tree' = [tree EXCEPT ![t] = Put(tree[t], n, o)]
    BY <1>2 DEF NewOrder
  <2>2. DOMAIN Put(tree[t], n, o) \subseteq DOMAIN tree[t] \cup {n}
    BY DEF Put
  <2>3. QED
    BY <1>1, <2>1, <2>2
<1>3. ASSUME NEW t \in Side, NEW o \in Message, ModifyPrice(t, o) PROVE One
  <2>1. PICK n : tree' = [tree EXCEPT ![t] = Put(Drop(tree[t], hash[t][o.id]), n, o)]
    BY <1>3 DEF ModifyPrice
  <2>2. DOMAIN Put(Drop(tree[t], hash[t][o.id]), n, o) \subseteq DOMAIN tree[t] \cup {n}
    BY DEF Put, Drop, Restrict
  <2>3. QED
    BY <1>1, <2>1, <2>2
<1>4. ASSUME NEW t \in Side, NEW o \in Message, ModifyQty(t, o) PROVE One
  <2>1. tree' = [tree EXCEPT ![t] = SetQty(tree[t], hash[t][o.id], o.qty)]
    BY <1>4 DEF ModifyQty
  <2>2. DOMAIN SetQty(tree[t], hash[t][o.id], o.qty) \subseteq DOMAIN tree[t] \cup {0}
    BY DEF SetQty
  <2>3. QED
    BY <1>1, <2>1, <2>2
<1>5. ASSUME NEW t \in Side, NEW i \in OrderId, Cancel(t, i) PROVE One
  <2>1. tree' = [tree EXCEPT ![t] = Drop(tree[t], hash[t][i])]
    BY <1>5 DEF Cancel
  <2>2. DOMAIN Drop(tree[t], hash[t][i]) \subseteq DOMAIN tree[t] \cup {0}
    BY DEF Drop, Restrict
  <2>3. QED
    BY <1>1, <2>1, <2>2
<1>6. ASSUME NEW leg, NEW q, ProcessTrade(leg, q) PROVE One
  <2>1. \A s \in Side : DOMAIN TreeAfterLeg(s, leg[s], q) \subseteq DOMAIN tree[s]
    BY DEF TreeAfterLeg, SetQty, Drop, Restrict
  <2>2. \A s \in Side : tree'[s] = tree[s] \/ tree'[s] = TreeAfterLeg(s, leg[s], q)
    BY <1>6 DEF ProcessTrade
  <2>3. QED
    BY <2>1, <2>2
<1>7. tree' = tree => One
  OBVIOUS
<1>8. QED
  BY <1>2, <1>3, <1>4, <1>5, <1>6, <1>7
     DEF Next, Update, Trade, ModifyUnknown, CancelUnknown, Ignore, vars

LEMMA FiniteBookAlways == Spec => []FiniteBook
<1>1. Init => FiniteBook
  <2> SUFFICES ASSUME Init PROVE FiniteBook
    OBVIOUS
  <2>1. \A s \in Side : DOMAIN tree[s] = {}
    BY DEF Init
  <2>2. QED
    BY <2>1, FS_EmptySet DEF FiniteBook
<1>2. BookInv /\ FiniteBook /\ [Next]_vars => FiniteBook'
  <2> SUFFICES ASSUME BookInv, FiniteBook, [Next]_vars, NEW s \in Side
               PROVE  IsFiniteSet(DOMAIN tree'[s])
    BY DEF FiniteBook
  <2>1. PICK n : DOMAIN tree'[s] \subseteq DOMAIN tree[s] \cup {n}
    BY AtMostOneNode
  <2>2. IsFiniteSet(DOMAIN tree[s] \cup {n})
    BY FS_AddElement DEF FiniteBook
  <2>3. DOMAIN tree'[s] \in SUBSET (DOMAIN tree[s] \cup {n})
    BY <2>1
  <2>4. QED
    BY <2>2, <2>3, FS_Subset
<1>3. QED
  BY <1>1, <1>2, BookInvAlways, PTL DEF Spec

(* The levels written: for any number of orders and any Depth, a side       *)
(* without orphans prints its live orders, the best prices first, each with *)
(* their sum and their number.                                              *)
THEOREM PrintsLiveOrders == Spec => []ShowsLiveOrders
<1>1. BookInv /\ FiniteBook => ShowsLiveOrders
  <2> SUFFICES ASSUME BookInv, FiniteBook, NEW s \in Side, Orphans(s) = {}
               PROVE  /\ Cardinality(Shown(s)) <= Depth
                      /\ Levels(s) = [p \in Shown(s) |-> LiveLevel(s, p)]
                      /\ \A i \in DOMAIN hash[s] :
                           \/ Held(s, i).price \in Shown(s)
                           \/ /\ Cardinality(Shown(s)) = Depth
                              /\ \A p \in Shown(s) : Better(s, p, Held(s, i).price)
    BY DEF ShowsLiveOrders
  <2>1. SideInv(tree[s], hash[s]) /\ IsFiniteSet(DOMAIN tree[s])
    BY DEF BookInv, FiniteBook
  <2>2. IsFiniteSet(PricesOf(s)) /\ PricesOf(s) \subseteq Int
    <3> DEFINE D == DOMAIN tree[s]
               f == [n \in DOMAIN tree[s] |-> tree[s][n].price]
    <3>1. f \in Surjection(D, PricesOf(s))
      BY DEF Surjection, PricesOf
    <3>2. \A n \in D : tree[s][n].price \in Int
      BY <2>1, PriceAssumption DEF SideInv, Order
    <3> HIDE DEF D, f
    <3>3. IsFiniteSet(PricesOf(s))
      BY <2>1, <3>1, FS_Surjection DEF D
    <3>4. QED
      BY <3>2, <3>3 DEF PricesOf, D
  <2>3. Levels(s) = [p \in Shown(s) |-> LiveLevel(s, p)]
    <3>1. ASSUME NEW p PROVE [qty   |-> QtyOf(s, EqualRange(s, p)),
                              count |-> Cardinality(EqualRange(s, p))] = LiveLevel(s, p)
      <4>1. /\ QtyOf(s, EqualRange(s, p)) = LiveLevel(s, p).qty
            /\ Cardinality(EqualRange(s, p)) = LiveLevel(s, p).count
        BY <2>1, LevelIsLive
      <4>2. LiveLevel(s, p) = [qty |-> LiveLevel(s, p).qty, count |-> LiveLevel(s, p).count]
        BY DEF LiveLevel
      <4>3. QED
        BY <4>1, <4>2
    <3>2. QED
      BY <3>1 DEF Levels
  <2>4. \A i \in DOMAIN hash[s] : Held(s, i).price \in PricesOf(s)
    BY <2>1 DEF SideInv, Held, PricesOf
  <2>5. /\ Cardinality(Shown(s)) <= Depth
        /\ \A p \in PricesOf(s) \ Shown(s) :
             Cardinality(Shown(s)) = Depth /\ \A r \in Shown(s) : Better(s, r, p)
    BY <2>2, BestPrices
  <2>6. QED
    BY <2>3, <2>4, <2>5
<1>2. QED
  BY <1>1, BookInvAlways, FiniteBookAlways, PTL
=============================================================================
