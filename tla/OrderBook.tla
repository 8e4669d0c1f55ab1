------------------------------ MODULE OrderBook ------------------------------
(***************************************************************************)
(* obLib::OrderBook: the first book of the repository, a Depth and, for    *)
(* each side, the keepers of its orders (OrderStateKeeper: the order as it *)
(* was first seen, its open quantity and its price). Both are updated by   *)
(* increments, and a call that throws halfway leaves what it has done.     *)
(*                                                                         *)
(* The sides share nothing but the counter change ids are taken from, so   *)
(* the module follows one of them, the bids or the asks.                   *)
(***************************************************************************)
EXTENDS Depth

CONSTANTS
  OrderId,    \* the ids the feed uses
  Quantity,   \* the quantities of messages
  MaxDeficit, \* bound: how far below zero the quantity of a level may fall
  MaxQty,     \* bound on the quantity in the depth
  MaxOpen,    \* bound on the open quantity of a keeper
  MaxOrders   \* bound on the number of orders in the depth

ASSUME QuantityAssumption == Quantity \subseteq Nat

VARIABLES
  bid,        \* the side followed: TRUE for the bids
  keeper,     \* _bids or _asks: id -> the state of that order
  depth,      \* this side of _depth
  ret,        \* the last call: what it did to the depth, or that it threw
  crashed     \* the last call ran into undefined behaviour

vars == <<bid, keeper, depth, ret, crashed>>

Order == [id : OrderId, price : Price, qty : Quantity]
Keeper(o) == [oprice |-> o.price, oqty |-> o.qty, open |-> o.qty, price |-> o.price]

Init ==
  /\ bid \in BOOLEAN
  /\ keeper = [i \in {} |-> i]
  /\ depth = NewDepth
  /\ ret = "nothing"
  /\ crashed = FALSE

Known(i) == i \in DOMAIN keeper
Rested == Fresh(depth)

Levels(d) == {d.slot[k] : k \in 1 .. Size} \cup Range(d.excess)
Total(d, n(_)) ==
  SumFunction([k \in 1 .. Size |-> n(d.slot[k])])
    + SumFunction([p \in DOMAIN d.excess |-> n(d.excess[p])])
Orders(d) == Total(d, LAMBDA l : l.count)
Bounded ==
  /\ \A i \in DOMAIN keeper' : keeper'[i].open <= MaxOpen
  /\ \A l \in Levels(depth') : l.qty >= -MaxDeficit
  /\ Orders(depth') <= MaxOrders
  /\ Total(depth', LAMBDA l : l.qty) <= MaxQty

(* One call that leaves the depth d and the keepers ks.                     *)
Call(does, d, ks) ==
  /\ ~crashed
  /\ depth' = d
  /\ keeper' = ks
  /\ ret' = IF d.threw THEN "threw" ELSE does
  /\ Bounded
  /\ UNCHANGED bid
-----------------------------------------------------------------------------
(* addNew. The keepers do not overwrite the order they have under this id;  *)
(* the depth gets another order all the same.                               *)
AddNew(o) ==
  /\ IF o.qty = 0 THEN Call("threw", Rested, keeper)
     ELSE Call("added", AddOrder(bid, Rested, o.price, o.qty),
               [i \in DOMAIN keeper \cup {o.id} |-> IF Known(i) THEN keeper[i] ELSE Keeper(o)])
  /\ UNCHANGED crashed

(* cancel closes the order as it was first seen. *)
Closed(i) == CloseOrder(bid, Rested, keeper[i].oprice, keeper[i].oqty)

CancelBuy(i) ==
  LET d == Closed(i)
  IN  /\ bid /\ Known(i)
      /\ Call("closed", d, IF d.threw THEN keeper ELSE Restrict(keeper, DOMAIN keeper \ {i}))
      /\ UNCHANGED crashed

(* The iterator of _asks is given to _bids.erase: the search for the node   *)
(* before it runs off the bucket of _bids.                                  *)
CancelSell(i) ==
  LET d == Closed(i)
  IN  /\ ~bid /\ Known(i)
      /\ Call("closed", d, keeper)
      /\ crashed' = ~d.threw

CancelUnknown(i) ==
  /\ ~Known(i)
  /\ Call("nothing", Rested, keeper)
  /\ UNCHANGED crashed
-----------------------------------------------------------------------------
(* Mutant of Refused: any change of the quantity is taken. *)
RefusedNever(k, delta) == FALSE

(* OrderStateKeeper::change_qty, then setPrice if the price is not the      *)
(* first one.                                                               *)
Refused(k, delta) == delta < 0 /\ k.open < -delta
Changed(k, delta, price) ==
  [k EXCEPT !.open = @ + delta, !.price = IF price = k.oprice THEN @ ELSE price]

(* What replace does to the depth. A sell order at its first price has the  *)
(* quantity of the level of that price changed by what the message takes    *)
(* away from the first quantity.                                            *)
Replaced(o, k) ==
  IF ~bid /\ o.price = k.oprice THEN ChangeQty(Rested, o.price, k.oqty - o.qty)
  ELSE ReplaceOrder(bid, Rested, k.price, o.price, k.open, o.qty)

Replace(o) ==
  LET k == keeper[o.id]
      d == Replaced(o, k)
      fails == d.threw \/ Refused(k, k.oqty - o.qty)
  IN  /\ Known(o.id)
      /\ Call(IF fails THEN "threw" ELSE "replaced", d,
              IF fails THEN keeper
              ELSE [keeper EXCEPT ![o.id] = Changed(@, k.oqty - o.qty, o.price)])
      /\ UNCHANGED crashed

(* addNew is also what replace does for an order that is not known. *)
Next ==
  \/ \E o \in Order : AddNew(o)
  \/ \E o \in Order : Replace(o)
  \/ \E i \in OrderId : CancelBuy(i) \/ CancelSell(i) \/ CancelUnknown(i)

Spec == Init /\ [][Next]_vars
-----------------------------------------------------------------------------
TypeOK ==
  /\ bid \in BOOLEAN
  /\ DOMAIN keeper \subseteq OrderId
  /\ \A i \in DOMAIN keeper :
       keeper[i].open \in Nat /\ {keeper[i].price, keeper[i].oprice} \subseteq Price
  /\ DOMAIN depth.slot = 1 .. Size /\ DOMAIN depth.excess \subseteq Price
  /\ \A p \in DOMAIN depth.excess : depth.excess[p].price = p
  /\ \A l \in Levels(depth) : l.price \in Price \cup {INVALID} /\ l.count \in Nat
  /\ ret \in {"nothing", "added", "closed", "replaced", "threw"} /\ crashed \in BOOLEAN

Used(d, k) == d.slot[k].price # INVALID

(* Whatever is closed at a price it is no longer at, and however levels are *)
(* shifted between the slots and the excess map: the slots are used from    *)
(* the first on, and exactly the levels that have orders have a price.      *)
LevelsHaveOrders ==
  /\ \A k \in 2 .. Size : Used(depth, k) => Used(depth, k - 1)
  /\ \A l \in Levels(depth) : l.price = INVALID <=> l.count = 0

(* Depth changes should be published (Depth.hpp:69): a slot that shows      *)
(* something else after a call has a new change id, even after a shift or a *)
(* call that threw halfway.                                                 *)
ChangesAreStamped ==
  [][\A k \in 1 .. Size :
       depth'.slot[k] # depth.slot[k] /\ (Used(depth, k) \/ Used(depth', k))
       => k \in depth'.stamped]_vars

(* Shifts lose no level and no order: while no price has two levels, a call *)
(* leaves as many orders in the depth as it found, and one more for a new   *)
(* order, one less for a cancel. Only a replace that threw may leave one    *)
(* more: its new order is in the depth by then.                             *)
OneLevelEach(d) ==
  /\ \A j, k \in 1 .. Size : Used(d, j) /\ d.slot[j].price = d.slot[k].price => j = k
  /\ \A k \in 1 .. Size : d.slot[k].price \notin DOMAIN d.excess
OrdersAreCounted ==
  [][OneLevelEach(depth) =>
       Orders(depth') \in CASE ret' = "added"  -> {Orders(depth) + 1}
                            [] ret' = "closed" -> {Orders(depth) - 1}
                            [] ret' = "threw"  -> {Orders(depth), Orders(depth) + 1}
                            [] OTHER           -> {Orders(depth)}]_vars
-----------------------------------------------------------------------------
(* The depth is the aggregation of the keepers: the best prices are in the  *)
(* slots, each with the open quantity and the number of its orders.         *)
At(p) == {i \in DOMAIN keeper : keeper[i].price = p}
PricesOf == {p \in Price : At(p) # {}}
Rank(p) == 1 + Cardinality({r \in PricesOf : Better(bid, r, p)})
LevelOf(p) == Level(p, MapThenSumSet(LAMBDA i : keeper[i].open, At(p)), Cardinality(At(p)))
Aggregated ==
  /\ DOMAIN depth.excess = {}
  /\ \A k \in 1 .. Size :
       IF k > Cardinality(PricesOf) THEN ~Used(depth, k)
       ELSE \E p \in PricesOf : Rank(p) = k /\ depth.slot[k] = LevelOf(p)

(* A call the book is right about: a new order under a new id, a buy order  *)
(* moved to another price for the first time with its quantity, or          *)
(* the cancel of an order that was not modified.                            *)
Unmodified(k) == k.price = k.oprice /\ k.open = k.oqty
CleanCall ==
  \/ \E o \in Order : AddNew(o) /\ ~Known(o.id)
  \/ \E o \in Order : /\ Replace(o) /\ Unmodified(keeper[o.id])
                      /\ bid /\ o.qty = keeper[o.id].oqty /\ o.price # keeper[o.id].oprice
  \/ \E i \in OrderId : CancelBuy(i) /\ Unmodified(keeper[i])

(* A clean call moves the depth exactly as it moves the keepers, as long as *)
(* the prices before and after it are fewer than the slots: with more, the  *)
(* last slot, that findLevel never looks at, or the excess map is used.     *)
CleanCallsAggregate ==
  [][/\ Cardinality(PricesOf \cup {keeper'[i].price : i \in DOMAIN keeper'}) < Size
     /\ Aggregated /\ CleanCall
     => Aggregated']_vars
==============================================================================
