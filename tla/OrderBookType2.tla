--------------------------- MODULE OrderBookType2 ---------------------------
(***************************************************************************)
(* obLib::OrderBookType2: the book the subscriber feeds. _orders keeps the *)
(* first message seen of every resident order; buy_ and sell_ keep one     *)
(* aggregated level per priority, a price on the sell side and its         *)
(* negation on the buy side, in a flat_map ordered by std::greater. The    *)
(* levels are the only thing printed: they are maintained by increments,   *)
(* never recomputed from the orders.                                       *)
(***************************************************************************)
EXTENDS Integers, FiniteSetsExt, Functions

CONSTANTS
  OrderId,      \* the ids the feed uses, one name space for both sides
  Price,        \* the prices the feed uses
  Quantity,     \* the quantities of order and trade messages
  NoOrder,      \* the id 0 of a trade leg that names no order
  MaxDeficit,   \* bound: how far below zero the order count of a level may fall
  MaxLevel      \* bound on the quantity and on the order count of a level

ASSUME QuantityAssumption == Quantity \subseteq Nat \ {0}
ASSUME PriceAssumption    == Price \subseteq Int \ {0}
ASSUME NoOrderAssumption  == NoOrder \notin OrderId

VARIABLES
  orders,     \* _orders: id -> the message stored for it
  level,      \* side -> priority -> the aggregated level (buy_, sell_)
  ret         \* what the last call returned, or that it threw

vars == <<orders, level, ret>>

Side == {"B", "S"}
Order == [id : OrderId, side : Side, price : Price, qty : Quantity]

Put(f, x, y) == [z \in DOMAIN f \cup {x} |-> IF z = x THEN y ELSE f[z]]
Drop(f, x) == Restrict(f, DOMAIN f \ {x})

Init ==
  /\ orders = [i \in {} |-> i]
  /\ level = [s \in Side |-> [p \in {} |-> p]]
  /\ ret = "false"
-----------------------------------------------------------------------------
(* The levels of one side: f is buy_ or sell_.                              *)
Prio(s, price) == IF s = "B" THEN -price ELSE price

(* insert(make_pair(prio, Level())): a level is made, all zero, if absent.  *)
LevelAt(f, prio) ==
  IF prio \in DOMAIN f THEN f[prio] ELSE [price |-> 0, qty |-> 0, count |-> 0]

(* A level whose quantity is used up is erased. *)
Settle(f, prio, l) == IF l.qty <= 0 THEN Drop(f, prio) ELSE Put(f, prio, l)

Moved(l, qty, count) == [l EXCEPT !.qty = @ + qty, !.count = @ + count]

(* it == side.begin(), where begin() is the highest priority; after an      *)
(* erase the iterator stands where the erased level stood.                  *)
AtBegin(f, prio) == \A p \in DOMAIN f : p <= prio

(* addNewOrder and the second half of modifyOrder *)
Added(f, prio, o) ==
  Put(f, prio, [Moved(LevelAt(f, prio), o.qty, 1) EXCEPT !.price = o.price])

(* Mutant of Reduced: the order count of the level is forgotten. *)
ReducedKeepsCount(f, prio, qty) ==
  IF prio \in DOMAIN f THEN Settle(f, prio, Moved(f[prio], -qty, 0)) ELSE f

(* find, then reduce: cancelOrder and doTrade leave the side alone if the   *)
(* level is not there.                                                      *)
Reduced(f, prio, qty) ==
  IF prio \in DOMAIN f THEN Settle(f, prio, Moved(f[prio], -qty, -1)) ELSE f
Touches(f, prio) == prio \in DOMAIN f /\ AtBegin(f, prio)

Bounded ==
  \A s \in Side : \A p \in DOMAIN level'[s] :
    level'[s][p].qty <= MaxLevel /\ level'[s][p].count \in -MaxDeficit .. MaxLevel
-----------------------------------------------------------------------------
Returned(b) == IF b THEN "true" ELSE "false"
Resident(i) == i \in DOMAIN orders

(* 'N', and 'M' of an id that is not resident *)
AddNewOrder(o) ==
  /\ ~Resident(o.id)
  /\ orders' = Put(orders, o.id, o)
  /\ level' = [level EXCEPT ![o.side] = Added(@, Prio(o.side, o.price), o)]
  /\ ret' = Returned(AtBegin(level[o.side], Prio(o.side, o.price)))
  /\ Bounded

(* 'N' of a resident id throws before anything changes. *)
DuplicateOrder(o) ==
  /\ Resident(o.id)
  /\ ret' = "threw"
  /\ UNCHANGED <<orders, level>>

(* 'M' of a resident id to another price. The side is that of the order     *)
(* stored, the old price and quantity are those stored, and the stored      *)
(* order is left as it is.                                                  *)
ModifyPrice(o) ==
  /\ Resident(o.id)
  /\ LET old  == orders[o.id]
         prio == Prio(old.side, old.price)
         side == level[old.side]
         rest == Settle(side, prio, Moved(LevelAt(side, prio), -old.qty, -1))
         newp == Prio(o.side, o.price)
     IN  /\ o.price # old.price
         /\ level' = [level EXCEPT ![old.side] = Added(rest, newp, o)]
         /\ ret' = Returned(AtBegin(side, prio) \/ AtBegin(rest, newp))
  /\ Bounded
  /\ UNCHANGED orders

(* 'M' at the stored price: the level moves by the difference to the stored *)
(* quantity; nothing moves when the quantity is the stored one too.         *)
ModifyQty(o) ==
  /\ Resident(o.id)
  /\ LET old  == orders[o.id]
         prio == Prio(old.side, old.price)
         side == level[old.side]
         l    == Moved(LevelAt(side, prio), o.qty - old.qty, 0)
     IN  /\ o.price = old.price
         /\ level' = IF o.qty = old.qty THEN level
                     ELSE [level EXCEPT ![old.side] = Settle(side, prio, l)]
         /\ ret' = Returned(o.qty # old.qty /\ AtBegin(side, prio))
  /\ Bounded
  /\ UNCHANGED orders

(* 'X': the order goes, its stored quantity leaves the level of its stored  *)
(* price if there is one.                                                   *)
CancelOrder(i) ==
  /\ Resident(i)
  /\ LET old  == orders[i]
         prio == Prio(old.side, old.price)
     IN  /\ level' = [level EXCEPT ![old.side] = Reduced(@, prio, old.qty)]
         /\ ret' = Returned(Touches(level[old.side], prio))
  /\ orders' = Drop(orders, i)
  /\ Bounded

CancelUnknown(i) ==
  /\ ~Resident(i)
  /\ ret' = "false"
  /\ UNCHANGED <<orders, level>>
-----------------------------------------------------------------------------
(* processTrade(buy, sell, price, qty). The buy leg reduces the buy level   *)
(* at the trade price and takes the stored order out if the trade covers    *)
(* its stored quantity. The sell leg asks _orders for the buy id again: it  *)
(* goes on only if the buy leg left the order there, and its doTrade is     *)
(* skipped when the buy leg has already returned true.                      *)
ProcessTrade(buy, sell, price, qty) ==
  LET buyHit  == Resident(buy)
      covered == buyHit /\ orders[buy].qty <= qty
      buyBbo  == buyHit /\ Touches(level["B"], Prio("B", price))
      sellHit == sell # NoOrder /\ buyHit /\ ~covered
      sellRun == sellHit /\ ~buyBbo
  IN  /\ orders' = IF covered THEN Drop(orders, buy) ELSE orders
      /\ level' = [s \in Side |->
           IF (s = "B" /\ buyHit) \/ (s = "S" /\ sellRun)
             THEN Reduced(level[s], Prio(s, price), qty) ELSE level[s]]
      /\ ret' = Returned(buyBbo \/ (sellRun /\ Touches(level["S"], Prio("S", price))))
      /\ Bounded

Trade ==
  \E buy, sell \in OrderId \cup {NoOrder}, price \in Price, qty \in Quantity :
    ProcessTrade(buy, sell, price, qty)

New == \E o \in Order : AddNewOrder(o) \/ DuplicateOrder(o)
(* A feed never moves an order to the other side. *)
Modify ==
  \E o \in Order : /\ Resident(o.id) => o.side = orders[o.id].side
                   /\ ModifyPrice(o) \/ ModifyQty(o)
Cancel == \E i \in OrderId : CancelOrder(i) \/ CancelUnknown(i)

Next == New \/ Modify \/ Cancel \/ Trade
Spec == Init /\ [][Next]_vars

(* A call the book is right about: it does not modify a resident order, and *)
(* a trade that names a resident order as its buyer executes the whole of   *)
(* it at its price.                                                         *)
CleanTrade ==
  \E buy, sell \in OrderId \cup {NoOrder}, price \in Price, qty \in Quantity :
    /\ Resident(buy) => /\ orders[buy].side = "B"
                        /\ orders[buy].price = price /\ orders[buy].qty = qty
    /\ ProcessTrade(buy, sell, price, qty)

CleanCall == New \/ Cancel \/ CleanTrade
-----------------------------------------------------------------------------
TypeOK ==
  /\ DOMAIN orders \subseteq OrderId
  /\ \A i \in DOMAIN orders : orders[i] \in Order /\ orders[i].id = i
  /\ \A s \in Side : \A prio \in DOMAIN level[s] :
       /\ Prio(s, prio) \in Price
       /\ level[s][prio].price \in {0, Prio(s, prio)}
       /\ level[s][prio].qty \in Int /\ level[s][prio].count \in Int
  /\ ret \in {"true", "false", "threw"}

(* The levels are the aggregation of the resident orders: for each price    *)
(* the sum of the stored quantities and the order count, and no level more. *)
OrdersAt(s, prio) ==
  {i \in DOMAIN orders : orders[i].side = s /\ Prio(s, orders[i].price) = prio}
LevelsAggregateOrders ==
  \A s \in Side :
    /\ DOMAIN level[s] = {prio \in {Prio(s, p) : p \in Price} : OrdersAt(s, prio) # {}}
    /\ \A prio \in DOMAIN level[s] :
         level[s][prio] = [price |-> Prio(s, prio),
                           qty   |-> MapThenSumSet(LAMBDA i : orders[i].qty, OrdersAt(s, prio)),
                           count |-> Cardinality(OrdersAt(s, prio))]

(* A clean call moves the levels exactly as it moves the orders: it never   *)
(* takes a book whose levels aggregate its orders to one where they do not. *)
CleanCallsAggregate ==
  [][LevelsAggregateOrders /\ CleanCall => LevelsAggregateOrders']_vars
-----------------------------------------------------------------------------
(* modifyOrder is to "Erase the Qty from Prev Price level"                  *)
(* (OrderBookType2.hpp:204) and cancelOrder to "Reduce Qty in Level" (249): *)
(* once every order has been cancelled no level has quantity left.          *)
QuoteNext == New \/ Modify \/ Cancel
QuoteSpec == Init /\ [][QuoteNext]_vars
NoOrdersNoLevels == DOMAIN orders = {} => \A s \in Side : DOMAIN level[s] = {}
=============================================================================
