-------------------------- MODULE OrderBookImproved --------------------------
(***************************************************************************)
(* obLib::OrderBookImproved: the book of one instrument that keeps every   *)
(* order of a side in a multimap ordered by price (_bids, _asks) and finds *)
(* it again through a hash from the order id to its multimap iterator      *)
(* (_bidsHash, _asksHash). One action is one call of processOrder or       *)
(* processTrade; a call that throws is caught by the reader of the feed    *)
(* and the book lives on.                                                  *)
(*                                                                         *)
(* A multimap iterator is the address of a node: tree[s] maps the nodes    *)
(* allocated for side s to the order each one holds.                       *)
(***************************************************************************)
EXTENDS Integers, FiniteSetsExt, Functions

CONSTANTS
  OrderId,     \* the ids the feed uses
  Price,       \* the prices the feed uses
  Quantity,    \* the quantities of order and trade messages
  Node,        \* the multimap nodes of a side: bounds the orders of a side
  NoOrder,     \* the id 0 of a trade leg that names no order
  Depth        \* the price levels toString writes per side (10 in the code)

ASSUME QuantityAssumption == Quantity \subseteq Nat \ {0}
ASSUME PriceAssumption    == Price \subseteq Int
ASSUME NoOrderAssumption  == NoOrder \notin OrderId
ASSUME DepthAssumption    == Depth \in Nat \ {0}

VARIABLES
  tree,     \* side -> allocated node -> the order it holds
  hash,     \* side -> order id -> node
  threw     \* the last call left by an exception

vars == <<tree, hash, threw>>

Side == {"B", "S"}
Order == [id : OrderId, price : Price, qty : Nat \ {0}]

Put(f, x, y) == [z \in DOMAIN f \cup {x} |-> IF z = x THEN y ELSE f[z]]
Drop(f, x) == Restrict(f, DOMAIN f \ {x})
SetQty(T, n, q) == [T EXCEPT ![n].qty = q]

Known(s, i) == i \in DOMAIN hash[s]
Held(s, i) == tree[s][hash[s][i]]

Init ==
  /\ tree = [s \in Side |-> [n \in {} |-> n]]
  /\ hash = [s \in Side |-> [i \in {} |-> i]]
  /\ threw = FALSE
-----------------------------------------------------------------------------
(* Mutant of NewOrder: the hash entry of a repeated id is overwritten.       *)
NewOrderOverwrites(s, o) ==
  \E n \in Node \ DOMAIN tree[s] :
    /\ tree' = [tree EXCEPT ![s] = Put(@, n, o)]
    /\ hash' = [hash EXCEPT ![s] = Put(@, o.id, n)]
    /\ threw' = FALSE

(* 'N': the multimap takes the order first; the hash then refuses an id it  *)
(* has already, and the call throws with the node left behind.              *)
NewOrder(s, o) ==
  \E n \in Node \ DOMAIN tree[s] :
    /\ tree' = [tree EXCEPT ![s] = Put(@, n, o)]
    /\ hash' = IF Known(s, o.id) THEN hash ELSE [hash EXCEPT ![s] = Put(@, o.id, n)]
    /\ threw' = Known(s, o.id)

(* 'M' of an id the side does not know is a new order. *)
ModifyUnknown(s, o) == ~Known(s, o.id) /\ NewOrder(s, o)

(* 'M' with another price: the node is erased, the message is inserted as a *)
(* node of its own and the hash entry is pointed to it.                     *)
ModifyPrice(s, o) ==
  /\ Known(s, o.id)
  /\ Held(s, o.id).price # o.price
  /\ LET rest == Drop(tree[s], hash[s][o.id])
     IN  \E n \in Node \ DOMAIN rest :
           /\ tree' = [tree EXCEPT ![s] = Put(rest, n, o)]
           /\ hash' = [hash EXCEPT ![s][o.id] = n]
  /\ threw' = FALSE

(* Mutant of ModifyQty: the message's quantity is added to the order's.      *)
ModifyQtyAdds(s, o) ==
  /\ Known(s, o.id)
  /\ Held(s, o.id).price = o.price
  /\ tree' = [tree EXCEPT ![s] = SetQty(@, hash[s][o.id], Held(s, o.id).qty + o.qty)]
  /\ threw' = FALSE
  /\ UNCHANGED hash

(* 'M' at the same price: the order held takes the message's quantity. *)
ModifyQty(s, o) ==
  /\ Known(s, o.id)
  /\ Held(s, o.id).price = o.price
  /\ tree' = [tree EXCEPT ![s] = SetQty(@, hash[s][o.id], o.qty)]
  /\ threw' = FALSE
  /\ UNCHANGED hash

(* Mutant of Cancel: the hash entry survives the order.                      *)
CancelKeepsEntry(s, i) ==
  /\ Known(s, i)
  /\ tree' = [tree EXCEPT ![s] = Drop(@, hash[s][i])]
  /\ threw' = FALSE
  /\ UNCHANGED hash

(* 'X' *)
Cancel(s, i) ==
  /\ Known(s, i)
  /\ tree' = [tree EXCEPT ![s] = Drop(@, hash[s][i])]
  /\ hash' = [hash EXCEPT ![s] = Drop(@, i)]
  /\ threw' = FALSE

(* 'X' of an unknown id, and a message type the book has no case for. *)
Ignore ==
  /\ threw' = FALSE
  /\ UNCHANGED <<tree, hash>>

CancelUnknown(s, i) == ~Known(s, i) /\ Ignore
-----------------------------------------------------------------------------
(* A trade: its two legs, buy first, each against the order it names.       *)
Delta(s, i, q) == Held(s, i).qty - q
Overfilled(s, i, q) == Known(s, i) /\ Delta(s, i, q) < 0
Filled(s, i, q) == Known(s, i) /\ Delta(s, i, q) = 0
Reduced(s, i, q) == Known(s, i) /\ Delta(s, i, q) > 0

TreeAfterLeg(s, i, q) ==
  CASE Reduced(s, i, q) -> SetQty(tree[s], hash[s][i], Delta(s, i, q))
    [] Filled(s, i, q)  -> Drop(tree[s], hash[s][i])
    [] OTHER            -> tree[s]

HashAfterLeg(s, i, q) == IF Filled(s, i, q) THEN Drop(hash[s], i) ELSE hash[s]

(* Mutant of ProcessTrade: an exception of the buy leg skips that leg only. *)
ProcessTradeLegByLeg(leg, q) ==
  LET done == {s \in Side : ~ Overfilled(s, leg[s], q)}
  IN  /\ tree' = [s \in Side |-> IF s \in done THEN TreeAfterLeg(s, leg[s], q) ELSE tree[s]]
      /\ hash' = [s \in Side |-> IF s \in done THEN HashAfterLeg(s, leg[s], q) ELSE hash[s]]
      /\ threw' = \E s \in Side : Overfilled(s, leg[s], q)

(* The exception of the buy leg skips the sell leg; that of the sell leg    *)
(* does not undo the buy leg. leg[s] is the id the trade names on side s,   *)
(* NoOrder (which no side knows) when it names none.                        *)
ProcessTrade(leg, q) ==
  LET done == IF Overfilled("B", leg["B"], q) THEN {} ELSE Side
  IN  /\ tree' = [s \in Side |-> IF s \in done THEN TreeAfterLeg(s, leg[s], q) ELSE tree[s]]
      /\ hash' = [s \in Side |-> IF s \in done THEN HashAfterLeg(s, leg[s], q) ELSE hash[s]]
      /\ threw' = \E s \in Side : Overfilled(s, leg[s], q)

Message == [id : OrderId, price : Price, qty : Quantity]

Update ==
  \E s \in Side :
    \/ \E o \in Message : ModifyUnknown(s, o) \/ ModifyPrice(s, o) \/ ModifyQty(s, o)
    \/ \E i \in OrderId : Cancel(s, i) \/ CancelUnknown(s, i)

Trade ==
  \E leg \in [Side -> OrderId \cup {NoOrder}], q \in Quantity : ProcessTrade(leg, q)

Next ==
  \/ \E s \in Side, o \in Message : NewOrder(s, o)
  \/ Update
  \/ Trade

Spec == Init /\ [][Next]_vars
-----------------------------------------------------------------------------
(* toString: the levels of a side from the best price on, each with the sum *)
(* of the quantities and the number of the orders in its equal_range.       *)
PricesOf(s) == {tree[s][n].price : n \in DOMAIN tree[s]}
Better(s, p, r) == IF s = "B" THEN p > r ELSE p < r
(* Mutant of Shown: a level more than asked for. *)
ShownOneMore(s) == {p \in PricesOf(s) : Cardinality({r \in PricesOf(s) : Better(s, r, p)}) <= Depth}

Shown(s) == {p \in PricesOf(s) : Cardinality({r \in PricesOf(s) : Better(s, r, p)}) < Depth}

EqualRange(s, p) == {n \in DOMAIN tree[s] : tree[s][n].price = p}
QtyOf(s, nodes) == MapThenSumSet(LAMBDA n : tree[s][n].qty, nodes)
Levels(s) == [p \in Shown(s) |-> [qty   |-> QtyOf(s, EqualRange(s, p)),
                                  count |-> Cardinality(EqualRange(s, p))]]
-----------------------------------------------------------------------------
TypeOK ==
  /\ DOMAIN tree = Side /\ DOMAIN hash = Side
  /\ \A s \in Side :
       /\ DOMAIN tree[s] \subseteq Node /\ tree[s] \in [DOMAIN tree[s] -> Order]
       /\ DOMAIN hash[s] \subseteq OrderId /\ hash[s] \in [DOMAIN hash[s] -> Node]
  /\ threw \in BOOLEAN

(* Every iterator a hash keeps points to a node still in its multimap, and  *)
(* to the node of the order with that id: the erase, the set of a quantity  *)
(* and the trade that follow it never act on freed memory or on the order   *)
(* of somebody else, whatever was modified, cancelled, traded or refused    *)
(* before (processOrder and processTrade dereference it unchecked).         *)
IteratorsValid ==
  \A s \in Side : \A i \in DOMAIN hash[s] :
    /\ hash[s][i] \in DOMAIN tree[s]
    /\ Held(s, i).id = i

(* The orders in a multimap that no hash entry leads to.                    *)
Orphans(s) == DOMAIN tree[s] \ Range(hash[s])

(* An order the hash cannot reach is the mark of a call that threw (the     *)
(* refused 'N'), and it is there for good: no later message changes its     *)
(* quantity or takes it out of the levels toString writes.                  *)
OrphansStay ==
  [][\A s \in Side :
       /\ \A n \in Orphans(s) : n \in Orphans(s)' /\ tree'[s][n] = tree[s][n]
       /\ Orphans(s)' # Orphans(s) => threw']_vars

(* A refused 'N' has left a node on side s, of an id that names another. *)
LeftByNew(s) ==
  /\ hash'[s] = hash[s]
  /\ \E n \in Node \ DOMAIN tree[s] :
       /\ DOMAIN tree'[s] = DOMAIN tree[s] \cup {n}
       /\ \A m \in DOMAIN tree[s] : tree'[s][m] = tree[s][m]
       /\ Known(s, tree'[s][n].id)

(* The buy leg of a trade of q, more than a sell order has: the quantity of *)
(* the order i has shrunk by q, or i is gone from both containers.          *)
LeftByTrade(i, q) ==
  LET n == hash["B"][i]
      all == q = Held("B", i).qty
  IN /\ q <= Held("B", i).qty /\ \E j \in DOMAIN hash["S"] : q > Held("S", j).qty
     /\ DOMAIN hash'["B"] = DOMAIN hash["B"] \ (IF all THEN {i} ELSE {})
     /\ \A k \in DOMAIN hash'["B"] : hash'["B"][k] = hash["B"][k]
     /\ DOMAIN tree'["B"] = DOMAIN tree["B"] \ (IF all THEN {n} ELSE {})
     /\ \A m \in DOMAIN tree'["B"] :
          tree'["B"][m] = IF m = n THEN [tree["B"][m] EXCEPT !.qty = @ - q] ELSE tree["B"][m]

(* What an exception may leave behind: nothing; the node of a refused 'N',  *)
(* with every order and every name as they were; or half a trade, with one  *)
(* buy order executed against a sell order that was too small, and the      *)
(* other buys, the sells and the names of both as they were                 *)
(* (OrderBookImproved.cpp:22-24, 115).                                      *)
Kept(s) == tree'[s] = tree[s] /\ hash'[s] = hash[s]
ThrowStep ==
  threw' => \/ \A s \in Side : Kept(s)
            \/ \E s \in Side : LeftByNew(s) /\ \A r \in Side \ {s} : Kept(r)
            \/ Kept("S") /\ \E i \in DOMAIN hash["B"], q \in Quantity : LeftByTrade(i, q)
ThrownCallsLeave == [][ThrowStep]_vars

(* The hashes and the orders they lead to are the live orders of the feed:  *)
(* every call moves them as one operation of LiveOrders, or not at all.     *)
LiveOf(T, H) == [i \in DOMAIN H |-> [price |-> T[H[i]].price, qty |-> T[H[i]].qty]]
Live == [s \in Side |-> LiveOf(tree[s], hash[s])]

LiveBook == INSTANCE LiveOrders WITH live <- Live
ImplementsLiveOrders == LiveBook!Spec
-----------------------------------------------------------------------------
(* The book's printed levels, recomputed from the live orders alone.        *)
LiveAt(s, p) == {i \in DOMAIN hash[s] : Held(s, i).price = p}
LiveLevel(s, p) == [qty   |-> MapThenSumSet(LAMBDA i : Held(s, i).qty, LiveAt(s, p)),
                    count |-> Cardinality(LiveAt(s, p))]

(* A side on which no 'N' was ever refused prints its live orders and       *)
(* nothing else: the best Depth prices that have a live order, each with    *)
(* the open quantity and the number of its live orders.                     *)
ShowsLiveOrders ==
  \A s \in Side : Orphans(s) = {} =>
    /\ Cardinality(Shown(s)) <= Depth
    /\ Levels(s) = [p \in Shown(s) |-> LiveLevel(s, p)]
    /\ \A i \in DOMAIN hash[s] :
         \/ Held(s, i).price \in Shown(s)
         \/ /\ Cardinality(Shown(s)) = Depth
            /\ \A p \in Shown(s) : Better(s, p, Held(s, i).price)
=============================================================================
