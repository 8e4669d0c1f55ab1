-------------------------------- MODULE Depth --------------------------------
(***************************************************************************)
(* obLib::Depth: the aggregated price levels of one side of a book. The    *)
(* best ones are in an array of Size slots, filled from the first on; the  *)
(* rest are in an ordered map (_bidsExcessLevelContainer,                  *)
(* _asksExcessLevelContainer).                                             *)
(*                                                                         *)
(* A side is a record: slot, excess, the slots stamped with a new change   *)
(* id by the call, and whether the call threw. The operators are the       *)
(* calls, from one record to the next.                                     *)
(***************************************************************************)
EXTENDS Integers, FiniteSetsExt, Functions

CONSTANTS
  Size,       \* SIZE, the slots of a side (10 in the code)
  Price       \* the prices of orders, 0 (INVALID_LEVEL_PRICE) not among them

ASSUME SizeAssumption  == Size \in Nat \ {0, 1}
ASSUME PriceAssumption == Price \subseteq Nat \ {0}

INVALID == 0
Last == Size
Level(price, qty, count) == [price |-> price, qty |-> qty, count |-> count]
NoLevel == Level(INVALID, 0, 0)

NewDepth ==
  [slot |-> [k \in 1 .. Size |-> NoLevel], excess |-> [p \in {} |-> NoLevel],
   stamped |-> {}, threw |-> FALSE]

(* Before a call: nothing is stamped, nothing was thrown.                   *)
Fresh(d) == [d EXCEPT !.stamped = {}, !.threw = FALSE]
Stamp(d, slots) == [d EXCEPT !.stamped = @ \cup slots]

Better(bid, p, r) == IF bid THEN p > r ELSE p < r
BestExcess(bid, d) ==
  CHOOSE p \in DOMAIN d.excess : \A r \in DOMAIN d.excess \ {p} : Better(bid, p, r)

SetExcess(d, p, l) ==
  [d EXCEPT !.excess = [r \in DOMAIN d.excess \cup {p} |-> IF r = p THEN l ELSE d.excess[r]]]
DropExcess(d, p) == [d EXCEPT !.excess = Restrict(@, DOMAIN @ \ {p})]

(* The linear search of findLevel ends before the last slot.                *)
First(ks) == IF ks = {} THEN 0 ELSE Min(ks)
SlotOf(d, p) == First({k \in 1 .. Last - 1 : d.slot[k].price = p})
(* Where a level for p is found or made: a slot with its price, a free one, *)
(* or one of a worse price.                                                 *)
PlaceFor(bid, d, p) ==
  First({k \in 1 .. Last - 1 : \/ d.slot[k].price \in {p, INVALID}
                               \/ Better(bid, p, d.slot[k].price)})
-----------------------------------------------------------------------------
(* Mutant of InsertedBefore: the level that falls off the end is dropped.    *)
InsertedDroppingLast(d, k, p) ==
  Stamp([d EXCEPT !.slot = [j \in 1 .. Size |-> CASE j < k -> d.slot[j]
                                                   [] j = k -> Level(p, 0, 0)
                                                   [] j > k -> d.slot[j - 1]]],
        {j \in k + 1 .. Size : d.slot[j - 1].price # INVALID})

(* insert_level_before: the last level goes to the excess map, which keeps  *)
(* the level it has for that price already; the others move down.           *)
InsertedBefore(d, k, p) ==
  LET fallen == d.slot[Last]
      kept == IF fallen.price = INVALID \/ fallen.price \in DOMAIN d.excess THEN d
              ELSE SetExcess(d, fallen.price, fallen)
  IN  Stamp([kept EXCEPT !.slot = [j \in 1 .. Size |-> CASE j < k -> d.slot[j]
                                                          [] j = k -> Level(p, 0, 0)
                                                          [] j > k -> d.slot[j - 1]]],
            {j \in k + 1 .. Size : d.slot[j - 1].price # INVALID})

More(l, qty) == [l EXCEPT !.qty = @ + qty, !.count = @ + 1]

(* add_order *)
AddOrder(bid, d, p, qty) ==
  LET k == PlaceFor(bid, d, p)
      made == CASE d.slot[k].price = p -> d
                [] d.slot[k].price = INVALID -> [d EXCEPT !.slot[k] = Level(p, 0, 0)]
                [] OTHER -> InsertedBefore(d, k, p)
      beyond == IF p \in DOMAIN d.excess THEN d.excess[p] ELSE Level(p, 0, 0)
  IN  IF k = 0 THEN SetExcess(d, p, More(beyond, qty))
      ELSE Stamp([made EXCEPT !.slot[k] = More(@, qty)], {k})

(* Mutant of ErasedSlot: the slots behind the level do not move up. *)
ErasedSlotInPlace(bid, d, k) == Stamp([d EXCEPT !.slot[k] = NoLevel], {k})

(* Mutant of ErasedSlot: only the slot of the level gets a new change id. *)
ErasedSlotUnstamped(bid, d, k) ==
  LET up == [d EXCEPT !.slot = [j \in 1 .. Size |-> IF j \in k .. Last - 1 THEN d.slot[j + 1]
                                                   ELSE IF j = Last THEN NoLevel ELSE d.slot[j]]]
  IN  Stamp(up, {k})

(* erase_level of a slot: the levels behind it move up, the last slot takes *)
(* the best excess level, or is free.                                       *)
ErasedSlot(bid, d, k) ==
  LET moves == {j \in k .. Last - 1 : j = k \/ d.slot[j].price # INVALID}
      up == [d EXCEPT !.slot = [j \in 1 .. Size |-> IF j \in moves THEN d.slot[j + 1] ELSE d.slot[j]]]
      refill == k = Last \/ d.slot[Last].price # INVALID
      best == BestExcess(bid, d)
  IN  Stamp(CASE ~refill -> up
              [] refill /\ DOMAIN d.excess = {} -> [up EXCEPT !.slot[Last] = NoLevel]
              [] OTHER -> DropExcess([up EXCEPT !.slot[Last] = d.excess[best]], best),
            moves \cup (IF refill THEN {Last} ELSE {}))

(* DepthLevel::close_order of one of several orders; a quantity that is too *)
(* large leaves the total as it is.                                         *)
Less(l, qty) == [l EXCEPT !.count = @ - 1, !.qty = IF @ >= qty THEN @ - qty ELSE @]

(* close_order: the level found, or the last slot if there is none.         *)
CloseOrder(bid, d, p, qty) ==
  LET inExcess == SlotOf(d, p) = 0 /\ p \in DOMAIN d.excess
      k == IF SlotOf(d, p) = 0 THEN Last ELSE SlotOf(d, p)
      l == IF inExcess THEN d.excess[p] ELSE d.slot[k]
  IN  CASE l.count = 0 -> [d EXCEPT !.threw = TRUE]
        [] l.count = 1 -> IF inExcess THEN DropExcess(d, p) ELSE ErasedSlot(bid, d, k)
        [] OTHER -> IF inExcess THEN SetExcess(d, p, Less(l, qty))
                    ELSE Stamp([d EXCEPT !.slot[k] = Less(l, qty)], {k})

(* changeQtyOrder *)
ChangeQty(d, p, delta) ==
  LET inExcess == SlotOf(d, p) = 0 /\ p \in DOMAIN d.excess
      k == IF SlotOf(d, p) = 0 THEN Last ELSE SlotOf(d, p)
  IN  CASE delta = 0 -> d
        [] delta # 0 /\ inExcess -> [d EXCEPT !.excess[p].qty = @ + delta]
        [] OTHER -> Stamp([d EXCEPT !.slot[k].qty = @ + delta], {k})

(* Mutant of ReplaceOrder: the order is not closed at its old price.        *)
ReplaceKeepingOld(bid, d, oldPrice, newPrice, oldQty, newQty) ==
  IF oldPrice = newPrice THEN ChangeQty(d, newPrice, newQty - oldQty)
  ELSE AddOrder(bid, d, newPrice, newQty)

(* replace_order *)
ReplaceOrder(bid, d, oldPrice, newPrice, oldQty, newQty) ==
  IF oldPrice = newPrice THEN ChangeQty(d, newPrice, newQty - oldQty)
  ELSE CloseOrder(bid, AddOrder(bid, d, newPrice, newQty), oldPrice, oldQty)
==============================================================================
