------------------------------ MODULE LiveOrders ------------------------------
(***************************************************************************)
(* What an order book promises about the orders of one instrument: every   *)
(* order that entered and has not left yet is known by its id, with the    *)
(* price and the open quantity the feed last gave it.                      *)
(***************************************************************************)
EXTENDS Integers

CONSTANTS OrderId, Price, Quantity    \* Quantity: the positive quantities of the feed

VARIABLE live       \* side -> id of a live order -> its price and open quantity

Side == {"B", "S"}

Init == live = [s \in Side |-> [i \in {} |-> [price |-> 0, qty |-> 0]]]

(* An order joins side s under an id that is not live there. *)
Enter(s, i, p, q) ==
  /\ i \notin DOMAIN live[s]
  /\ live' = [live EXCEPT ![s] =
       [j \in DOMAIN @ \cup {i} |-> IF j = i THEN [price |-> p, qty |-> q] ELSE @[j]]]

(* The feed restates the price and the quantity of a live order. *)
Amend(s, i, p, q) ==
  /\ i \in DOMAIN live[s]
  /\ live' = [live EXCEPT ![s][i] = [price |-> p, qty |-> q]]

Leave(s, i) ==
  /\ i \in DOMAIN live[s]
  /\ live' = [live EXCEPT ![s] = [j \in DOMAIN @ \ {i} |-> @[j]]]

(* Quantity q is taken from order i, which leaves when none is left.        *)
Taken(orders, i, q) ==
  [j \in DOMAIN orders \ (IF orders[i].qty = q THEN {i} ELSE {}) |->
     IF j = i THEN [orders[j] EXCEPT !.qty = @ - q] ELSE orders[j]]

(* One execution of quantity q against at most one order of each side: hit  *)
(* names the executed order of each side that has one.                      *)
Execute(hit, q) ==
  /\ \A s \in DOMAIN hit : hit[s] \in DOMAIN live[s] /\ q <= live[s][hit[s]].qty
  /\ live' = [s \in Side |->
       IF s \in DOMAIN hit THEN Taken(live[s], hit[s], q) ELSE live[s]]

Next ==
  \/ \E s \in Side, i \in OrderId, p \in Price, q \in Quantity :
       Enter(s, i, p, q) \/ Amend(s, i, p, q)
  \/ \E s \in Side, i \in OrderId : Leave(s, i)
  \/ \E sides \in SUBSET Side : \E hit \in [sides -> OrderId], q \in Quantity :
       Execute(hit, q)

Spec == Init /\ [][Next]_live
=============================================================================
