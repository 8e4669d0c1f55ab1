----------------------------- MODULE MCOrderBook -----------------------------
EXTENDS OrderBook, TLC

Symmetry == Permutations(OrderId)
(* What the next call depends on: the stamps and ret are only results.    *)
View == <<bid, keeper, depth.slot, depth.excess, crashed>>
==============================================================================
