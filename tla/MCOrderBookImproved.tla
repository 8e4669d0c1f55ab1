------------------------- MODULE MCOrderBookImproved -------------------------
EXTENDS OrderBookImproved, TLC

Symmetry == Permutations(OrderId) \cup Permutations(Node)
=============================================================================
