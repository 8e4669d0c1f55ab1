--------------------------- MODULE MCOrderBookType2 ---------------------------
EXTENDS OrderBookType2, TLC

Symmetry == Permutations(OrderId)
=============================================================================
