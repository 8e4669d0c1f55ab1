-------------------------------- MODULE QTest --------------------------------
(***************************************************************************)
(* What QTest of OrderBookStore/src/Main.cpp uses a LocklessQ with: the    *)
(* threads that enqueue and the one that dequeues, for any numbers of them.*)
(***************************************************************************)
EXTENDS Integers

CONSTANTS
  Producer,      \* threads that call enqueue()
  Consumer,      \* threads that run QTest::consume()
  MaxMsg,        \* bound: the messages enqueued, 1 .. MaxMsg
  MaxRaced,      \* bound: the messages enqueued when producers race
  NoNode         \* the pointer 0

ASSUME DisjointAssumption == Producer \cap Consumer = {}
ASSUME MaxMsgAssumption == MaxMsg \in Nat /\ MaxRaced \in 0..MaxMsg /\ NoNode \notin 0..MaxMsg

Actor == Producer \cup Consumer
=============================================================================
