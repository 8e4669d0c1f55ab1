------------------------------ MODULE LocklessQ ------------------------------
(***************************************************************************)
(* obLib::LocklessQ, used as QTest of OrderBookStore/src/Main.cpp uses it: *)
(* producers enqueue, a consumer dequeues until _running is cleared. Nodes *)
(* are never freed. enqueue() compares and swaps _tmpAtomic, a copy of the *)
(* tail's _next that all producers share, against _emptyNode, a plain      *)
(* pointer that a failed comparison overwrites. An action is one access of *)
(* shared memory.                                                          *)
(***************************************************************************)
EXTENDS QTest, Sequences

VARIABLES
  next,          \* node -> its _next
  head, tail,    \* _head and _tail
  tmpAtomic, emptyNode,
  size,          \* how far _size is from its first value, which nothing sets
  running,       \* QTest::_running
  active,        \* the producers that enqueue in this behaviour
  made,          \* messages enqueued so far, each in the node of its number
  pc,            \* thread -> the step of the call it is in
  tmp,           \* thread -> its local tmp
  node,          \* producer -> newNode, consumer -> the node whose data it takes
  taken          \* the messages dequeued, in the order in which _head moved

queue == <<next, head, tail, tmpAtomic, emptyNode, size>>
thread == <<pc, tmp, node>>
vars == <<queue, running, active, made, thread, taken>>

Sentinel == 0
Nodes == 0..MaxMsg
Goto(t, step) == pc' = [pc EXCEPT ![t] = step]
Idle(t) == pc[t] = "idle"
OneProducer == \E p \in Producer : active = {p}

Init ==
  /\ next = [n \in Nodes |-> NoNode]
  /\ head = Sentinel /\ tail = Sentinel
  /\ tmpAtomic = NoNode /\ emptyNode = NoNode
  /\ size = 0
  /\ running = TRUE
  /\ active \in SUBSET Producer \ {{}}
  /\ made = 0
  /\ pc = [t \in Actor |-> IF t \in Consumer THEN "loop" ELSE "idle"]
  /\ tmp = [t \in Actor |-> NoNode]
  /\ node = [t \in Actor |-> NoNode]
  /\ taken = <<>>
-----------------------------------------------------------------------------
(* enqueue(): the new node. *)
Enqueue(p) ==
  /\ p \in active /\ Idle(p) /\ running
  /\ made < IF OneProducer THEN MaxMsg ELSE MaxRaced
  /\ made' = made + 1
  /\ node' = [node EXCEPT ![p] = made + 1]
  /\ Goto(p, "read")
  /\ UNCHANGED <<queue, running, active, tmp, taken>>

(* tmp = _tail *)
ReadTail(p) ==
  /\ pc[p] = "read"
  /\ tmp' = [tmp EXCEPT ![p] = tail]
  /\ Goto(p, "store")
  /\ UNCHANGED <<queue, running, active, made, node, taken>>

(* _tmpAtomic.store(tmp->_next): a null tmp ends the program.               *)
StoreNext(p) ==
  /\ pc[p] = "store"
  /\ IF tmp[p] = NoNode THEN Goto(p, "crashed") /\ UNCHANGED tmpAtomic
     ELSE Goto(p, "swap") /\ tmpAtomic' = next[tmp[p]]
  /\ UNCHANGED <<next, head, tail, emptyNode, size, running, active, made, tmp, node, taken>>

(* Mutant of Swap: what the failed comparison leaves in the expected value  *)
(* is taken for a success.                                                  *)
SwapBlind(p) ==
  /\ pc[p] = "swap"
  /\ tmpAtomic' = NoNode
  /\ Goto(p, "linkLast")
  /\ UNCHANGED <<next, head, tail, emptyNode, size, running, active, made, tmp, node, taken>>

(* The exchange of _tmpAtomic against _emptyNode, which it overwrites with  *)
(* what it found if it fails. On x86 the weak form does not fail otherwise. *)
Swap(p) ==
  /\ pc[p] = "swap"
  /\ IF tmpAtomic = emptyNode
     THEN tmpAtomic' = node[p] /\ Goto(p, "linkLast") /\ UNCHANGED emptyNode
     ELSE emptyNode' = tmpAtomic /\ Goto(p, "link") /\ UNCHANGED tmpAtomic
  /\ UNCHANGED <<next, head, tail, size, running, active, made, tmp, node, taken>>

(* tmp->_next = _tmpAtomic.load() *)
Link(p) ==
  /\ pc[p] \in {"link", "linkLast"}
  /\ next' = [next EXCEPT ![tmp[p]] = tmpAtomic]
  /\ Goto(p, IF pc[p] = "link" THEN "help" ELSE "swing")
  /\ UNCHANGED <<head, tail, tmpAtomic, emptyNode, size, running, active, made, tmp, node, taken>>

(* After a failure: _tail moves on if it is still tmp, and the loop starts  *)
(* anew. tmp->_next may be null.                                            *)
Help(p) ==
  /\ pc[p] = "help"
  /\ tail' = IF tail = tmp[p] THEN next[tmp[p]] ELSE tail
  /\ Goto(p, "read")
  /\ UNCHANGED <<next, head, tmpAtomic, emptyNode, size, running, active, made, tmp, node, taken>>

(* After a success: _tail moves to the new node if it is still tmp.         *)
Swing(p) ==
  /\ pc[p] = "swing"
  /\ tail' = IF tail = tmp[p] THEN node[p] ELSE tail
  /\ Goto(p, "count")
  /\ UNCHANGED <<next, head, tmpAtomic, emptyNode, size, running, active, made, tmp, node, taken>>

(* ++_size *)
CountUp(p) ==
  /\ p \in Producer /\ pc[p] = "count"
  /\ size' = size + 1
  /\ tmp' = [tmp EXCEPT ![p] = NoNode] /\ node' = [node EXCEPT ![p] = NoNode]
  /\ Goto(p, "idle")
  /\ UNCHANGED <<next, head, tail, tmpAtomic, emptyNode, running, active, made, taken>>
-----------------------------------------------------------------------------
(* QTest::consume(): _running is tested before each dequeue(). *)
Loop(c) ==
  /\ pc[c] = "loop"
  /\ Goto(c, IF running THEN "head" ELSE "ended")
  /\ UNCHANGED <<queue, running, active, made, tmp, node, taken>>

(* dequeue(): tmp = _head *)
ReadHead(c) ==
  /\ pc[c] = "head"
  /\ tmp' = [tmp EXCEPT ![c] = head]
  /\ Goto(c, "test")
  /\ UNCHANGED <<queue, running, active, made, node, taken>>

(* Without a tmp->_next the queue is empty and the consumer loops.          *)
TestNext(c) ==
  /\ pc[c] = "test"
  /\ Goto(c, IF next[tmp[c]] = NoNode THEN "loop" ELSE "move")
  /\ UNCHANGED <<queue, running, active, made, tmp, node, taken>>

(* Mutant of MoveHead: the head is written without the comparison. *)
MoveHeadBlind(c) ==
  /\ pc[c] = "move"
  /\ next[tmp[c]] # NoNode
  /\ head' = next[tmp[c]]
  /\ node' = [node EXCEPT ![c] = next[tmp[c]]]
  /\ taken' = Append(taken, next[tmp[c]])
  /\ Goto(c, "count")
  /\ UNCHANGED <<next, tail, tmpAtomic, emptyNode, size, running, active, made, tmp>>

(* _head moves from tmp to tmp->_next, or the loop starts anew. Then the    *)
(* data of tmp->_next is taken: no _next that was linked changes when one   *)
(* producer is active.                                                      *)
MoveHead(c) ==
  /\ pc[c] = "move"
  /\ \/ /\ head = tmp[c]
        /\ head' = next[tmp[c]]
        /\ node' = [node EXCEPT ![c] = next[tmp[c]]]
        /\ taken' = IF next[tmp[c]] = NoNode THEN taken ELSE Append(taken, next[tmp[c]])
        /\ Goto(c, IF next[tmp[c]] = NoNode THEN "crashed" ELSE "count")
     \/ /\ head # tmp[c]
        /\ Goto(c, "head")
        /\ UNCHANGED <<head, node, taken>>
  /\ UNCHANGED <<next, tail, tmpAtomic, emptyNode, size, running, active, made, tmp>>

(* --_size; the message is printed unless _running was cleared meanwhile,   *)
(* which ends the consumer.                                                 *)
CountDown(c) ==
  /\ c \in Consumer /\ pc[c] = "count"
  /\ size' = size - 1
  /\ tmp' = [tmp EXCEPT ![c] = NoNode] /\ node' = [node EXCEPT ![c] = NoNode]
  /\ Goto(c, IF running THEN "loop" ELSE "ended")
  /\ UNCHANGED <<next, head, tail, tmpAtomic, emptyNode, running, active, made, taken>>

(* ~QTest(), called by the thread that enqueues. *)
Stop ==
  /\ running /\ \A p \in Producer : Idle(p)
  /\ running' = FALSE
  /\ UNCHANGED <<queue, active, made, thread, taken>>

Produce(p) ==
  \/ Enqueue(p) \/ ReadTail(p) \/ StoreNext(p) \/ Swap(p) \/ Link(p)
  \/ Help(p) \/ Swing(p) \/ CountUp(p)
Consume(c) == Loop(c) \/ ReadHead(c) \/ TestNext(c) \/ MoveHead(c) \/ CountDown(c)

(* A crash ends the program. *)
Crashed == \E t \in Actor : pc[t] = "crashed"
Next ==
  /\ ~Crashed
  /\ (\E p \in Producer : Produce(p)) \/ (\E c \in Consumer : Consume(c)) \/ Stop
Spec == Init /\ [][Next]_vars
-----------------------------------------------------------------------------
TypeOK ==
  /\ next \in [Nodes -> Nodes \cup {NoNode}]
  /\ head \in Nodes \cup {NoNode} /\ tail \in Nodes \cup {NoNode}
  /\ tmpAtomic \in Nodes \cup {NoNode} /\ emptyNode \in Nodes \cup {NoNode}
  /\ size \in Int /\ running \in BOOLEAN
  /\ active \in SUBSET Producer /\ made \in Nodes
  /\ pc \in [Actor -> {"idle", "read", "store", "swap", "link", "linkLast", "help", "swing",
                        "count", "loop", "head", "test", "move", "ended", "crashed"}]
  /\ tmp \in [Actor -> Nodes \cup {NoNode}] /\ node \in [Actor -> Nodes \cup {NoNode}]
  /\ taken \in Seq(Nodes)

(* How many messages one producer has linked: all but the one it is at.     *)
Linked ==
  IF \E p \in Producer : pc[p] \in {"read", "store", "swap", "link", "linkLast", "help"}
  THEN made - 1 ELSE made

(* With one producer and any number of consumers every message is linked    *)
(* behind the one before it and is taken once, in order, and none is lost   *)
(* on the way, though neither side waits for the other.                     *)
InOrderOnce ==
  OneProducer =>
    /\ ~Crashed
    /\ next = [n \in Nodes |-> IF n < Linked THEN n + 1 ELSE NoNode]
    /\ taken = [i \in 1..head |-> i] /\ head <= Linked
=============================================================================
