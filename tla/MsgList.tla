------------------------------- MODULE MsgList -------------------------------
(***************************************************************************)
(* obLib::MsgList: a linked list with a dummy node at its head, a lock for *)
(* each end and one plain int for the size. put() links a node under the   *)
(* tail lock, get() takes the value of the second node under the head lock *)
(* and frees the dummy, peek() reads two pointers under no lock. ++_size   *)
(* and --_size run under different locks, each as a load and a store.      *)
(***************************************************************************)
EXTENDS Integers, Sequences

CONSTANTS
  Producer,      \* threads that call put()
  Consumer,      \* threads that call get() and peek()
  Msg,           \* the values put
  Node,          \* the nodes of the allocator, numbered: bounds the nodes alive
  Null,          \* the pointer 0
  MaxDrift       \* bound: no call starts with _size farther than this from 0

ASSUME DisjointAssumption == Producer \cap Consumer = {}
ASSUME NullAssumption == Null \notin Node \cup Msg \cup Producer \cup Consumer
ASSUME NodeAssumption == Node \subseteq Nat
ASSUME DriftAssumption == MaxDrift \in Nat

VARIABLES
  next,          \* node alive -> its _next
  value,         \* node alive -> its _value
  head, tail,    \* _head and _tail
  size,          \* _size
  lockH, lockT,  \* the threads inside _mutexH and _mutexT, or Null
  pc,            \* thread -> the step of the call it is in
  node,          \* thread -> the local pointer: msg of put() and of peek()
  loaded         \* thread -> the value its ++_size or --_size has loaded

list == <<next, value, head, tail>>
vars == <<list, size, lockH, lockT, pc, node, loaded>>

Thread == Producer \cup Consumer
Alive == DOMAIN next
Lowest(N) == {n \in N : \A x \in N : n <= x}
Fresh == Lowest(Node \ Alive)                  \* the node the allocator gives next
Goto(t, step) == pc' = [pc EXCEPT ![t] = step]

Init ==
  /\ \E n \in Lowest(Node) : /\ next = [x \in {n} |-> Null] /\ value = [x \in {n} |-> Null]
                             /\ head = n /\ tail = n
  /\ size = 0
  /\ lockH = Null /\ lockT = Null
  /\ pc = [t \in Thread |-> "idle"]
  /\ node = [t \in Thread |-> Null]
  /\ loaded = [t \in Thread |-> 0]
-----------------------------------------------------------------------------
(* Mutant of PutLock: the tail lock is not waited for. *)
PutLockFree(p, m) ==
  /\ pc[p] = "idle" /\ size <= MaxDrift
  /\ \E n \in Fresh :
       /\ next' = [x \in Alive \cup {n} |-> IF x = n THEN Null ELSE next[x]]
       /\ value' = [x \in Alive \cup {n} |-> IF x = n THEN m ELSE value[x]]
       /\ node' = [node EXCEPT ![p] = n]
  /\ lockT' = p
  /\ Goto(p, "link")
  /\ UNCHANGED <<head, tail, size, lockH, loaded>>

(* put(): a node is allocated and filled, then the tail lock is taken.      *)
PutLock(p, m) ==
  /\ pc[p] = "idle" /\ size <= MaxDrift
  /\ lockT = Null
  /\ \E n \in Fresh :
       /\ next' = [x \in Alive \cup {n} |-> IF x = n THEN Null ELSE next[x]]
       /\ value' = [x \in Alive \cup {n} |-> IF x = n THEN m ELSE value[x]]
       /\ node' = [node EXCEPT ![p] = n]
  /\ lockT' = p
  /\ Goto(p, "link")
  /\ UNCHANGED <<head, tail, size, lockH, loaded>>

(* _tail->_next = msg *)
PutLink(p) ==
  /\ pc[p] = "link"
  /\ next' = [next EXCEPT ![tail] = node[p]]
  /\ Goto(p, "tail")
  /\ UNCHANGED <<value, head, tail, size, lockH, lockT, node, loaded>>

(* _tail = msg *)
PutTail(p) ==
  /\ pc[p] = "tail"
  /\ tail' = node[p]
  /\ node' = [node EXCEPT ![p] = Null]
  /\ Goto(p, "load")
  /\ UNCHANGED <<next, value, head, size, lockH, lockT, loaded>>

(* the load of ++_size and of --_size *)
Load(t) ==
  /\ loaded' = [loaded EXCEPT ![t] = size]
  /\ Goto(t, "store")

PutLoad(p) ==
  /\ p \in Producer /\ pc[p] = "load"
  /\ Load(p)
  /\ UNCHANGED <<list, size, lockH, lockT, node>>

(* the store of ++_size and the unlock: put() returns the value stored *)
PutStore(p) ==
  /\ p \in Producer /\ pc[p] = "store"
  /\ size' = loaded[p] + 1
  /\ loaded' = [loaded EXCEPT ![p] = 0]
  /\ lockT' = Null
  /\ Goto(p, "idle")
  /\ UNCHANGED <<list, lockH, node>>
-----------------------------------------------------------------------------
(* get() takes the head lock; on a list with no second node it returns 0.   *)
GetEmpty(c) ==
  /\ pc[c] = "idle" /\ lockH = Null
  /\ next[head] = Null
  /\ UNCHANGED vars

GetLock(c) ==
  /\ pc[c] = "idle" /\ lockH = Null /\ size >= -MaxDrift
  /\ next[head] # Null
  /\ lockH' = c
  /\ Goto(c, "load")
  /\ UNCHANGED <<list, size, lockT, node, loaded>>

GetLoad(c) ==
  /\ c \in Consumer /\ pc[c] = "load"
  /\ Load(c)
  /\ UNCHANGED <<list, size, lockH, lockT, node>>

GetStore(c) ==
  /\ c \in Consumer /\ pc[c] = "store"
  /\ size' = loaded[c] - 1
  /\ loaded' = [loaded EXCEPT ![c] = 0]
  /\ Goto(c, "advance")
  /\ UNCHANGED <<list, lockH, lockT, node>>

(* Mutant of GetAdvance: the node freed is the one the head moves to. *)
GetAdvanceFreesNew(c) ==
  /\ pc[c] = "advance"
  /\ head' = next[head]
  /\ next' = [x \in Alive \ {next[head]} |-> next[x]]
  /\ value' = [x \in Alive \ {next[head]} |-> value[x]]
  /\ lockH' = Null
  /\ Goto(c, "idle")
  /\ UNCHANGED <<tail, size, lockT, node, loaded>>

(* The second node becomes the dummy, the old dummy is freed, unlock.       *)
GetAdvance(c) ==
  /\ pc[c] = "advance"
  /\ head' = next[head]
  /\ next' = [x \in Alive \ {head} |-> next[x]]
  /\ value' = [x \in Alive \ {head} |-> value[x]]
  /\ lockH' = Null
  /\ Goto(c, "idle")
  /\ UNCHANGED <<tail, size, lockT, node, loaded>>

(* peek(): the read of _head, then the reads through it. *)
PeekHead(c) ==
  /\ pc[c] = "idle"
  /\ node' = [node EXCEPT ![c] = head]
  /\ Goto(c, "peek")
  /\ UNCHANGED <<list, size, lockH, lockT, loaded>>

PeekNext(c) ==
  /\ pc[c] = "peek"
  /\ node' = [node EXCEPT ![c] = Null]
  /\ Goto(c, "idle")
  /\ UNCHANGED <<list, size, lockH, lockT, loaded>>

Put(p) ==
  \/ \E m \in Msg : PutLock(p, m)
  \/ PutLink(p) \/ PutTail(p) \/ PutLoad(p) \/ PutStore(p)
Get(c) == GetEmpty(c) \/ GetLock(c) \/ GetLoad(c) \/ GetStore(c) \/ GetAdvance(c)
Peek(c) == PeekHead(c) \/ PeekNext(c)

Next == (\E p \in Producer : Put(p)) \/ (\E c \in Consumer : Get(c) \/ Peek(c))
Spec == Init /\ [][Next]_vars
-----------------------------------------------------------------------------
(* Every pointer a thread is about to follow leads to a node alive: put()   *)
(* writes through _tail, get() reads through _head, the lockless peek()     *)
(* reads through the _head it read before (safe as long as the only         *)
(* consumer is the one that peeks), and no node alive leads to a freed one. *)
NoUseAfterFree ==
  /\ head \in Alive
  /\ \A p \in Producer : pc[p] = "link" => tail \in Alive
  /\ \A c \in Consumer : pc[c] = "peek" => node[c] \in Alive
  /\ \A n \in Alive : next[n] \in Alive \cup {Null}

(* The messages between _head and the last linked node.                     *)
Linked ==
  LET from[n \in Alive] ==
        IF next[n] = Null THEN <<>> ELSE <<value[next[n]]>> \o from[next[n]]
  IN  from[head]

(* The list is a FIFO queue whatever the interleaving of its two ends and   *)
(* whatever happens to _size: a put() takes effect when its node is linked, *)
(* a get() when the head moves.                                             *)
Fifo == INSTANCE FifoQueue WITH queue <- Linked
ImplementsFifo == Fifo!Spec
=============================================================================
