-------------------------------- MODULE MsgQ --------------------------------
(***************************************************************************)
(* obLib::MsgQ: a linked list with a dummy node, both ends under the one   *)
(* SpinLock _mutexH. post() links a node; wait() tries get() once and, if  *)
(* it found nothing and may wait, takes _mutexH and calls get() again,     *)
(* which takes _mutexH too. The lock is not recursive: the second get()    *)
(* never returns, and what follows it in wait() is never reached.          *)
(* Condition::wait() and signalOne() are empty functions.                  *)
(***************************************************************************)
EXTENDS Integers, Sequences

CONSTANTS
  Thread,        \* threads that call post() and wait()
  Msg,           \* the values posted
  Node,          \* the nodes of the allocator, numbered: bounds the nodes alive
  Null           \* the pointer 0

ASSUME NullAssumption == Null \notin Node \cup Msg
ASSUME NodeAssumption == Node \subseteq Nat

VARIABLES
  shared,        \* is this the specialisation for shared_ptr?
  next,          \* node alive -> its _next
  value,         \* node alive -> its _value
  head, tail,    \* _head and _tail
  waitingForTake,\* _waitingForTake
  pc,            \* thread -> the step of the call it is in
  local,         \* thread -> its local pointer: msg of post(), newHead of get()
  mayWait,       \* thread -> has its wait() a timeout other than 0?
  word, guards   \* _mutexH, and where each SpinGuard is in it

list == <<next, value, head, tail>>
thread == <<pc, local, mayWait>>
lock == <<word, guards>>
vars == <<shared, list, waitingForTake, thread, lock>>

(* A thread has at most two SpinGuards at a time: that of post() or get(),  *)
(* and that of the block of wait() which calls get().                       *)
Guard == Thread \X {"section", "wait"}
Section(t) == <<t, "section">>
Block(t) == <<t, "wait">>

Lock == INSTANCE SpinLock WITH Thread <- Guard, pc <- guards

Alive == DOMAIN next
Lowest(N) == {n \in N : \A x \in N : n <= x}   \* what the allocator gives next
Goto(t, step) == pc' = [pc EXCEPT ![t] = step]

Init ==
  /\ shared \in BOOLEAN
  /\ \E n \in Lowest(Node) : /\ next = [x \in {n} |-> Null] /\ value = [x \in {n} |-> Null]
                             /\ head = n /\ tail = n
  /\ waitingForTake = 0
  /\ pc = [t \in Thread |-> "idle"]
  /\ local = [t \in Thread |-> Null]
  /\ mayWait = [t \in Thread |-> FALSE]
  /\ Lock!Init
-----------------------------------------------------------------------------
(* post(0) returns -1. *)
PostNothing(t) == pc[t] = "idle" /\ UNCHANGED vars

(* post(): a node is allocated and filled, then the lock is called for.     *)
Post(t, m) ==
  /\ pc[t] = "idle"
  /\ \E n \in Lowest(Node \ Alive) :
       /\ next' = [x \in Alive \cup {n} |-> IF x = n THEN Null ELSE next[x]]
       /\ value' = [x \in Alive \cup {n} |-> IF x = n THEN m ELSE value[x]]
       /\ local' = [local EXCEPT ![t] = n]
  /\ Goto(t, "link")
  /\ Lock!Call(Section(t))
  /\ UNCHANGED <<shared, head, tail, waitingForTake, mayWait>>

(* Mutant of PostLink: the node is linked outside the lock. *)
PostLinkOpen(t) ==
  /\ pc[t] = "link"
  /\ next' = [next EXCEPT ![tail] = local[t]]
  /\ Goto(t, "tail")
  /\ guards' = [guards EXCEPT ![Section(t)] = "inside"]
  /\ UNCHANGED <<shared, value, head, tail, waitingForTake, local, mayWait, word>>

(* _tail->_next = msg *)
PostLink(t) ==
  /\ pc[t] = "link" /\ guards[Section(t)] = "inside"
  /\ next' = [next EXCEPT ![tail] = local[t]]
  /\ Goto(t, "tail")
  /\ UNCHANGED <<shared, value, head, tail, waitingForTake, local, mayWait, lock>>

(* _tail = msg, a signal that does nothing, unlock. *)
PostTail(t) ==
  /\ pc[t] = "tail"
  /\ tail' = local[t]
  /\ local' = [local EXCEPT ![t] = Null]
  /\ Goto(t, "idle")
  /\ Lock!Unlock(Section(t))
  /\ UNCHANGED <<shared, next, value, head, waitingForTake, mayWait>>
-----------------------------------------------------------------------------
(* wait() with its first get(). *)
Wait(t, w) ==
  /\ pc[t] = "idle"
  /\ mayWait' = [mayWait EXCEPT ![t] = w]
  /\ Goto(t, "get")
  /\ Lock!Call(Section(t))
  /\ UNCHANGED <<shared, list, waitingForTake, local>>

(* get() inside the lock: newHead = _head->_next *)
GetRead(t) ==
  /\ pc[t] = "get" /\ guards[Section(t)] = "inside"
  /\ local' = [local EXCEPT ![t] = next[head]]
  /\ Goto(t, "got")
  /\ UNCHANGED <<shared, list, waitingForTake, mayWait, lock>>

(* Nothing there: get() returns 0, and so does a wait() of timeout 0.       *)
GetNothing(t) ==
  /\ pc[t] = "got" /\ local[t] = Null
  /\ Goto(t, IF mayWait[t] THEN "again" ELSE "idle")
  /\ Lock!Unlock(Section(t))
  /\ UNCHANGED <<shared, list, waitingForTake, local, mayWait>>

(* The head moves to the node of the message and the old one is freed; a    *)
(* shared pointer is taken out of the node, a plain one stays in it.        *)
GetFound(t) ==
  /\ pc[t] = "got" /\ local[t] # Null
  /\ head' = local[t]
  /\ next' = [x \in Alive \ {head} |-> next[x]]
  /\ value' = [x \in Alive \ {head} |-> IF shared /\ x = local[t] THEN Null ELSE value[x]]
  /\ local' = [local EXCEPT ![t] = Null]
  /\ mayWait' = [mayWait EXCEPT ![t] = FALSE]
  /\ Goto(t, "idle")
  /\ Lock!Unlock(Section(t))
  /\ UNCHANGED <<shared, tail, waitingForTake>>

(* wait() goes on: the block with a guard of its own. *)
WaitBlock(t) ==
  /\ pc[t] = "again"
  /\ Goto(t, "block")
  /\ Lock!Call(Block(t))
  /\ UNCHANGED <<shared, list, waitingForTake, local, mayWait>>

(* Mutant of WaitAgain: the lock is given back before get() is called.      *)
WaitAgainReleases(t) ==
  /\ pc[t] = "block" /\ guards[Block(t)] = "inside"
  /\ waitingForTake' = waitingForTake + 1
  /\ Goto(t, "get")
  /\ guards' = [guards EXCEPT ![Block(t)] = "outside", ![Section(t)] = "exchange"]
  /\ word' = Lock!UNLOCKED
  /\ UNCHANGED <<shared, list, local, mayWait>>

(* ++_waitingForTake, then get() calls for the lock the thread is inside of. *)
WaitAgain(t) ==
  /\ pc[t] = "block" /\ guards[Block(t)] = "inside"
  /\ waitingForTake' = waitingForTake + 1
  /\ Goto(t, "get")
  /\ Lock!Call(Section(t))
  /\ UNCHANGED <<shared, list, local, mayWait>>

(* A guard in lock() takes a step of it. *)
LockStep(g) ==
  /\ Lock!Exchange(g) \/ Lock!Spin(g)
  /\ UNCHANGED <<shared, list, waitingForTake, thread>>

Step(t) ==
  \/ PostLink(t) \/ PostTail(t)
  \/ GetRead(t) \/ GetNothing(t) \/ GetFound(t) \/ WaitBlock(t) \/ WaitAgain(t)
  \/ LockStep(Section(t)) \/ LockStep(Block(t))
Call(t) ==
  \/ PostNothing(t) \/ (\E m \in Msg : Post(t, m))
  \/ \E w \in BOOLEAN : Wait(t, w)

Next == \E t \in Thread : Call(t) \/ Step(t)
Spec == Init /\ [][Next]_vars

(* Threads keep running; nobody has to call. *)
FairSpec == Spec /\ \A t \in Thread : WF_vars(Step(t))
-----------------------------------------------------------------------------
TypeOK ==
  /\ shared \in BOOLEAN
  /\ next \in [Alive -> Node \cup {Null}] /\ Alive \subseteq Node
  /\ value \in [Alive -> Msg \cup {Null}]
  /\ head \in Node /\ tail \in Node
  /\ waitingForTake \in Nat
  /\ pc \in [Thread -> {"idle", "link", "tail", "get", "got", "again", "block"}]
  /\ local \in [Thread -> Node \cup {Null}]
  /\ mayWait \in [Thread -> BOOLEAN]
  /\ Lock!TypeOK

(* What the guards are used for: post(), get() and the block of wait() are  *)
(* run by one thread at a time, and by one guard of it.                     *)
MutualExclusion == Lock!MutualExclusion

(* The waiter's own lock is in the way of its get().                        *)
Hung(t) == guards[Block(t)] = "inside" /\ pc[t] = "get"
SomeoneHung == \E t \in Thread : Hung(t)

(* A wait() that found nothing and may wait never returns: from the moment  *)
(* it is counted nothing is posted or taken any more, by anyone, whatever   *)
(* the timeout.                                                             *)
HangsForGood ==
  [][waitingForTake > 0 => SomeoneHung /\ SomeoneHung' /\ UNCHANGED <<head, tail>>]_vars

(* Until a waiter hangs, whoever wants the lock, or another, gets it.       *)
SomeoneEnters ==
  (\E g \in Guard : guards[g] \in {"exchange", "spin"})
    ~> ((\E t \in Thread : guards[Section(t)] = "inside") \/ SomeoneHung)

(* The messages between _head and the last linked node.                     *)
Linked ==
  LET from[n \in Alive] ==
        IF next[n] = Null THEN <<>> ELSE <<value[next[n]]>> \o from[next[n]]
  IN  from[head]

(* What is posted comes out of wait() once and in order: a post() takes     *)
(* effect when its node is linked, a get() when the head moves.             *)
Fifo == INSTANCE FifoQueue WITH queue <- Linked
ImplementsFifo == Fifo!Spec
=============================================================================
