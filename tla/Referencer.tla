------------------------------ MODULE Referencer ------------------------------
(***************************************************************************)
(* obLib::Referencer: a mailbox whose messages are executed one at a time  *)
(* and in order, though put by many threads and executed by a pool. The    *)
(* put() that finds the mailbox empty (MsgList::put returned 1) posts its  *)
(* message to the dispatch queue; the worker that takes it executes the    *)
(* mailbox until it is empty (MsgList::get returned 0 or less). So the     *)
(* value of _size each end sees decides who owns the mailbox. A dispatch   *)
(* queue is any IDispatchQ: its post() may refuse a message (a result < 0).*)
(*                                                                         *)
(* The list is the FIFO queue that MsgList implements, with its _size a    *)
(* plain int changed by a load and a store: ++_size and --_size run under   *)
(* two locks and may overlap. The tail lock covers a whole put(), the head *)
(* lock a whole get(). Mailboxes without such an overlap (atomic) are the  *)
(* ones the protocol is right about.                                       *)
(***************************************************************************)
EXTENDS Integers, Sequences, FiniteSets

CONSTANTS
  Producer,       \* threads that put()
  Worker,         \* threads that wait() on the dispatch queue and execute()
  Msg,            \* the messages
  None,
  Results,        \* the sets of result bits a functor may return
  StartPriority,  \* the values _priority may be set to before the first use
  MaxDebt,        \* bound: a _priority this far below 0 is counted down no further
  MaxSize,        \* bound: no put() starts with _size above it
  MaxKeep         \* bound: KEEP results of a message before another result

ASSUME ThreadAssumption == Producer \cap Worker = {}
ASSUME NoneAssumption == None \notin Msg \cup Producer \cup Worker
ASSUME ResultsAssumption == Results \subseteq SUBSET {"KEEP", "LAST", "DEL", "END"}
ASSUME PriorityAssumption == StartPriority \subseteq Int /\ MaxKeep \in Nat /\ MaxDebt \in Nat

VARIABLES
  atomic,      \* no ++_size of this program run overlaps a --_size
  list,        \* the messages linked in _completionList
  size,        \* its _size
  lockT,       \* the producer inside its tail lock, or None
  lockH,       \* the worker inside its head lock, or None
  priority,    \* _priority
  dispatch,    \* the dispatch queue
  refused,     \* the message whose post to it has failed, or None
  destroyed,   \* the messages deleted and not made again
  left,        \* the message a functor left in the mailbox by END or DEL | KEEP
  kept,        \* message -> KEEP results it has had in a row
  pc,          \* thread -> its step
  tmp,         \* thread -> its message
  loaded,      \* thread -> the _size it loaded; for a worker then the value stored
  budget,      \* worker -> the local priority of execute()
  last         \* worker -> execute() is to leave after this message

mailbox == <<list, size, lockT, lockH, priority>>
thread == <<pc, tmp, loaded, budget, last>>
vars == <<atomic, mailbox, dispatch, refused, destroyed, left, kept, thread>>

Thread == Producer \cup Worker
Q_SIZE == -2      \* FUNCTOR_PRIORITY_Q_SIZE
Goto(t, step) == pc' = [pc EXCEPT ![t] = step]
Held == {tmp[t] : t \in Thread} \cup {list[k] : k \in 1 .. Len(list)}

Init ==
  /\ atomic \in BOOLEAN
  /\ list = <<>> /\ size = 0 /\ lockT = None /\ lockH = None
  /\ priority \in StartPriority
  /\ dispatch = <<>> /\ refused = None
  /\ destroyed = {} /\ left = None
  /\ kept = [m \in Msg |-> 0]
  /\ pc = [t \in Thread |-> "idle"]
  /\ tmp = [t \in Thread |-> None]
  /\ loaded = [t \in Thread |-> 0]
  /\ budget = [w \in Worker |-> 0]
  /\ last = [w \in Worker |-> FALSE]
-----------------------------------------------------------------------------
(* put(msg): a message that is nowhere in the mailbox (a deleted one is a   *)
(* new one at its address) is linked under the tail lock.                   *)
PutLink(p, m) ==
  /\ pc[p] = "idle" /\ lockT = None /\ size <= MaxSize
  /\ m \notin Held
  /\ list' = Append(list, m)
  /\ lockT' = p
  /\ tmp' = [tmp EXCEPT ![p] = m]
  /\ destroyed' = destroyed \ {m}
  /\ Goto(p, "load")
  /\ UNCHANGED <<atomic, size, lockH, priority, dispatch, refused, left, kept, loaded, budget, last>>

Load(t) ==
  /\ pc[t] = "load"
  /\ atomic => \A u \in Thread : pc[u] # "store"
  /\ loaded' = [loaded EXCEPT ![t] = size]
  /\ Goto(t, "store")
  /\ UNCHANGED <<atomic, mailbox, dispatch, refused, destroyed, left, kept, tmp, budget, last>>

(* _dispatchQ->post(m, 0). When it fails, m is on no queue, but it stays    *)
(* linked in the mailbox and counted in _size.                              *)
Post(m) == \/ dispatch' = Append(dispatch, m) /\ UNCHANGED refused
           \/ refused' = m /\ UNCHANGED dispatch

(* Mutant of PutStore: every put() posts. *)
PutStorePosts(p) ==
  /\ p \in Producer /\ pc[p] = "store"
  /\ size' = loaded[p] + 1
  /\ Post(tmp[p])
  /\ lockT' = None
  /\ loaded' = [loaded EXCEPT ![p] = 0]
  /\ tmp' = [tmp EXCEPT ![p] = None]
  /\ Goto(p, "idle")
  /\ UNCHANGED <<atomic, list, lockH, priority, destroyed, left, kept, budget, last>>

(* The store of ++_size, the unlock and, if the value is 1, the post: put() *)
(* returns false if that fails, and undoes nothing. (add hands the message  *)
(* to its caller instead, who executes it: a post with nothing in between.) *)
PutStore(p) ==
  /\ p \in Producer /\ pc[p] = "store"
  /\ size' = loaded[p] + 1
  /\ IF size' = 1 THEN Post(tmp[p]) ELSE UNCHANGED <<dispatch, refused>>
  /\ lockT' = None
  /\ loaded' = [loaded EXCEPT ![p] = 0]
  /\ tmp' = [tmp EXCEPT ![p] = None]
  /\ Goto(p, "idle")
  /\ UNCHANGED <<atomic, list, lockH, priority, destroyed, left, kept, budget, last>>
-----------------------------------------------------------------------------
(* A worker takes a message off the dispatch queue and calls execute(). (A  *)
(* message that is not INUSE is marked so and executed all the same.)       *)
Take(w) ==
  /\ pc[w] = "idle" /\ dispatch # <<>>
  /\ tmp' = [tmp EXCEPT ![w] = Head(dispatch)]
  /\ dispatch' = Tail(dispatch)
  /\ budget' = [budget EXCEPT ![w] = IF priority = Q_SIZE THEN size ELSE priority]
  /\ Goto(w, "call")
  /\ UNCHANGED <<atomic, mailbox, refused, destroyed, left, kept, loaded, last>>

(* The end of execute(), or of its loop, with m as the next message.        *)
Leave(w) ==
  /\ tmp' = [tmp EXCEPT ![w] = None]
  /\ last' = [last EXCEPT ![w] = FALSE]
  /\ budget' = [budget EXCEPT ![w] = 0]
  /\ Goto(w, "idle")

(* Mutant of GoOn: a worker that leaves does not post the next message. *)
GoOnQuietly(w, m, leaving) ==
  IF leaving \/ m = None
  THEN Leave(w) /\ UNCHANGED <<dispatch, refused>>
  ELSE /\ tmp' = [tmp EXCEPT ![w] = m]
       /\ Goto(w, "call")
       /\ UNCHANGED <<dispatch, refused, budget, last>>

(* The result of the post of a worker that leaves is ignored.               *)
GoOn(w, m, leaving) ==
  IF leaving \/ m = None
  THEN /\ Leave(w)
       /\ IF m = None THEN UNCHANGED <<dispatch, refused>> ELSE Post(m)
  ELSE /\ tmp' = [tmp EXCEPT ![w] = m]
       /\ Goto(w, "call")
       /\ UNCHANGED <<dispatch, refused, budget, last>>

(* Mutant of Kept: the pointer to the deleted message is not cleared. *)
KeptDangling(res, m) == m

(* The message KEEP goes on with: none if it was deleted.                   *)
Kept(res, m) == IF "DEL" \in res THEN None ELSE m

(* The functor returned END: execute() returns at once. *)
CallEnd(w) ==
  /\ pc[w] = "call"
  /\ \E res \in Results : "END" \in res
  /\ left' = tmp[w]
  /\ Leave(w)
  /\ UNCHANGED <<atomic, mailbox, dispatch, refused, destroyed, kept, loaded>>

(* Any other result: the priority is counted down, a DEL message deleted. A *)
(* KEEP message is the next one again, deleted or not; the mailbox goes on  *)
(* to the get() otherwise.                                                  *)
Call(w, res) ==
  /\ pc[w] = "call" /\ "END" \notin res
  /\ priority' = IF budget[w] > 0 /\ priority > -MaxDebt THEN priority - 1 ELSE priority
  /\ destroyed' = IF "DEL" \in res THEN destroyed \cup {tmp[w]} ELSE destroyed
  /\ LET leaving == priority' = 0 \/ "LAST" \in res
     IN  IF "KEEP" \in res
         THEN /\ kept[tmp[w]] < MaxKeep
              /\ kept' = [kept EXCEPT ![tmp[w]] = @ + 1]
              /\ left' = IF "DEL" \in res THEN tmp[w] ELSE left
              /\ GoOn(w, Kept(res, tmp[w]), leaving)
         ELSE /\ kept' = [kept EXCEPT ![tmp[w]] = 0]
              /\ last' = [last EXCEPT ![w] = leaving]
              /\ Goto(w, "get")
              /\ UNCHANGED <<left, dispatch, refused, tmp, budget>>
  /\ UNCHANGED <<atomic, list, size, lockT, lockH, loaded>>

(* get() takes the head lock; on an empty list it returns 0.                *)
GetLock(w) ==
  /\ pc[w] = "get" /\ lockH = None
  /\ list # <<>>
  /\ lockH' = w
  /\ Goto(w, "load")
  /\ UNCHANGED <<atomic, list, size, lockT, priority, dispatch, refused, destroyed, left, kept, tmp, loaded,
                 budget, last>>

GetEmpty(w) ==
  /\ pc[w] = "get" /\ lockH = None
  /\ list = <<>>
  /\ GoOn(w, None, last[w])
  /\ UNCHANGED <<atomic, mailbox, destroyed, left, kept, loaded>>

(* the store of --_size *)
GetStore(w) ==
  /\ w \in Worker /\ pc[w] = "store"
  /\ size' = loaded[w] - 1
  /\ loaded' = [loaded EXCEPT ![w] = size']
  /\ Goto(w, "advance")
  /\ UNCHANGED <<atomic, list, lockT, lockH, priority, dispatch, refused, destroyed, left, kept, tmp, budget, last>>

(* Mutant of GetAdvance: peek() comes before the head has moved. *)
GetAdvancePeeked(w) ==
  /\ pc[w] = "advance"
  /\ list' = Tail(list)
  /\ lockH' = None
  /\ GoOn(w, IF loaded[w] > 0 THEN Head(list) ELSE None, last[w])
  /\ loaded' = [loaded EXCEPT ![w] = 0]
  /\ UNCHANGED <<atomic, size, lockT, priority, destroyed, left, kept>>

(* The head moves and the lock goes; if get() returned more than 0, peek()  *)
(* gives the next message.                                                  *)
GetAdvance(w) ==
  /\ pc[w] = "advance"
  /\ list' = Tail(list)
  /\ lockH' = None
  /\ LET peeked == IF loaded[w] > 0 /\ list' # <<>> THEN Head(list') ELSE None
     IN  GoOn(w, peeked, last[w])
  /\ loaded' = [loaded EXCEPT ![w] = 0]
  /\ UNCHANGED <<atomic, size, lockT, priority, destroyed, left, kept>>
-----------------------------------------------------------------------------
Put(p) == (\E m \in Msg : PutLink(p, m)) \/ Load(p) \/ PutStore(p)
Execute(w) ==
  \/ CallEnd(w) \/ \E res \in Results : Call(w, res)
  \/ GetLock(w) \/ GetEmpty(w) \/ Load(w) \/ GetStore(w) \/ GetAdvance(w)

Next == (\E p \in Producer : Put(p)) \/ (\E w \in Worker : Take(w) \/ Execute(w))
Spec == Init /\ [][Next]_vars

(* Threads run: a put() under way ends, a message on the dispatch queue is  *)
(* taken by some worker of the pool, a worker in execute() goes on.         *)
Fairness ==
  /\ \A p \in Producer : WF_vars(Load(p)) /\ WF_vars(PutStore(p))
  /\ WF_vars(\E w \in Worker : Take(w))
  /\ \A w \in Worker : WF_vars(Execute(w))
FairSpec == Spec /\ Fairness
-----------------------------------------------------------------------------
TypeOK ==
  /\ atomic \in BOOLEAN
  /\ list \in Seq(Msg) /\ size \in Int
  /\ lockT \in Producer \cup {None} /\ lockH \in Worker \cup {None}
  /\ priority \in Int
  /\ dispatch \in Seq(Msg) /\ refused \in Msg \cup {None}
  /\ destroyed \subseteq Msg /\ left \in Msg \cup {None}
  /\ kept \in [Msg -> 0 .. MaxKeep]
  /\ pc \in [Thread -> {"idle", "load", "store", "call", "get", "advance"}]
  /\ tmp \in [Thread -> Msg \cup {None}]
  /\ loaded \in [Thread -> Int]
  /\ budget \in [Worker -> Int] /\ last \in [Worker -> BOOLEAN]

(* The owners of the mailbox: messages on the dispatch queue and workers in *)
(* execute(), but for one whose --_size stored 0 and that only has to move  *)
(* the head and leave. There is at most one owner, so no two messages of a  *)
(* mailbox (the orders of one token) are ever executed at the same time,    *)
(* not even when updates of _size are lost.                                 *)
Owns(w) == pc[w] \in {"call", "get", "load", "store"} \/ (pc[w] = "advance" /\ loaded[w] > 0)
OneOwner == Len(dispatch) + Cardinality({w \in Worker : Owns(w)}) <= 1

(* The message an owner has, or is dispatched with, is the oldest one that  *)
(* no get() is removing: it is executed in the order of the puts, and the   *)
(* message get() removes is the one that was executed, not a later one.     *)
Waiting == IF \E w \in Worker : pc[w] = "advance" THEN Tail(list) ELSE list
OwnerHasOldest ==
  atomic =>
    /\ \A k \in 1 .. Len(dispatch) : Waiting # <<>> /\ dispatch[k] = Head(Waiting)
    /\ \A w \in Worker : pc[w] \in {"call", "get", "load", "store"} =>
         Waiting # <<>> /\ tmp[w] = Head(Waiting)

(* No functor is called on a message that was deleted. *)
NoUseAfterDelete == atomic => \A w \in Worker : pc[w] = "call" => tmp[w] \notin destroyed

(* Once a post was refused, its message stays the oldest of the mailbox and *)
(* nobody ever owns that again, whoever else puts: each later put() finds   *)
(* _size above 1, posts nothing and returns true, though its message will   *)
(* not be executed either (Referencer.hpp:185-191).                         *)
RefusedForGood ==
  refused # None =>
    /\ dispatch = <<>> /\ \A w \in Worker : ~Owns(w)
    /\ atomic => Waiting # <<>> /\ refused = Head(Waiting)

(* Every message put is executed and removed in the end, unless a functor   *)
(* kept the mailbox to itself or a post was refused: none is left behind by *)
(* a put() that saw an owner and an owner that saw an empty list.           *)
In(m) == \E k \in 1 .. Len(list) : list[k] = m
EverythingServed == \A m \in Msg : (atomic /\ In(m)) ~> (~In(m) \/ left # None \/ refused # None)

(* "Multiple Threads work on DispatchQ of Refereners. After picking the     *)
(* packet, convert them into Order/Trade and update the OrderBook"          *)
(* (MktDataReceiver.hpp:20-21): a mailbox nobody is busy with has no        *)
(* message waiting, unless a functor kept the mailbox to itself or a post   *)
(* failed.                                                                  *)
AtRest == dispatch = <<>> /\ \A t \in Thread : pc[t] = "idle"
NothingStranded == AtRest /\ left = None /\ refused = None => list = <<>>
=============================================================================
