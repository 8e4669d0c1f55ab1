------------------------------- MODULE Adaptor -------------------------------
(***************************************************************************)
(* How the upper layer sends orders through SessionImpl to an NSESession:  *)
(* it registers a product and gets a message with an order manager made for *)
(* it; a new order takes an order out of the manager's pool, which    *)
(* goes back when the last pointer to it is gone. That the connection is   *)
(* gone reaches SessionImpl through the worker thread of an io_service.    *)
(*                                                                         *)
(* Nothing in the code fills a pool or reports an open session: a manager  *)
(* is made with an empty pool, or with one that initOrderPool() filled,    *)
(* and Logon stands for whoever would call notifySessionState(true). The   *)
(* session writes nothing for a new order, its buffer has size 0, and does *)
(* nothing for a modify or a cancel.                                       *)
(***************************************************************************)
EXTENDS Integers, Sequences

CONSTANTS
  Client,        \* threads of the upper layer
  MaxOrders,     \* bound: orders made by initOrderPool() and clone()
  MaxManagers,   \* bound: calls of registerSymbol()
  MaxPool,       \* the greatest argument of initOrderPool()
  MaxNotices,    \* bound: notices posted and not run
  Null           \* a null pointer, and memory nothing was written to

ASSUME BoundAssumption ==
  /\ Null \notin Nat
  /\ MaxOrders \in Nat /\ MaxManagers \in Nat /\ MaxPool \in Nat /\ MaxNotices \in Nat

VARIABLES
  connected,     \* is the session logged on to the exchange?
  notices,       \* the notifySessionState() calls posted to _ioService
  isUp,          \* what the session listener was told last
  isOpen,        \* _isSessionOpen
  made,          \* order managers made, numbered from 1
  managers,      \* the memory of the deque _orderManagers
  finish,        \* the end of the deque
  orderList,     \* manager -> _orderList, the head of its pool
  next, home,    \* orders made, by number: the _next and the _manager of each
  messages,      \* the order managers of the product order messages made
  pc,            \* client -> the step of the call it is in
  own, slot,     \* client -> the manager it has made, the slot or index it has read
  mine,          \* client -> [manager, order]: the pool and the templateOrder it uses
  alone,         \* the clients whose registration nobody else's has overlapped
  crashed        \* has a bad pointer ended the program?

session == <<connected, notices, isUp, isOpen>>
registry == <<made, managers, finish, messages, own, slot, alone>>
pool == <<orderList, next, home, mine>>
vars == <<session, registry, pool, pc, crashed>>

Manager == 1..made
Order == DOMAIN next
Idle(c) == pc[c] = "idle"
Goto(c, step) == pc' = [pc EXCEPT ![c] = step]
Registering == {c \in Client : pc[c] \in {"push", "index", "get"}}
NoOrder == [manager |-> Null, order |-> Null]

(* AdaptorFactory::createSession() and the constructors it leads to.        *)
Init ==
  /\ connected = FALSE /\ notices = <<>>
  /\ isUp = FALSE /\ isOpen = FALSE
  /\ made = 0 /\ orderList = <<>>
  /\ managers = [i \in 0..MaxManagers - 1 |-> Null] /\ finish = 0
  /\ next = <<>> /\ home = <<>>
  /\ messages = {}
  /\ pc = [c \in Client |-> "idle"]
  /\ own = [c \in Client |-> Null] /\ slot = [c \in Client |-> Null]
  /\ mine = [c \in Client |-> NoOrder]
  /\ alone = {}
  /\ crashed = FALSE
-----------------------------------------------------------------------------
(* The connection, and the notices of it.                                   *)
Logon ==
  /\ ~connected /\ Len(notices) < MaxNotices
  /\ connected' = TRUE
  /\ notices' = Append(notices, TRUE)
  /\ UNCHANGED <<isUp, isOpen, registry, pool, pc, crashed>>

(* Mutant of Disconnect: one notice at a time is enough. *)
DisconnectCoalesced ==
  /\ Len(notices) < MaxNotices
  /\ connected' = FALSE
  /\ notices' = IF notices = <<>> THEN <<FALSE>> ELSE notices
  /\ UNCHANGED <<isUp, isOpen, registry, pool, pc, crashed>>

(* NSESession::disconnect(), on the reader thread, also of a connection     *)
(* that never logged on.                                                    *)
Disconnect ==
  /\ Len(notices) < MaxNotices
  /\ connected' = FALSE
  /\ notices' = Append(notices, FALSE)
  /\ UNCHANGED <<isUp, isOpen, registry, pool, pc, crashed>>

(* onSessionOpen() and onSessionClose() tell the listener first, on the     *)
(* worker thread, ...                                                       *)
Tell ==
  /\ notices # <<>> /\ Head(notices) # isUp /\ isUp = isOpen
  /\ isUp' = Head(notices)
  /\ UNCHANGED <<connected, notices, isOpen, registry, pool, pc, crashed>>

(* ... and set the flag then. Neither does anything if the flag is set so.  *)
Notify ==
  /\ notices # <<>> /\ Head(notices) = isUp
  /\ isOpen' = isUp
  /\ notices' = Tail(notices)
  /\ UNCHANGED <<connected, isUp, registry, pool, pc, crashed>>
-----------------------------------------------------------------------------
(* initOrderPool(n): the first order and n - 1 clones of it, each put in    *)
(* front of the last. clone() copies the manager.                           *)
InitOrderPool(m, n) ==
  /\ Len(next) + n <= MaxOrders
  /\ next' = next \o [i \in 1..n |-> IF i = 1 THEN Null ELSE Len(next) + i - 1]
  /\ home' = home \o [i \in 1..n |-> m]
  /\ orderList' = Append(orderList, IF n = 0 THEN Null ELSE Len(next) + n)

(* createProductOrderMessage(): a symbol definition and registerSymbol(),   *)
(* whose init() leaves the pool empty or fills it, up to the store of the   *)
(* push_back(). initOrderPool() uses what createCancelOrder() and           *)
(* createReplaceOrder() do not return and may end the program.              *)
Register(c, n) ==
  /\ Idle(c) /\ made < MaxManagers
  /\ made' = made + 1
  /\ InitOrderPool(made + 1, n)
  /\ managers' = [managers EXCEPT ![finish] = made + 1]
  /\ own' = [own EXCEPT ![c] = made + 1]
  /\ slot' = [slot EXCEPT ![c] = finish]
  /\ alone' = IF Registering = {} THEN {c} ELSE {}
  /\ crashed' \in {FALSE, n > 0}
  /\ Goto(c, "push")
  /\ UNCHANGED <<session, finish, messages, mine>>

(* The end of the deque moves on, from where it is or from where it was.    *)
Push(c) ==
  /\ pc[c] = "push"
  /\ finish' \in {finish + 1, slot[c] + 1}
  /\ Goto(c, "index")
  /\ UNCHANGED <<session, made, managers, messages, own, slot, alone, pool, crashed>>

(* Mutant of Index: size() as it was before the push_back(). *)
IndexBefore(c) ==
  /\ pc[c] = "index"
  /\ slot' = [slot EXCEPT ![c] = IF finish < 2 THEN 0 ELSE finish - 2]
  /\ Goto(c, "get")
  /\ UNCHANGED <<session, made, managers, finish, messages, own, alone, pool, crashed>>

(* size() - 1 *)
Index(c) ==
  /\ pc[c] = "index"
  /\ slot' = [slot EXCEPT ![c] = finish - 1]
  /\ Goto(c, "get")
  /\ UNCHANGED <<session, made, managers, finish, messages, own, alone, pool, crashed>>

(* getOrderManager(symbolId), and the message with it. *)
GetManager(c) ==
  /\ pc[c] = "get"
  /\ messages' = messages \cup {managers[slot[c]]}
  /\ own' = [own EXCEPT ![c] = Null] /\ slot' = [slot EXCEPT ![c] = Null]
  /\ alone' = alone \ {c}
  /\ Goto(c, "idle")
  /\ UNCHANGED <<session, made, managers, finish, pool, crashed>>
-----------------------------------------------------------------------------
(* sendProductOrder() fails while the session is not open. Any client may   *)
(* use any message: createProductOrderMessagePool() shares them.            *)
SendRefused(c) == Idle(c) /\ ~isOpen /\ messages # {} /\ UNCHANGED vars

Send(c, m) ==
  /\ Idle(c) /\ isOpen
  /\ mine' = [mine EXCEPT ![c] = [manager |-> m, order |-> Null]]
  /\ Goto(c, "take")
  /\ UNCHANGED <<session, registry, orderList, next, home, crashed>>

(* getOrder() under _orderLock: the head of the pool, or a clone of it if   *)
(* it is the last.                                                          *)
Pool(c) == mine[c].manager
HasPool(c) == Pool(c) \in Manager /\ orderList[Pool(c)] # Null
GetOrderCrashes(c) ==
  /\ pc[c] = "take" /\ ~HasPool(c)
  /\ crashed' = TRUE
  /\ UNCHANGED <<session, registry, pool, pc>>

(* Mutant of Take: the order taken leads nowhere. *)
TakeCut(c, first) ==
  /\ next[first] # Null
  /\ orderList' = [orderList EXCEPT ![Pool(c)] = next[first]]
  /\ mine' = [mine EXCEPT ![c] = [manager |-> Pool(c), order |-> first]]
  /\ next' = [next EXCEPT ![first] = Null]
  /\ UNCHANGED home

Take(c, first) ==
  /\ next[first] # Null
  /\ orderList' = [orderList EXCEPT ![Pool(c)] = next[first]]
  /\ mine' = [mine EXCEPT ![c] = [manager |-> Pool(c), order |-> first]]
  /\ UNCHANGED <<next, home>>

Clone(c, first) ==
  /\ next[first] = Null /\ Len(next) < MaxOrders
  /\ next' = Append(next, Null) /\ home' = Append(home, home[first])
  /\ mine' = [mine EXCEPT ![c] = [manager |-> Pool(c), order |-> Len(next) + 1]]
  /\ UNCHANGED orderList

GetOrder(c) ==
  /\ pc[c] = "take" /\ HasPool(c)
  /\ Take(c, orderList[Pool(c)]) \/ Clone(c, orderList[Pool(c)])
  /\ Goto(c, "send")
  /\ UNCHANGED <<session, registry, crashed>>

(* putOrder(), the deleter of every pointer to an order. *)
PutOrder(c) ==
  /\ next' = [next EXCEPT ![mine[c].order] = orderList[Pool(c)]]
  /\ orderList' = [orderList EXCEPT ![Pool(c)] = mine[c].order]
  /\ UNCHANGED <<session, registry, home, crashed>>

(* The order is filled in and sent, and its send fails. The parameter of    *)
(* send() is a copy of the pointer, which gives the order back, ...         *)
SendReturns(c) ==
  /\ pc[c] = "send"
  /\ PutOrder(c)
  /\ Goto(c, "drop")
  /\ UNCHANGED mine

(* ... and so does templateOrder at the end of sendNewProductOrder().       *)
Drop(c) ==
  /\ pc[c] = "drop"
  /\ PutOrder(c)
  /\ mine' = [mine EXCEPT ![c] = NoOrder]
  /\ Goto(c, "idle")

ClientStep(c) ==
  \/ \E n \in 0..MaxPool : Register(c, n)
  \/ Push(c) \/ Index(c) \/ GetManager(c)
  \/ SendRefused(c) \/ \E m \in messages : Send(c, m)
  \/ GetOrder(c) \/ GetOrderCrashes(c) \/ SendReturns(c) \/ Drop(c)
Worker == Tell \/ Notify

Next == ~crashed /\ (Logon \/ Disconnect \/ Worker \/ \E c \in Client : ClientStep(c))
Spec == Init /\ [][Next]_vars

(* The worker runs as long as the program does. *)
FairSpec == Spec /\ WF_vars(~crashed /\ Worker)
-----------------------------------------------------------------------------
TypeOK ==
  /\ connected \in BOOLEAN /\ notices \in Seq(BOOLEAN) /\ isUp \in BOOLEAN /\ isOpen \in BOOLEAN
  /\ made \in 0..MaxManagers
  /\ managers \in [0..MaxManagers - 1 -> Manager \cup {Null}] /\ finish \in 0..MaxManagers
  /\ next \in Seq(Nat \cup {Null}) /\ home \in Seq(Nat) /\ orderList \in Seq(Nat \cup {Null})
  /\ messages \subseteq Manager \cup {Null}
  /\ pc \in [Client -> {"idle", "push", "index", "get", "take", "send", "drop"}]
  /\ own \in [Client -> Manager \cup {Null}] /\ slot \in [Client -> 0..MaxManagers \cup {Null}]
  /\ mine \in [Client -> [manager : Manager \cup {Null}, order : Order \cup {Null}]]
  /\ alone \subseteq Client /\ crashed \in BOOLEAN

(* A registration that no other has overlapped gets the manager it has      *)
(* made, whatever earlier ones that overlapped have done to the deque.      *)
OwnManager == \A c \in alone : pc[c] = "get" => managers[slot[c]] = own[c]

(* The chain of a pool never ends: it leads into a set of orders that lead  *)
(* to each other.                                                           *)
Looped(m) ==
  \E S \in SUBSET Order : orderList[m] \in S /\ \A o \in S : next[o] \in S

(* An order put back twice closes a loop, and nothing that is taken or put  *)
(* back later opens it: from then on the pool hands out orders that are in  *)
(* use.                                                                     *)
LoopIsForGood == [][\A m \in Manager : Looped(m) => Looped(m)']_vars

(* When the connection is gone the session is closed, for the listener and  *)
(* for those who send, unless it is back before.                            *)
DownIsTold == ~connected ~> crashed \/ connected \/ (~isUp /\ ~isOpen)
=============================================================================
