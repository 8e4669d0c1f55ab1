# OrderBookSketch: a verification project

TLA+ models of the market data feed, the order books, the containers and free
lists, the queues, the logger, the sessions and the order pools of this repository, the TLC runs that check them, and the TLAPS proofs about them.
Paths are relative to the repository.

## 1. The system

A market data **publisher** replays a file of order and trade messages over TCP
(`MarketDataPublisher/`). The **order book store** (`OrderBookStore/`)
subscribes, hands each message to an **order book manager**, which finds the
book of the instrument and applies the message, and writes the printed book to
a **logger** thread. The **order management system**
(`OrderManagementSystem/`) keeps a session with the exchange and a pool of
orders. `Common/include` has what they share: containers for threads, a hash
map, the logger, message layouts.

| part | state | operations | interacts with | correct means |
|---|---|---|---|---|
| `OrderBookImproved` | two multimaps price → order, two hashes id → iterator | `processOrder` N/M/X, `processTrade`, `toString` | called by the manager | iterators stay valid; what is printed are the live orders; a throw leaves the rest alone |
| `OrderBookType2` | `_orders` id → first message, two maps priority → level | the same calls, by increments on levels | called by the manager (the one in use) | levels are the sums of the orders |
| `OrderBook`, `Depth` | keepers per id; 10 slots per side and an excess map; change ids | `addNew`, `cancel`, `replace` | the first version; its managers are commented out | no level or order lost in a shift; what changed has a new change id |
| `OrderBookManager` | vector of books, `HashMap` token → index | `subscribe`, `addOrder`, `addTrade`, print | the subscriber's thread | each message reaches the book of its token |
| `Subscriber` | socket, one buffer, handlers | connect, read header, read body | publisher, manager, logger | every message is applied once, in order |
| `Publisher`, `OrderGenerator` | acceptor, sessions, messages sorted by sequence number | accept, replay | subscriber | the file is sent in order, once |
| `HashMap` | power-of-two buckets, `size_` | `emplace`, `erase`, `find`, `reserve`, `rehash`, `clear` | the manager | it is a map; every probe ends |
| `SpinLock` | one word | `lock`, `unlock` | `MsgList`, `MsgQ`, allocators | one thread inside, someone gets in |
| `MsgList` | linked list with a dummy node, head lock, tail lock, plain `_size` | `put`, `get`, `peek` | `Referencer` | FIFO, no freed node followed |
| `Referencer` | a `MsgList`, `_priority`, the dispatch queue | `put`, `execute` | producers, a pool of workers | one worker at a time, in order, nothing stranded |
| `Logger` | list of messages, mutex, condition variable, `_isRunning` | `log`, `run`, `stop` | every thread that logs | each message written once, in order; `stop` returns |
| `MsgQ` | linked list, one spin lock, a count of waiters | `post`, `wait` | no caller yet | FIFO; a waiter does not stop the others |
| `LocklessQ` | linked list, head and tail swung by compare-and-swap | `enqueue`, `dequeue` | `QTest` in `Main.cpp` | nothing lost, each message to one consumer |
| allocators of `allocator.hpp` | chains of free elements, water marks | `getElement`, `releaseElement` | the nodes of `MsgList` and `MsgQ` | an element has one user |
| `TcpClientSession` | socket, list of addresses, `_shutdown`, receiver thread | connect, receive, disconnect | the user's thread | the receiver ends and is joined once |
| `ExchangeSession`, `NSESession` | socket, logon and heartbeat flags, times, buffer | connect, logon, heartbeat, test request, read loop, disconnect | exchange, listeners | logs on again after every loss; one logon per connection |
| `SessionImpl` | `_isSessionOpen`, listener | open, close, register a product, send an order | session (its worker thread), order managers | it is open exactly while the connection is, for everyone |
| order pool, `IOrderPtrType` | a free list of orders per manager, pointers that give back | get, put, copy | session, adaptor | an order has one holder and goes back to its own pool |

What is hard here: state kept twice and updated by increments (every book);
calls that throw half way and a caller that goes on (`Subscriber.hpp:125`);
iterators and indices kept beside the container they point into; two locks on
one structure and an unlocked counter (`msglist.hpp:82`); condition variables
and joins (`Logger.hpp`, `TcpClientSession.cpp`); chains of nodes changed by
atomic exchange without a lock (`allocator.hpp`, `LocklessQ.hpp`); pointers that
give an order back (`IOrderPtrType.hpp`); reconnection and timers (sessions). `PROJECT.json`
lists the hazards line by line, each with the properties that would catch it or
the reason why there is none.

## 2. Modules

| module | models | role |
|---|---|---|
| `LiveOrders` | what a book promises: the live orders of a feed, by place in the book | abstract specification |
| `OrderBookImproved` | `OrderBookImproved.cpp` | refines `LiveOrders` |
| `OrderBookImprovedProofs` | | the proofs for it: invariants, refinement, action properties, printed levels |
| `OrderBookType2` | `OrderBookType2.hpp` | state machine |
| `Depth` | `Depth.hpp`, `DepthLevel.hpp`: operators on one side of a depth | used by `OrderBook` |
| `OrderBook`, `OrderBookProofs` | `OrderBook.hpp`, `OrderStateKeeper.hpp` | state machine over `Depth`; proofs for both |
| `AbstractMap` | what a map promises | abstract specification |
| `HashMap` | `HashMap.h` | refines `AbstractMap` |
| `SpinLock` | `SpinLock.hpp` | state machine |
| `FifoQueue` | what a queue promises | abstract specification |
| `MsgList` | `msglist.hpp`, with the node's life from `allocator.hpp` | refines `FifoQueue` |
| `Referencer`, `ReferencerProofs` | `Referencer.hpp`, over the queue that `MsgList` implements | composes mailbox, dispatch queue, workers; proofs |
| `MsgQ` | `msgq.hpp` over an instance of `SpinLock` | refines `FifoQueue` |
| `QTest`, `LocklessQ` | `LocklessQ.hpp` and its user in `OrderBookStore/src/Main.cpp` | state machine |
| `FreeList` | `allocator.hpp` and the two allocators with a file of their own | state machine |
| `Logger` | `Logger.hpp` | state machine with liveness |
| `TcpSession` | `TcpClientSession.cpp` | state machine with liveness |
| `Containers`, `ContainersProofs` | `MsgList`, `HashMap` and `FreeList`, one in a behaviour | what the run `containers` checks; proofs for the list, which is a queue, the free lists, and the hash map, which is a map |
| `Queues`, `QueuesProofs` | `MsgQ` and `LocklessQ`, one in a behaviour | what the run `queues` checks; proofs for the lock and both queues |
| `Threads` | `Logger` and `TcpSession`, one in a behaviour | what the run `threads` checks |
| `Feed`, `FeedProofs` | `Publisher.hpp`, both `OrderGenerator.hpp`, `Subscriber.hpp`, `OrderBookManager.hpp` and the two `Main.cpp`; asio and TCP as external parts | composes publisher, sockets, subscribers and managers; proofs |
| `Session` | the reader thread of `ExchangeSession.cpp` with `ExchangeConnection.hpp`, `SocketUtils.cpp` and `NSESession.cpp`; TCP, the clock and the exchange as external parts | state machine with liveness |
| `ThreadProofs` | | the proofs for `Logger` and `Session`, the components that are one thread and what it waits for |
| `Adaptor`, `AdaptorProofs` | `SessionImpl.hpp`, `NSESession.cpp` (listeners, registration), `BaseOrderManager.cpp`, `IOrderPtrType.hpp`, `NSEOrder.hpp` | composes clients, session news, registry and order pools; proofs |
| `MC...` | constants, symmetry and views for TLC | |

`Containers`, `Queues` and `Threads` put classes that do not touch each other
side by side: a variable `tried`, which never changes, says whose behaviour this
is, and the others stay as they were made. A property about one class is named
after what that class promises and says nothing about the behaviours of the
others.

## 3. How the models correspond to the code

*A call is an action.* The books, the map and the depth are used by one thread;
one action is one call, with everything it does before it returns or throws.
The books have a variable for the outcome (`threw`, `ret`), because the reader
of the feed catches `runtime_error` and goes on with the book as it is.
`MsgList`, `Referencer`, `SpinLock`, `MsgQ`, `LocklessQ` and `FreeList` are used
by several threads: there an action is one access of shared memory (taking a
lock, linking a node, an exchange, the load and the store of `++_size`), with
`pc` for where each thread is. Memory is sequentially consistent, also where the
code asks for less (`LocklessQ` with `memory_order_relaxed` on failure). In `Logger`
every access but that of `_isRunning` is under one mutex, so a critical section
is an action.

**OrderBookImproved.** `tree[s]` maps the allocated multimap nodes of a side to
the orders they hold, `hash[s]` an id to a node: an iterator is a node, and it
dangles when its node is no longer in the domain. `NewOrder` inserts the node
before the hash may refuse the id, as the code does, so a duplicate throws and
leaves an orphan node. `ProcessTrade` has its two legs in order; a sell leg that
throws comes after a buy leg that has already happened. `Shown` is `toString`.
The comparison of an iterator of `_asksHash` with `_bidsHash.end()`
(`OrderBookImproved.cpp:125`) is modelled as what libstdc++ does with it: both
ends are the null node. The exception text at `:116` says the trade's quantity
is "lesser" than the order's; it is thrown when it is greater, and the model
follows the condition.

**OrderBookType2.** `orders` is `_orders`, `level` the two flat maps by priority
(a buy price is negated). The stored order is never replaced by a modify
(`:117`), the sell leg looks up the buy id (`:157`), so that a sell order that is
executed in full stays resident, and `ret` compares with
`begin()`, the highest priority, as the code does.

**OrderBook and Depth.** A side of the depth is a record of the slots, the
excess map, the slots that got a new change id in the last call (`stamped`) and
whether that call threw. The two sides share only counters, so the module
follows one side, chosen at the start. `SlotOf` and `PlaceFor` stop before the
last slot, as the loop of `findLevel` does, and `CloseOrder` of a price that is
nowhere acts on the last slot, the `levelIt` the loop ends with. The cancel of
a known sell order is undefined behaviour; the run ends there (`crashed`).

**HashMap.** `buckets` and `size`; `Walk` is the probe loop of `find` and
`emplace`, `Erased` the backward shift. The hash function is a variable that
never changes, any function from keys to numbers. `clear` keeps `size_`, as the
code does, and a copy recounts it.

**MsgList and Referencer.** `MsgList` has nodes, links and two locks, and shows
that the list is a FIFO queue whatever happens to its `_size`. `Referencer`
uses that queue and keeps the load and the store of `++_size`/`--_size` apart:
`size` is a plain int under two locks. `atomic` is chosen at the start: whether
in this behaviour the two ever overlap. Without an overlap the protocol is
right; with one it loses messages (run `referencer_race`). The dispatch queue is
an abstract class (`IDispatchQ`), so a post may fail whenever there is one
(`Post`): `refused` is then the message that was not posted. `put()` returns false
and undoes nothing (`Referencer.hpp:187-189`), `execute()` does not look at the
result (`:278`): the message stays linked and counted, nobody owns the mailbox, and
no later `put()` finds `_size` at 0, so it stays that way (`RefusedForGood`).
What the caller of a refused `put()` does with its message is not modelled; were
it put again, it would be in the list twice. The caller of `add()` executes the
message itself; in the model that is a post, and the failing one a caller that
drops it.

**MsgQ.** One list under one `SpinLock`; `Lock` is an instance of the module
`SpinLock` whose threads are the guards on the stack, at most two of a thread:
that of `post` or `get`, and that of the block of `wait`. So `wait`, which holds
its guard when it calls `get` (`msgq.hpp:126-131`), is a guard that waits for
another of the same thread: the model has the code's `get` there, and it never
enters. `Condition::wait` and `signalOne` have empty bodies. The general class
and the one for `shared_ptr` are one model (`shared`).

**LocklessQ and QTest.** A message is the number of its node. `_tmpAtomic` and
`_emptyNode` are one variable each, as in the code, where every producer shares
them. The weak compare-and-swap fails only when the values differ, as it does on
the x86 machines this code is for (`pause`, `xchgl`). Which producers enqueue in a behaviour is chosen at the start
(`active`): the properties are for one, and with two the model shows the losses
and the null tail (`Crashed`).

**FreeList.** `use` is the instantiation of an allocator, chosen from the constant
`Use`: its class, its policies, void or typed elements, the water marks given or
not, and which thread uses whose list. `next` and `owner` are the members of the
elements alive; `head` is null while a thread is at it. `home` is the list whose
`releaseElement` a thread is in: chosen at the call, since the element may be
another's, and even deleted, before the size is counted. `releaseElement` of a
synchronised list always ends with an exception (`Caught`), which is what its
code does. As it stands the code of the synchronised lists does not compile
(`Common.hpp` has `xchg` for `int` only): they are modelled with the exchange of
pointers they call for, which is what a repair would give them.

**TcpSession.** The user's thread and the receivers that `connect` starts.
`sockets` are all sockets ever made, since none is closed. A `connect` on a
session that has its receiver, and a `disconnect` of one that has none, end the
program (`crashed`). `recv` on a non-blocking socket always returns; the receiver
spins.

**Adaptor.** Clients of the upper layer register a product (`Register`, `Push`,
`Index`, `GetManager`: the steps of `addOrderManager`, which takes no lock for
`push_back` and `size`) and send new orders. The deque of managers is `managers`
and its end `finish`; a `push_back` that races stores where it saw the end, and
moves the end on from there or from where it is now (`Push`). The news of the connection is a queue the worker thread empties;
listener and flag change in two steps (`Tell`, `Notify`). `getOrder`, the copy
that goes to `send`, and the two places where an order is given back
(`SendReturns`, `Drop`) work on `orderList` and `next`. Two things the code has
no caller for are inputs: a pool may be filled when a manager is made
(`initOrderPool`), and the session may log on (`Logon`). Both are needed to ask
anything about pools; without them no order is ever sent.

**Logger.** `run()` tests the flag, waits inside the mutex and writes all it
finds. `RunWake` is a spurious wake-up.

**Feed.** Publisher and subscriber each have one io_service thread, so a handler
is an action. The exception is `Session::doRead`, which replays the whole file
inside the accept handler: an action is one message of its loop (`Skip`,
`Write`, `WriteToClosed`) and subscribers go on in between. What asio and the
kernel do is external: a write is tried at once unless an earlier one of the
same socket still waits (`Taken`), the rest is written when the io thread polls
again, which is after the replay (`Flush`), and an error comes up in a handler
then (`FlushFails`, `Fail`). A message travels as two cells, header with type
and body, since these are the two reads of the subscriber. The buffer is
deleted right after the write was started (`Publisher.hpp:143`), so what is
written later is `Junk`, anything at all. A subscriber that meets a cell it does
not expect is out of step: what it reads from there on is `Junk` too, which may
be taken for a message of any book, or for an unknown type. Then no read is
started (`Subscriber.hpp:179`), `io_service::run` returns and the subscriber
ends; `_logger` is destroyed before `_socket`, so it may also hang in
`Logger::stop` (see `StopHangsOnlyIdle`) with its connection open and unread
(`"hung"`). Its handlers use references to parameters of a function that has returned
(`Subscriber.hpp:114`): undefined behaviour, with `Crash` as the outcome beside
the one that works. `books` are the calls the books of a subscriber have seen;
what a call does to a book is in the modules of the books. A capture file is a
sequence of packets that are a message, have broken hex digits (skipped) or an
unsupported type (the generator throws, `OrderGenerator.hpp:175`; in the accept
handler that ends the publisher). An accept may fail at any time (`AcceptFails`),
with or without taking a connection from the backlog: the handler then starts no
other (`Publisher.hpp:174-177`), and the publisher is `"deaf"`: it serves its open
sessions, accepts nobody, and ends when none is left (`RunReturns`). `Subscribed` leaves out token 0, which
`subscribe` finds before it has stored it: 0 is the empty key of `_symbols`
(`OrderBookManager.hpp:114`), and `BookOf(0)` is the first book.

**Session.** One thread, the reader, runs `readThread`; an action is a stretch
of it between two places where it can meet the network: the logon is about to be
written (`pc = "send"`), `select()` waits (`"select"`), `disconnect()` waits its
second (`"closing"`), the loop starts anew (`"top"`). `age` is `time(NULL) -
_lastSentTime` while a logon is out and `waited` the time in the `select()`
under way. Time passes only in `select()`. `processInMessage` has its body
commented out (`NSESession.cpp:118-128`), so no message changes the state and
`_loggedOn` stays false: the half of `checkStatus`, `readThread` and
`sendHeartbeat` that needs it is left out. The exchange (`Arrive`, `PeerCloses`,
`PeerResets`) may do anything at any moment. A write to a connection the other
end has merely closed succeeds, one to a reset connection fails. `connect()`
retries five times and then throws; the loop swallows that and starts it again,
so a failed attempt leaves no trace (`ConnectFails`). `getSocketSendBufSize` and
`getSocketRecvBufSize` are declared `int` and return nothing
(`ExchangeConnection.hpp:171-177`): undefined behaviour, with `Crash` as the
outcome beside the one that works.

## 4. The runs

| run | what is asked | answer |
|---|---|---|
| `improved` | After any sequence of orders, modifies, cancels, trades and refused calls: are the iterators in the hashes alive and each on its order (`IteratorsValid`), does `toString` print the live orders (`ShowsLiveOrders`), does an orphan of a refused duplicate stay as it is (`OrphansStay`), does a call that throws leave more than a refused order or half a trade (`ThrownCallsLeave`), is every call one operation on the live orders (`ImplementsLiveOrders`)? | yes; a throw leaves no more than that |
| `type2` | Do the calls that meet no stale order keep the levels the sums of the orders (`CleanCallsAggregate`)? | yes |
| `type2_phantom` | With all orders cancelled, is no quantity left in the levels? | no: one modify is enough |
| `depth` | Slots without holes and levels exactly where orders are (`LevelsHaveOrders`), every changed slot stamped (`ChangesAreStamped`), no order lost in a shift (`OrdersAreCounted`), the depth the sums of the orders under clean calls (`CleanCallsAggregate`)? | yes |
| `session` | One logon per connection, with the flag that tells (`OneLogonPerConnection`)? Is a logon without effect given up in time, whatever else the exchange sends (`LogonGivenUp`)? Does the session log on again after every loss (`KeepsLoggingOn`)? | yes, or it is for ever in a connection that was reset before the logon was written (`KeepsLoggingOn` has `<>[]Stuck` as the only exception beside `Crash`; `StuckForGood` is proved) |
| `containers` | Is the two-lock list a FIFO queue (`ImplementsFifo`), and is no freed node followed (`NoUseAfterFree`)? Does every probe of the hash map end (`HalfEmpty`), and is it a map (`ImplementsMap`)? Is an element of a free list handed to one user at a time (`OneUser`), and is a list whole once all calls have returned (`QuietListsWhole`)? | yes: with one consumer for the list, for every hash function, for every kind of free list |
| `queues` | Do the sections of `MsgQ` exclude each other (`MutualExclusion`), does someone get the lock until a waiter hangs (`SomeoneEnters`), is it a FIFO queue (`ImplementsFifo`), and what does a waiter do to the others (`HangsForGood`)? Does `LocklessQ` with one producer hand out each message once, in order (`InOrderOnce`), and all of them (`Drained`)? | yes; the first `wait` on an empty `MsgQ` that may wait stops the queue for everyone |
| `referencer` | One owner, who has the oldest message, nothing used after deletion (`OneOwner`, `OwnerHasOldest`, `NoUseAfterDelete`), everything served (`EverythingServed`), while the updates of `_size` do not overlap? What does a failed post do (`RefusedForGood`)? `OneOwner` is stated without the condition on `_size`. | yes; a mailbox is served until a message is left (END), kept again and again, or refused by the dispatch queue, and after that it has no owner for good |
| `referencer_race` | While no post has failed: is nothing left in a mailbox nobody owns? | no: an update of `_size` is lost |
| `feed` | Is what a subscriber logs the file in order, each message once and none left out, up to where it lost step, and does it lose step only after a write had to wait (`InOrder`)? Does each book get the messages of its own token, and the first one those of token 0 besides (`OwnBook`)? Is everyone in the backlog accepted or refused (`EveryoneServed`)? Does everything arrive if no write had to wait and the subscriber did not crash (`Delivered`)? | yes; after a failed accept a write to a subscriber that hangs may keep the publisher from ending, and then the backlog waits for good |
| `threads` | Does the logger lose no wake-up (`WrittenOrStopped`), and does its `stop` return with work and hang only on an idle logger (`StopHangsOnlyIdle`)? Does the `disconnect` of a TCP session end, however silent the peer, with all receivers gone (`DisconnectEnds`)? | yes |
| `adaptor` | Does a registration that no other overlaps get its own manager, whatever overlapped before (`OwnManager`)? Is a loop in a pool there for good (`LoopIsForGood`)? Is everyone told of a lost connection (`DownIsTold`)? | yes |

A property of a passing run has a mutant of a definition in `PROJECT.json`
that breaks it, next to the definition it changes.

`CleanCallsAggregate` (both books) is deliberately about single calls: from a
state in which the levels are the sums, a call of the stated kind keeps them
so. It says exactly which calls the book is right about; the violation runs
show that the rest are not just out of the proof's reach.

### Bounds

* `improved`: two ids, two prices, two quantities, two nodes a side, one level
  printed. Two orders at one price and two prices on a side both occur, and so
  does an order beyond the printed level. A call that needs a node more is not
  made.
* `type2`: two ids, two prices, quantities 1 and 2. `MaxLevel` bounds quantity
  and count of a level. `MaxDeficit = 0`: counts below zero are reachable in
  the code (partial trades each take one off) and are outside the run.
* `depth`: three slots (ten in the code), four prices, two ids. Three is the
  least with a searched slot behind another one and an unsearched last one;
  four prices push a level out of the slots. `MaxOrders = 3`, `MaxQty = 3` and
  `MaxOpen = 1` bound what a call leaves, so new orders have quantity 1 and
  quantity 2 comes from replaces; the fourth level occurs inside a replace.
  `MaxDeficit = 0`: quantities below zero are reachable in the code and outside
  the run. `View` leaves out `ret` and the stamps, on which no call depends.
* `containers`: the hash map with four keys, two values, up to eight buckets, every hash function:
  every collision and wrap-around pattern of half-full maps of this size. The list
  with two producers, one consumer, four nodes, `MaxDrift = 3` for how far the
  raced `_size` may be from the truth; only one consumer, since the mailbox has
  one owner and `peek` takes no lock. Four nodes are the dummy, two linked and one
  that is not yet. The free lists in six instantiations (`MCUse`): the dummy list
  typed and void, an unsynchronised list with marks of its own, a void list whose
  first chain is lost, owner-freed lists of two threads that release each other's
  elements, and one static list for three threads of two containers. Chains are of
  two or three elements and `MaxNew = 1` is what may be made besides: enough for
  a list to be drained to its last element and filled beyond its mark.
* `queues`: `MsgQ` with three threads, two messages and three nodes: one thread
  hangs in `wait`, one holds or wants the lock, one more looks on. `LocklessQ` with
  two consumers and one producer of four messages, or two producers of
  `MaxRaced = 2`: what goes wrong between two producers goes wrong with one
  message each.
* `referencer`: two producers, two workers, three messages, every result a
  functor can return, three start priorities. `MaxKeep` bounds KEEP results in a
  row, `MaxDebt` how far a negative priority is counted down (below zero it is
  never compared again but with its two named values), `MaxSize` the raced
  `_size`.
* `feed`: two subscribers and six pairs of files: out of order with a number
  twice, a broken line with an unknown token and token 0, one security only, an
  unsupported packet on either side, and too many books (`MaxBooks = 2` for
  32767). `Room = 2` cells hold one message: whole writes, partial ones (behind a
  body that is not read yet) and stuck ones all occur, with a fast reader every
  write is whole, and a subscriber that hangs can have a full socket in front of it
  and a write behind that, so that the exception in `EveryoneServed` occurs too
  (without it TLC finds that property violated; with `Room = 3` it would not).
* `session`: a logon timeout of 10 and a `select()` of 3 seconds, the values of
  the code; 10 is no multiple of 3, so a logon is given up between two whole
  waits and also before the end of one. `MaxUnread = 1`: one `recv()` takes all
  there is. `age` needs no bound: `LogonGivenUp` bounds it.
* `threads`: seven messages; the states do not depend on what is in a message. Up
  to two addresses and three sockets: a connection refused and then accepted, and
  a second `connect` of a session all occur.
* `adaptor`: two clients, three managers, pools of up to two orders and three
  orders in all: an overlapping registration followed by one alone, and an order
  put back twice with another one in the pool. `MaxNotices = 2`.

`CHECK_DEADLOCK FALSE` is used where the program stops: a stopped logger, a
crashed book, session or adaptor, a `MsgQ` with a waiter, a container at a bound, a feed that has ended, a mailbox whose functor kept it
(END).

### Fairness

* `SpinLock`: weak fairness of each thread's own steps: a scheduler that runs
  every thread. It is enough for *someone* to enter, and not for everyone, which
  the lock does not promise.
* `Referencer`: weak fairness of a producer that is inside `put`, of the pool
  taking from the dispatch queue (not of each worker) and of each worker inside
  `execute`. New puts are not forced.
* `MsgQ`, `LocklessQ` (in `QueuesSpec`): each thread inside a call goes on, as do
  the consumers of `QTest`, which loop. Nobody has to post or enqueue.
* `Logger` (in `ThreadsSpec`): the logger thread and a `stop()` under way run on. A spurious
  wake-up is possible and never relied on.
* `TcpSession` (in `ThreadsSpec`): receivers run, and a join whose thread has
  ended returns. The peer need not send or close.
* `Adaptor`: the worker thread of the io_service runs. The reader that posts the
  news and the clients do what they like.
* `Feed`: the io thread of the publisher runs, and that of each subscriber.
  Whether and when a subscriber is started is not assumed, and no accept has to
  fail.
* `Session`: the reader thread runs, time passes while `select()` waits, and of
  the attempts to connect one succeeds at some time. Without the last, no
  session can log on; nothing else is assumed of the exchange.
* The other specifications have no fairness: their properties are safety.

## 5. What is proved

All for every value of the constants under the named assumptions of the modules
(quantities are positive integers, prices are integers, the id 0 of an empty
trade leg is no order's id, the printed depth is positive; threads and nodes are disjoint sets without the null
pointer, and bounds are natural numbers).

* `OrderBookImprovedProofs!TypeCorrect`, `NoDanglingIterator`: `Spec => []TypeOK`
  and `Spec => []IteratorsValid`. `IteratorsValid` alone is not inductive: that
  a trade or modify leaves a positive quantity and that each hash entry is of an
  id of the feed are needed to see what the next call erases, so the induction
  is over `BookInv`, the types together with the validity of the hashes. There
  is one lemma per call, and lemmas for the four things calls do to a side:
  insert a node, drop an order, move it, set its quantity. A trade is two legs;
  the leg lemma is used twice.
* `OrderBookImprovedProofs!RefinesLiveOrders`: `Spec => ImplementsLiveOrders`,
  the refinement that the run checks on a small instance. Under `BookInv` each
  call is one operation of `LiveOrders` or leaves the live orders alone.
* `OrderBookImprovedProofs!OrphansAreForGood`, `ThrowsLeaveLittle`: the two
  action properties of the run, from the same invariant. The calls are shown to keep the
  orphans of a side as operations on a multimap and a hash (`SameOrphans`), one
  lemma for each. A call throws as a refused 'N', with a node more and all else as
  it was; for the buy leg of a trade, with nothing done; or for the sell leg, with
  nothing done to the sells and the buy leg done (`BuyLegStep`): at most one buy
  order is smaller or gone, by more than some sell order has.
* `OrderBookImprovedProofs!PrintsLiveOrders`: what is printed, for any depth. The
  levels are sums over sets of nodes, the live orders sums over sets of ids; on a
  side without orphans the hash is a bijection of the two, and sums over two
  such sets are equal (`SumsExist` and the lemmas after it). The sets printed are found level by
  level, as the best of what is left.
* `OrderBookProofs!TypeCorrect`, `LevelsAlwaysHaveOrders`, `ChangesAlwaysStamped`:
  for any number of slots. Each call of `Depth` takes a depth that is `DepthOK`
  to one that `Follows` it: that is `DepthOK` again, and stamped wherever it
  shows something else. A replace is two calls, so `Follows` is shown to be
  transitive; the second may throw. What the excess map must hold for a slot
  refilled from it is part of `DepthOK`: finitely many levels, each under its
  own price and with orders.
* `ThreadProofs!LoggerTypeCorrect`, `FileInOrder`: the order of the file
  (`WrittenInOrder`, which no run repeats) for any number of messages. The induction needs the list as well: what is written
  followed by what is pending is always `1 .. logged`, until the destructor
  drops the list (`LogInv`). `NoWakeUpLost`: the logger thread never waits with a
  message in its list; this is the safety half of `WrittenOrStopped`.
* `ThreadProofs!TypeCorrect`, `OneLogon`, `LogonsEnd`, `StuckStays`: of the session, for any timeout and select
  time. The induction is over `SessionInv`: beside the types, that the flag is
  set exactly at the places of the loop where it can be, and that a logon waited
  for in `select()` was at most `LogonTimeout` old when that wait began.
* `QueuesProofs!SpinLockExcludes`: mutual exclusion for any set of threads. It
  is not inductive alone; it follows with `WordIsOwned` (the word is LOCKED
  exactly while someone is inside), in `LockInv`.
* `QueuesProofs!QueuesExclude`, `QueuesHangForGood`: mutual exclusion of the
  sections of `MsgQ` is taken from the lock, instantiated with the guards: every
  step of the queue is a step of the lock or leaves it alone (`StepOfLock`). That
  a hanging waiter is for good needs where each guard is when its thread is at a
  step (`QueueInv`): the waiter's own guard is inside, so by mutual exclusion no
  other is, and no step that moves head or tail is enabled.
* `ContainersProofs!ContainersFifo`, `QueuesProofs!QueuesFifo`: `MsgList` and `MsgQ`
  implement `FifoQueue`. The abstract queue is read off the nodes by a recursive
  function; the invariants (`FifoInv`, `ChainInv`) say that there is a sequence of
  nodes (`Chain`) that starts at the head, follows `_next` to a null pointer and
  passes every node that has a next. The function then exists and gives the values
  behind the head (`ReadsSome`, `ReadsChain`), whatever is `Beside` the chain. A
  linked node makes it longer at its end (`ChainGrows`), a moved head shorter at
  its start (`ChainShrinks`), and no other step touches it. In `MsgQ` a node waits
  for the lock while others are linked, and two fields are out of
  step inside a section (`Last`, `SecondKnown`), where mutual exclusion keeps the
  others out. The lemmas about chains are in both modules, as the two queues use
  the same names for different variables.
* `QueuesProofs!QueuesInOrder`: with one producer of `LocklessQ`, for any number of
  consumers and messages. `OneProducerInv` says where the producer is and what it
  has read: since nobody else writes the tail and its `_next`, its
  compare-and-swap finds what it expects, and the helping branch is never taken.
  Consumers may have read an old head; they move it only if it is still the head
  and has a `_next`. `QueuesAreBoth` carries what is proved of each queue over
  to the two side by side.
* `ReferencerProofs!OneOwnerAlways`: for any producers, workers and messages, and
  also when an update of `_size` is lost. The induction (`Inv`) needs the locks,
  and that `_size`, and what a `put()` under way has loaded of it, are not 0
  while the mailbox has an owner: so only an unowned mailbox is posted.
  `OwnerHasOldestAlways` and `NoUseAfterDeleteAlways` hold while no update is
  lost; for them `InOrder` relates `_size` to the list and what is under way, says
  that the owner has the first message that waits, and that only that one may be
  deleted already, by the worker that executes it. `RefusedStays`: after a failed
  post there is no owner and nothing on the dispatch queue. The induction has this
  in `OwnerInv`, with `_size` above 0 as for an owner, so that no `put()` posts;
  that the refused message is the oldest one is in `InOrder`.
* `ContainersProofs!PutAndGetNeverDangle`, `ListNeverDangles`: `ListInv` is local to
  a node and its neighbours (nothing points to the head, no two nodes to the same
  one, the only nodes without a next are the tail and a node being linked), so no
  chain has to be followed. `put()` and `get()` are safe for any producers and
  consumers. `peek()` takes no lock, so `ListNeverDangles` has the hypothesis
  `OneConsumer`, as in the run.
* `ContainersProofs!OneUserAlways`: every kind of free list, for finitely many
  threads. `FreeInv` says that an element that is out has one user and is
  nobody's next (`OutAlone`), that nothing leads to an element twice
  (`LedToOnce`), and who waits for a next: the tails and the old tails of threads
  about to link (`LastOnes`). No chain is followed either, but for the list for one
  thread, which is as long as its size says (`Lengths`), and for the elements made
  at the start, where a chain ends after as many steps as there are elements.
  That no element with a user is in a chain then follows: going back from
  it, nothing leads to it.
* `ContainersProofs!QuietListsAlwaysWhole`: once all calls have returned, each list is
  one chain to its tail, one element longer than its size says, for finitely many
  threads and any marks. The invariant speaks of lists amid calls (`Lines`): from
  the head, or from the element a thread took off it, a line of elements leads to
  the tail, where an element is followed by its next or by the one that a thread is
  about to link to it (`Follows`). The line is as long as the size says, with one
  more for each thread between changing the list and counting (`Owing`). Two
  threads are never at the front of one list (`TakenApart`), an element goes back
  to the list it has no other owner than (`Homes`), and each thread that saw
  room adds one element at most (`SizeBound`), so that the high water mark is
  passed by at most the threads but one.
* `ContainersProofs!TableHalfEmpty`: for every hash function and any keys, half of
  the buckets stay empty, so that the probes of `emplace`, `find` and `erase`, which
  stop at an empty bucket only, end. `TableInv`: `size_` is at most half of the
  buckets, and at least the number of entries (after `clear()` it is larger). The
  copy of a rehash and the shift of an erase are recursive functions: that they
  exist and leave no more entries than before is proved by the smallest
  counterexample, and that a probe comes to every bucket by arithmetic modulo
  the number of buckets. That this is a power of two matters for the bound
  alone, which is assumed to be one (`BucketsAssumption`).
* `ContainersProofs!TableIsMap`: the refinement of the abstract map, for every hash
  function. `MapInv` adds to `TableInv` that the table is `Good`: each key is in one
  bucket, and a walk from the key's first bucket meets no empty one before it
  (`Goes`). A walk then ends at the key's entry, or at an empty bucket if there
  is none (`WalkFinds`), and the map is the set of entries (`MapIn`), wherever
  a rehash puts them. The hard step is the erase: while the hole moves, one
  bucket is to be read as the hole, and no bucket looked at so far may have
  its walk across it (`Moving`). That moving an entry keeps this is
  arithmetic on three places of a circle (`Circle`).
* `AdaptorProofs!PoolsApart`, `LoopsStay`: the induction is over `AtHome`: heads,
  chains and the orders in use are all of one manager. Without it a step of one
  client could give an order of one pool to another and cut a loop there. A loop is
  a set of orders that leads into itself; taking an order moves the head within the
  set, and giving one back puts it in front of the set or into it.
* `AdaptorProofs!TypeCorrect`, `RegistersOwnManager`: that the deque of managers
  has room for every client about to add one (`Room`) counts those clients. A
  client that no other has overlapped finds its manager where it put it
  (`OwnInDeque`); what overlapping ones have done before does not
  matter, for the deque may have gaps and lost managers by then.

* `FeedProofs!TypeCorrect`, `BooksSeeTheirOwn`: for any files, any number of
  subscribers, and also when the stream is torn. The induction (`BookInv`) needs,
  beside `OwnBook`, that a subscriber has no books, or one for each token of its file
  but 0: a message then goes to the book of its token, or nowhere. What one more
  message does to the subsequences of a log that `OwnBook` compares is a lemma
  about `Only`.
* `FeedProofs!StreamInOrder`: for any files and sockets of any size. `InOrder` speaks
  of the two ends, the log and the file; a step that reads a cell must know what
  cell it can be. `FeedInv` therefore says, for a reader in step, what the cells
  between the ends are: whole messages first, the next ones it is `Due`, and
  behind them nothing while no write had to wait, a header without its body after
  a partial write, and only `Junk` after one
  that wrote nothing (`Follows`). So the
  reader never takes a torn message for a whole one. What the publisher has left to
  write is what comes after them (`Left`). TLC checked `FeedInv` on the instance of the run
  before it was proved. That `Due` is what `InOrder` demands, the first
  message of each wanted number by rising number, is a lemma on `MktData`
  (`DueFacts`, `WantedIsDue`); the sequence numbers are put in order by
  ranks, without an induction (`RisingFacts`).

The library's induction theorems take an operator as a parameter, which none of
the provers can instantiate. Where the argument is an induction over data (sums,
chains, the greatest element of a finite set) the proofs take the
smallest counterexample instead, from the well-foundedness of `<` on the naturals
(`LeastNat`), over functions whose existence is proved first.

Assumptions that a proof needs beside those of the modules are hypotheses of
the theorem: `OneConsumer`, and finitely many threads for the free lists.
That a model value is not an element of a set it stands beside
(`Null` in `Containers`, `None` and `Junk` in `Feed`) is an assumption TLC
evaluates with the run, and so is `BucketsAssumption`.

Only model-checked:

* all liveness (`WrittenOrStopped`, `EveryoneServed`, `Delivered` and the others under fairness);
* `OrdersAreCounted` and `CleanCallsAggregate` of `OrderBook`, which are sums over
  slots and excess levels that every shift moves;
* `OrderBookType2` and `TcpSession`.

The type invariants of the modules with proofs are part of those; the others were
checked by TLC on the instances of the runs and are not listed there.

## 6. What is not modelled

* `ObjectPool.hpp`: a stack of idle objects for one thread that nothing uses.
* The logged-on half of the session: no input reaches it.
* Modifies and cancels in `SessionImpl`: empty. The pools of cancel and replace
  orders: the same code as that of new orders, filled by functions that return
  nothing and used by nobody. What `setQty` and the other setters of an order do:
  empty functions of `NSEOrderManager`.
* `LocklessStack.hpp`, `locklessQ_New.hpp`, `FlowControl.hpp`: they do not
  compile and nothing includes them.
* Message layouts, marshalling, clocks, configuration tables: data without
  protocol. `FastBuffer`: its constructor always throws.
* The books inside `Feed` (it ends at the calls they see) and the decoding of
  the capture file. The models of the books take messages as the constructors
  of `Order` and `Trade` would build them.
* 32-bit overflow of quantities, prices and change ids: the integers of the
  books are unbounded here; the runs stay far below the widths.
* `third_party/spdlog`: vendored.
