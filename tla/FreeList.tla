------------------------------ MODULE FreeList ------------------------------
(***************************************************************************)
(* The free lists of message elements in allocator.hpp and the allocators  *)
(* that hand them out. A list keeps _highWaterMark + 1 elements chained    *)
(* from _freeHead to _freeTail. The synchronised list takes elements off   *)
(* its head, which is 0 while a thread is at it, and puts them behind the  *)
(* tail, both by atomic exchange; an action is one access of shared        *)
(* memory. (Common.hpp has xchg() for int only, so these two calls do not  *)
(* compile as they stand; the exchange here is of the pointers they name.) *)
(* The calls of the other lists are atomic: they are for one thread each.  *)
(* Elements carry messages: any thread may release what any thread got.    *)
(* alloc() and release() of a value are getElement() and releaseElement()  *)
(* of the element it belongs to, or throw.                                 *)
(***************************************************************************)
EXTENDS Integers, FiniteSets

CONSTANTS
  Thread,        \* threads that get and release elements
  Container,     \* queues that call getFreeList(), each once
  Use,           \* the instantiations looked at
  Default,       \* the policy's own marks, HIGHWATERMARK and LOWWATERMARK
  MaxNew,        \* bound: the elements alive that no list was made with
  Null           \* the pointer 0

(* allocator: the class; synchronized, ownerFreed: its policies; void: do   *)
(* elements carry a void type? marks: the arguments of getFreeList();       *)
(* user: the threads, each with the container it uses.                      *)
Uses ==
  [allocator : {"dummy", "contention", "memory"},
   synchronized : BOOLEAN, ownerFreed : BOOLEAN, void : BOOLEAN,
   marks : [high : Nat, low : Nat], user : [Thread -> Container \cup {Null}]]

VARIABLES
  use,           \* the instantiation, fixed
  list,          \* thread -> the list it uses, named by the container it was made for
  head, tail,    \* list -> _freeHead, _freeTail
  size,          \* list -> _freeListSize
  next, owner,   \* element alive -> its _next, its _owner
  held,          \* the elements users have
  pc,            \* thread -> the step of the call it is in
  mine, other,   \* thread -> its local pointers: msg and tmp, velement and oldTail
  home           \* thread -> the list whose releaseElement() it is in, its this

lists == <<list, head, tail, size>>
elements == <<next, owner, held>>
thread == <<pc, mine, other, home>>
vars == <<use, lists, elements, thread>>

(* The class getFreeList() makes. *)
Kind ==
  CASE use.allocator = "dummy" -> "dummy"
    [] use.allocator = "memory" -> "sync"
    [] use.allocator = "contention" /\ ~use.synchronized -> "nonsync"
    [] OTHER -> IF use.ownerFreed THEN "owner" ELSE "sync"
Sync == Kind \in {"sync", "owner"}

Alive == DOMAIN next
Fresh == {n \in {<<Null, k>> : k \in 1..MaxNew} \ Alive :
           \A k \in 1..MaxNew : <<Null, k>> \in Alive \/ n[2] <= k}
Goto(t, step) == pc' = [pc EXCEPT ![t] = step]

(* getFreeList(hwm, lwm): the arguments count if both are positive, except  *)
(* for the dummy list, which has no use for marks.                          *)
marks == IF use.marks.high > 0 /\ use.marks.low > 0 THEN use.marks ELSE Default

(* The constructors of FreeList<void> and of its base both call init(): the *)
(* first chain is lost.                                                     *)
Inits == IF Sync /\ use.void THEN 2 ELSE 1
FirstOf(i) == <<i, (Inits - 1) * (marks.high + 1)>>
LastOf(i) == <<i, Inits * (marks.high + 1) - 1>>
User == {t \in Thread : use.user[t] # Null}
Lists == {list[t] : t \in User}

(* ReducedContentionAllocator makes a list for each call, the static list   *)
(* of ReducedMemUsageAllocator is made by the first and shared by all; the  *)
(* dummy list has no elements.                                              *)
Init ==
  /\ use \in Use
  /\ IF use.allocator = "memory"
     THEN \E first \in {use.user[t] : t \in User} : list = [t \in User |-> first]
     ELSE list = [t \in User |-> use.user[t]]
  /\ head = [i \in Lists |-> IF Kind = "dummy" THEN Null ELSE FirstOf(i)]
  /\ tail = [i \in Lists |-> IF Kind = "dummy" THEN Null ELSE LastOf(i)]
  /\ size = [i \in Lists |-> marks.high]
  /\ LET chained == IF Kind = "dummy" THEN {}
                    ELSE UNION {{<<i, k>> : k \in 0..LastOf(i)[2]} : i \in Lists}
     IN  /\ next = [e \in chained |->
                      IF (e[2] + 1) % (marks.high + 1) = 0 THEN Null ELSE <<e[1], e[2] + 1>>]
         /\ owner = [e \in chained |-> Null]
  /\ held = {}
  /\ pc = [t \in Thread |-> "idle"]
  /\ mine = [t \in Thread |-> Null] /\ other = [t \in Thread |-> Null]
  /\ home = [t \in Thread |-> Null]
-----------------------------------------------------------------------------
(* allocNewElement(), and what the caller of an owned list's base does.     *)
OwnerFor(t) == IF Kind = "owner" THEN list[t] ELSE Null
GiveNew(t) ==
  \E n \in Fresh :
    /\ next' = [e \in Alive \cup {n} |-> IF e = n THEN Null ELSE next[e]]
    /\ owner' = [e \in Alive \cup {n} |-> IF e = n THEN OwnerFor(t) ELSE owner[e]]
    /\ held' = held \cup {n}
Delete(e) ==
  /\ next' = [x \in Alive \ {e} |-> next[x]]
  /\ owner' = [x \in Alive \ {e} |-> owner[x]]

(* The dummy list makes an element for each call; the default constructor   *)
(* of an element of a void type throws.                                     *)
GetDummy(t) ==
  /\ Kind = "dummy" /\ pc[t] = "idle"
  /\ IF use.void THEN UNCHANGED elements ELSE GiveNew(t)
  /\ UNCHANGED <<use, lists, thread>>

(* NonSyncFreeListBase::getElement() *)
GetNonSync(t) ==
  /\ Kind = "nonsync" /\ pc[t] = "idle"
  /\ LET i == list[t]
         msg == head[i]
     IN  IF size[i] > marks.low
         THEN /\ head' = [head EXCEPT ![i] = next[msg]]
              /\ next' = [next EXCEPT ![msg] = Null]
              /\ size' = [size EXCEPT ![i] = @ - 1]
              /\ held' = held \cup {msg}
              /\ UNCHANGED owner
         ELSE GiveNew(t) /\ UNCHANGED <<head, size>>
  /\ UNCHANGED <<use, list, tail, thread>>

(* FreeListBase::getElement(): is there more than the low water mark?       *)
Get(t) ==
  /\ Sync /\ pc[t] = "idle"
  /\ Goto(t, "size")
  /\ UNCHANGED <<use, lists, elements, mine, other, home>>
GetSize(t) ==
  /\ pc[t] = "size"
  /\ Goto(t, IF size[list[t]] > marks.low THEN "take" ELSE "new")
  /\ UNCHANGED <<use, lists, elements, mine, other, home>>

(* Mutant of GetTake: the head is read and not exchanged. *)
GetTakeShared(t) ==
  /\ pc[t] = "take"
  /\ head[list[t]] # Null
  /\ mine' = [mine EXCEPT ![t] = head[list[t]]]
  /\ Goto(t, "next")
  /\ UNCHANGED <<use, lists, elements, other, home>>

(* The head is exchanged for 0, once it was seen not to be 0. A thread that *)
(* loses the exchange gets 0 and starts anew, which changes nothing else.   *)
GetTake(t) ==
  /\ pc[t] = "take"
  /\ head[list[t]] # Null
  /\ mine' = [mine EXCEPT ![t] = head[list[t]]]
  /\ head' = [head EXCEPT ![list[t]] = Null]
  /\ Goto(t, "next")
  /\ UNCHANGED <<use, list, tail, size, elements, other, home>>
GetLost(t) ==
  /\ pc[t] = "take"
  /\ head[list[t]] = Null
  /\ Goto(t, "size")
  /\ UNCHANGED <<use, lists, elements, mine, other, home>>

(* The last element stays: it is put back, and the thread spins, or makes   *)
(* a new one.                                                               *)
GetNext(t) ==
  /\ pc[t] = "next"
  /\ other' = [other EXCEPT ![t] = next[mine[t]]]
  /\ Goto(t, IF next[mine[t]] = Null THEN "last" ELSE "count")
  /\ UNCHANGED <<use, lists, elements, mine, home>>
GetLast(t) ==
  /\ pc[t] = "last"
  /\ Goto(t, IF size[list[t]] > marks.high THEN "again" ELSE "back")
  /\ UNCHANGED <<use, lists, elements, mine, other, home>>
GetBack(t) ==
  /\ pc[t] \in {"again", "back"}
  /\ head' = [head EXCEPT ![list[t]] = mine[t]]
  /\ mine' = [mine EXCEPT ![t] = Null]
  /\ Goto(t, IF pc[t] = "again" THEN "size" ELSE "new")
  /\ UNCHANGED <<use, list, tail, size, elements, other, home>>

(* --_freeListSize *)
GetCount(t) ==
  /\ pc[t] = "count"
  /\ size' = [size EXCEPT ![list[t]] = @ - 1]
  /\ Goto(t, "open")
  /\ UNCHANGED <<use, list, head, tail, elements, mine, other, home>>

(* The element is cut off and the head opened for others. *)
GetOpen(t) ==
  /\ pc[t] = "open"
  /\ next' = [next EXCEPT ![mine[t]] = Null]
  /\ head' = [head EXCEPT ![list[t]] = other[t]]
  /\ held' = held \cup {mine[t]}
  /\ owner' = IF Kind = "owner" THEN [owner EXCEPT ![mine[t]] = list[t]] ELSE owner
  /\ mine' = [mine EXCEPT ![t] = Null] /\ other' = [other EXCEPT ![t] = Null]
  /\ Goto(t, "idle")
  /\ UNCHANGED <<use, list, tail, size, home>>

GetNew(t) ==
  /\ pc[t] = "new"
  /\ GiveNew(t)
  /\ Goto(t, "idle")
  /\ UNCHANGED <<use, lists, mine, other, home>>
-----------------------------------------------------------------------------
ReleaseDummy(t, e) ==
  /\ Kind = "dummy" /\ pc[t] = "idle"
  /\ Delete(e)
  /\ held' = held \ {e}
  /\ UNCHANGED <<use, lists, thread>>

(* NonSyncFreeListBase::releaseElement() *)
ReleaseNonSync(t, e) ==
  /\ Kind = "nonsync" /\ pc[t] = "idle"
  /\ LET i == list[t]
     IN  IF size[i] < marks.high
         THEN /\ next' = [next EXCEPT ![tail[i]] = e, ![e] = Null]
              /\ tail' = [tail EXCEPT ![i] = e]
              /\ size' = [size EXCEPT ![i] = @ + 1]
              /\ UNCHANGED owner
         ELSE Delete(e) /\ UNCHANGED <<tail, size>>
  /\ held' = held \ {e}
  /\ UNCHANGED <<use, list, head, thread>>

(* An owned element goes back to its list, whoever releases it.             *)
HomeOf(t, e) == IF Kind = "owner" THEN owner[e] ELSE list[t]

(* FreeListBase::releaseElement(): too many elements, or one more?          *)
Release(t, e) ==
  /\ Sync /\ pc[t] = "idle"
  /\ held' = held \ {e}
  /\ mine' = [mine EXCEPT ![t] = e]
  /\ home' = [home EXCEPT ![t] = HomeOf(t, e)]
  /\ Goto(t, "fits")
  /\ UNCHANGED <<use, lists, next, owner, other>>
ReleaseFits(t) ==
  /\ pc[t] = "fits"
  /\ IF size[home[t]] < marks.high
     THEN Goto(t, "swap") /\ UNCHANGED <<next, owner, mine, home>>
     ELSE /\ Goto(t, "thrown") /\ Delete(mine[t])
          /\ mine' = [mine EXCEPT ![t] = Null] /\ home' = [home EXCEPT ![t] = Null]
  /\ UNCHANGED <<use, lists, held, other>>

(* The element becomes the tail, then the old tail's _next. *)
ReleaseSwap(t) ==
  /\ pc[t] = "swap"
  /\ next' = [next EXCEPT ![mine[t]] = Null]
  /\ other' = [other EXCEPT ![t] = tail[home[t]]]
  /\ tail' = [tail EXCEPT ![home[t]] = mine[t]]
  /\ Goto(t, "link")
  /\ UNCHANGED <<use, list, head, size, owner, held, mine, home>>

(* Mutant of ReleaseLink: whatever is the tail now gets the _next. *)
ReleaseLinkTail(t) ==
  /\ pc[t] = "link"
  /\ next' = [next EXCEPT ![tail[home[t]]] = mine[t]]
  /\ Goto(t, "counted")
  /\ UNCHANGED <<use, lists, owner, held, mine, other, home>>

ReleaseLink(t) ==
  /\ pc[t] = "link"
  /\ next' = [next EXCEPT ![other[t]] = mine[t]]
  /\ Goto(t, "counted")
  /\ UNCHANGED <<use, lists, owner, held, mine, other, home>>

(* ++_freeListSize *)
ReleaseCount(t) ==
  /\ pc[t] = "counted"
  /\ size' = [size EXCEPT ![home[t]] = @ + 1]
  /\ mine' = [mine EXCEPT ![t] = Null] /\ other' = [other EXCEPT ![t] = Null]
  /\ home' = [home EXCEPT ![t] = Null]
  /\ Goto(t, "thrown")
  /\ UNCHANGED <<use, list, head, tail, elements>>

(* Every releaseElement() of a synchronised list ends with an exception,    *)
(* "Empty element to release.", which its caller catches.                   *)
Caught(t) ==
  /\ pc[t] = "thrown"
  /\ Goto(t, "idle")
  /\ UNCHANGED <<use, lists, elements, mine, other, home>>

Step(t) ==
  \/ GetSize(t) \/ GetTake(t) \/ GetLost(t) \/ GetNext(t) \/ GetLast(t) \/ GetBack(t)
  \/ GetCount(t) \/ GetOpen(t) \/ GetNew(t)
  \/ ReleaseFits(t) \/ ReleaseSwap(t) \/ ReleaseLink(t) \/ ReleaseCount(t) \/ Caught(t)
Call(t) ==
  \/ GetDummy(t) \/ GetNonSync(t) \/ Get(t)
  \/ \E e \in held : ReleaseDummy(t, e) \/ ReleaseNonSync(t, e) \/ Release(t, e)
Next == \E t \in User : Call(t) \/ Step(t)
Spec == Init /\ [][Next]_vars
-----------------------------------------------------------------------------
(* The elements of a chain that starts at e. *)
From(e) ==
  LET first[k \in 0..Cardinality(Alive)] ==
        IF k = 0 THEN {e} \ {Null}
        ELSE LET s == first[k - 1] IN s \cup ({next[x] : x \in s \cap Alive} \ {Null})
  IN  first[Cardinality(Alive)]
Chain(i) == From(head[i])

(* The threads that have an element to themselves: off the head, or to be   *)
(* released.                                                                *)
Owns(t) == mine[t] # Null /\ pc[t] \in {"next", "last", "again", "back", "count", "open", "fits", "swap"}

(* An element is handed out to one user: while it is held, or in the hands  *)
(* of a thread, it is in no chain and in no other hands. Threads read and   *)
(* write the chain without a lock.                                          *)
OneUser ==
  /\ \A i \in Lists : Chain(i) \cap (held \cup {mine[t] : t \in {u \in Thread : Owns(u)}}) = {}
  /\ \A t, u \in Thread : Owns(t) /\ Owns(u) /\ t # u => mine[t] # mine[u]
  /\ \A t \in Thread : Owns(t) => mine[t] \notin held /\ mine[t] \in Alive

(* Whatever overlapped, once all calls have returned a list is whole: one   *)
(* chain that ends at its tail, one element longer than its size says, and  *)
(* the size at most the threads but one beyond the high water mark. An      *)
(* owned list has no element that was handed out by another.                *)
QuietListsWhole ==
  (\A t \in Thread : pc[t] = "idle") /\ Kind # "dummy" =>
    \A i \in Lists :
      /\ Chain(i) \subseteq Alive /\ tail[i] \in Chain(i) /\ next[tail[i]] = Null
      /\ Cardinality(Chain(i)) = size[i] + 1
      /\ size[i] \in 0..(marks.high + Cardinality(User) - 1)
      /\ \A e \in Chain(i) : owner[e] \in {Null, i}
=============================================================================
