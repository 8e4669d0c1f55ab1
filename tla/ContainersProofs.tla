--------------------------- MODULE ContainersProofs ---------------------------
(***************************************************************************)
(* For any threads, messages and nodes: no thread of MsgList follows a     *)
(* pointer to a freed node, and the list is a queue; and no kind of free   *)
(* list hands an element to two users, or has one in a chain that a user   *)
(* has, or is less than whole once all calls have returned.  For any keys  *)
(* and hash function: the hash table stays half empty, so its probes end,  *)
(* and each of its calls does what a map promises.                         *)
(***************************************************************************)
EXTENDS Containers, FiniteSetTheorems, SequenceTheorems, WellFoundedInduction, TLAPS

(* The inductive invariant of the two-lock list, local to a node and its    *)
(* neighbours: nothing points to the head, no two nodes to the same one,    *)
(* and the only nodes without a next are the tail and a node being linked,  *)
(* so the node get() frees is never the one put() writes to.                *)
NoNextIs(n) == \A x \in Alive : next[x] # n
OnlyEnds(N) == \A x \in Alive : next[x] = Null => x \in N

ListShape ==
  /\ Alive \subseteq Node
  /\ next \in [Alive -> Alive \cup {Null}]
  /\ head \in Alive /\ NoNextIs(head)
  /\ \A x, y \in Alive : next[x] = next[y] /\ next[x] # Null => x = y

Locks ==
  /\ pc \in [Thread -> {"idle", "link", "tail", "load", "store", "advance", "peek"}]
  /\ node \in [Thread -> Node \cup {Null}]
  /\ \A p \in Producer : pc[p] \in {"link", "tail", "load", "store"} <=> lockT = p
  /\ \A p \in Producer : pc[p] \notin {"advance", "peek"}
  /\ \A c \in Consumer : pc[c] \in {"load", "store", "advance"} <=> lockH = c
  /\ \A c \in Consumer : pc[c] \notin {"link", "tail"}

Ends ==
  /\ \A p \in Producer : pc[p] = "link" =>
       /\ tail \in Alive /\ next[tail] = Null
       /\ node[p] \in Alive /\ next[node[p]] = Null /\ NoNextIs(node[p])
       /\ node[p] # tail /\ node[p] # head
       /\ OnlyEnds({tail, node[p]})
  /\ \A p \in Producer : pc[p] = "tail" =>
       node[p] \in Alive /\ next[node[p]] = Null /\ OnlyEnds({node[p]})
  /\ (\A p \in Producer : pc[p] \notin {"link", "tail"}) =>
       tail \in Alive /\ next[tail] = Null /\ OnlyEnds({tail})
  /\ \A c \in Consumer : pc[c] \in {"load", "store", "advance"} => next[head] # Null

ListInv == ListShape /\ Locks /\ Ends

LEMMA InitListInv == Init => ListInv
<1> SUFFICES ASSUME Init PROVE ListInv
  OBVIOUS
<1>1. PICK n \in Lowest(Node) : next = [x \in {n} |-> Null] /\ head = n /\ tail = n
  BY DEF Init
<1>2. n \in Node /\ n # Null
  BY NullAssumption DEF Lowest
<1>3. Alive = {n} /\ next[n] = Null
  BY <1>1 DEF Alive
<1>4. ListShape
  BY <1>1, <1>2, <1>3 DEF ListShape, NoNextIs, Alive
<1>5. Locks
  BY NullAssumption DEF Init, Locks, Thread
<1>6. Ends
  BY <1>1, <1>3 DEF Init, Ends, OnlyEnds, Thread
<1>7. QED
  BY <1>4, <1>5, <1>6 DEF ListInv

(* put(): the new node is nobody's next and has none.                       *)
LEMMA PutLockInv ==
  ASSUME ListInv, NEW p \in Producer, NEW m \in Msg, PutLock(p, m)
  PROVE  ListInv'
<1>1. PICK n \in Node \ Alive :
        /\ next' = [x \in Alive \cup {n} |-> IF x = n THEN Null ELSE next[x]]
        /\ node' = [node EXCEPT ![p] = n]
  BY DEF PutLock, Fresh, Lowest
<1>2. /\ pc[p] = "idle" /\ lockT = Null /\ lockT' = p
      /\ pc' = [pc EXCEPT ![p] = "link"]
      /\ UNCHANGED <<head, tail, lockH>>
  BY DEF PutLock, Goto
<1>3. /\ Alive' = Alive \cup {n} /\ next'[n] = Null /\ n # Null /\ Null \notin Alive
      /\ \A x \in Alive : next'[x] = next[x] /\ x # n /\ next[x] # n
  BY <1>1, NullAssumption DEF Alive, ListInv, ListShape
<1>4. ListShape'
  BY <1>1, <1>2, <1>3 DEF ListInv, ListShape, NoNextIs
<1>5. \A q \in Producer : pc[q] \notin {"link", "tail", "load", "store"}
  BY <1>2, NullAssumption DEF ListInv, Locks
<1>6. Locks'
  <2>1. p \in Thread /\ p # Null /\ p \notin Consumer
    BY NullAssumption, DisjointAssumption DEF Thread
  <2>2. pc' \in [Thread -> {"idle", "link", "tail", "load", "store", "advance", "peek"}]
        /\ node' \in [Thread -> Node \cup {Null}]
    BY <1>1, <1>2 DEF ListInv, Locks
  <2>3. pc'[p] = "link" /\ \A t \in Thread : t # p => pc'[t] = pc[t]
    BY <1>2, <2>1 DEF ListInv, Locks
  <2>4. QED
    BY <1>2, <1>5, <2>1, <2>2, <2>3 DEF ListInv, Locks, Thread
<1>7. Ends'
  <2>1. pc'[p] = "link" /\ \A t \in Thread : t # p => pc'[t] = pc[t]
    BY <1>2 DEF ListInv, Locks, Thread
  <2>2. \A q \in Producer : pc'[q] \in {"link", "tail"} => q = p
    BY <1>5, <2>1 DEF Thread
  <2>3. node'[p] = n
    BY <1>1 DEF ListInv, Locks, Thread
  <2>4. tail \in Alive /\ next[tail] = Null /\ OnlyEnds({tail})
    BY <1>5 DEF ListInv, Ends
  <2>5. /\ tail' \in Alive' /\ next'[tail'] = Null /\ n \in Alive' /\ n # tail' /\ n # head'
        /\ NoNextIs(n)' /\ OnlyEnds({tail, n})'
    BY <1>2, <1>3, <2>4 DEF NoNextIs, OnlyEnds, ListInv, ListShape
  <2>6. \A c \in Consumer : pc'[c] \in {"load", "store", "advance"} => next'[head'] # Null
    <3>1. \A c \in Consumer : pc'[c] = pc[c]
      BY <2>1, DisjointAssumption DEF Thread
    <3>2. head' = head /\ next'[head] = next[head]
      BY <1>2, <1>3 DEF ListInv, ListShape
    <3>3. QED
      BY <3>1, <3>2 DEF ListInv, Ends
  <2>7. QED
    BY <1>2, <1>3, <2>1, <2>2, <2>3, <2>5, <2>6 DEF Ends
<1>8. QED
  BY <1>4, <1>6, <1>7 DEF ListInv

LEMMA PutLinkInv == ASSUME ListInv, NEW p \in Producer, PutLink(p) PROVE ListInv'
<1>0. PICK n : n = node[p]
  OBVIOUS
<1>1. /\ pc[p] = "link" /\ next' = [next EXCEPT ![tail] = n]
      /\ pc' = [pc EXCEPT ![p] = "tail"]
      /\ UNCHANGED <<head, tail, lockH, lockT, node>>
  BY <1>0 DEF PutLink, Goto
<1>2. /\ tail \in Alive /\ next[tail] = Null
      /\ n \in Alive /\ next[n] = Null /\ NoNextIs(n)
      /\ n # tail /\ n # head /\ OnlyEnds({tail, n})
  BY <1>0, <1>1 DEF ListInv, Ends
<1>3. /\ Alive' = Alive /\ next'[tail] = n /\ n # Null
      /\ \A x \in Alive : x # tail => next'[x] = next[x]
  BY <1>1, <1>2, NullAssumption DEF Alive, ListInv, ListShape
<1>4. ListShape'
  <2>1. next' \in [Alive' -> Alive' \cup {Null}]
    BY <1>1, <1>2, <1>3 DEF ListInv, ListShape
  <2>2. NoNextIs(head)'
    BY <1>1, <1>2, <1>3 DEF ListInv, ListShape, NoNextIs
  <2>3. \A x, y \in Alive : next'[x] = next'[y] /\ next'[x] # Null => x = y
    BY <1>2, <1>3 DEF ListInv, ListShape, NoNextIs
  <2>4. QED
    BY <1>1, <1>3, <2>1, <2>2, <2>3 DEF ListInv, ListShape
<1>5. pc'[p] = "tail" /\ \A t \in Thread : t # p => pc'[t] = pc[t]
  BY <1>1 DEF ListInv, Locks, Thread
<1>6. Locks'
  <2>1. p \in Thread /\ p \notin Consumer
    BY DisjointAssumption DEF Thread
  <2>2. pc' \in [Thread -> {"idle", "link", "tail", "load", "store", "advance", "peek"}]
    BY <1>1 DEF ListInv, Locks
  <2>3. QED
    BY <1>1, <1>5, <2>1, <2>2 DEF ListInv, Locks, Thread
<1>7. Ends'
  <2>1. \A q \in Producer : pc'[q] \in {"link", "tail"} => q = p
    BY <1>1, <1>5 DEF ListInv, Locks, Thread
  <2>2. next'[n] = Null /\ OnlyEnds({n})'
    BY <1>2, <1>3 DEF OnlyEnds
  <2>3. \A c \in Consumer : pc'[c] \in {"load", "store", "advance"} => next'[head'] # Null
    <3>1. \A c \in Consumer : pc'[c] = pc[c]
      BY <1>5, DisjointAssumption DEF Thread
    <3>2. head' = head /\ (next'[head] = next[head] \/ next'[head] # Null)
      BY <1>1, <1>3 DEF ListInv, ListShape
    <3>3. QED
      BY <3>1, <3>2 DEF ListInv, Ends
  <2>4. QED
    BY <1>0, <1>1, <1>2, <1>3, <1>5, <2>1, <2>2, <2>3 DEF Ends
<1>8. QED
  BY <1>4, <1>6, <1>7 DEF ListInv

LEMMA PutTailInv == ASSUME ListInv, NEW p \in Producer, PutTail(p) PROVE ListInv'
<1>1. /\ pc[p] = "tail" /\ tail' = node[p] /\ node' = [node EXCEPT ![p] = Null]
      /\ pc' = [pc EXCEPT ![p] = "load"]
      /\ UNCHANGED <<next, head, lockH, lockT>>
  BY DEF PutTail, Goto
<1>2. node[p] \in Alive /\ next[node[p]] = Null /\ OnlyEnds({node[p]})
  BY <1>1 DEF ListInv, Ends
<1>3. pc'[p] = "load" /\ \A t \in Thread : t # p => pc'[t] = pc[t]
  BY <1>1 DEF ListInv, Locks, Thread
<1>4. Alive' = Alive /\ next' = next /\ head' = head
  BY <1>1 DEF Alive
<1>5. ListShape'
  BY <1>4 DEF ListInv, ListShape, NoNextIs
<1>6. Locks'
  <2>1. p \in Thread /\ p \notin Consumer
    BY DisjointAssumption DEF Thread
  <2>2. pc' \in [Thread -> {"idle", "link", "tail", "load", "store", "advance", "peek"}]
        /\ node' \in [Thread -> Node \cup {Null}]
    BY <1>1 DEF ListInv, Locks
  <2>3. QED
    BY <1>1, <1>3, <2>1, <2>2 DEF ListInv, Locks, Thread
<1>7. Ends'
  <2>1. \A q \in Producer : pc'[q] \notin {"link", "tail"}
    BY <1>1, <1>3 DEF ListInv, Locks, Thread
  <2>2. \A c \in Consumer : pc'[c] = pc[c]
    BY <1>3, DisjointAssumption DEF Thread
  <2>3. QED
    BY <1>1, <1>2, <1>4, <2>1, <2>2 DEF ListInv, Ends, OnlyEnds
<1>8. QED
  BY <1>5, <1>6, <1>7 DEF ListInv

(* The steps that leave the list as it is.                                  *)
SameList == UNCHANGED <<next, head, tail>>

LEMMA SameListShape ==
  ASSUME ListInv, SameList PROVE ListShape' /\ Alive' = Alive
  BY DEF SameList, ListInv, ListShape, NoNextIs, Alive

LEMMA PutCountInv ==
  ASSUME ListInv, NEW p \in Producer, PutLoad(p) \/ PutStore(p) PROVE ListInv'
<1>1. /\ SameList /\ UNCHANGED <<lockH, node>>
      /\ \/ pc[p] = "load" /\ pc' = [pc EXCEPT ![p] = "store"] /\ lockT' = lockT
         \/ pc[p] = "store" /\ pc' = [pc EXCEPT ![p] = "idle"] /\ lockT' = Null
  BY DEF PutLoad, PutStore, Load, Goto, list, SameList
<1>2. p \in Thread /\ p \notin Consumer /\ p # Null
  BY DisjointAssumption, NullAssumption DEF Thread
<1>3. /\ pc'[p] \in {"store", "idle"} /\ pc'[p] = "store" <=> pc[p] = "load"
      /\ \A t \in Thread : t # p => pc'[t] = pc[t]
  BY <1>1, <1>2 DEF ListInv, Locks
<1>4. lockT = p
  BY <1>1 DEF ListInv, Locks
<1>5. Locks'
  <2>1. pc' \in [Thread -> {"idle", "link", "tail", "load", "store", "advance", "peek"}]
    BY <1>1 DEF ListInv, Locks
  <2>2. \A q \in Producer : q # Null
    BY NullAssumption
  <2>3. QED
    BY <1>1, <1>2, <1>3, <1>4, <2>1, <2>2 DEF ListInv, Locks, Thread
<1>6. Ends'
  <2>1. \A q \in Producer : pc'[q] \notin {"link", "tail"} /\ pc[q] \notin {"link", "tail"}
    BY <1>1, <1>3, <1>4 DEF ListInv, Locks, Thread
  <2>2. \A c \in Consumer : pc'[c] = pc[c]
    BY <1>2, <1>3 DEF Thread
  <2>3. QED
    BY <1>1, <2>1, <2>2, SameListShape DEF ListInv, Ends, OnlyEnds, SameList
<1>7. QED
  BY <1>1, <1>5, <1>6, SameListShape DEF ListInv

LEMMA GetCountInv ==
  ASSUME ListInv, NEW c \in Consumer, GetLock(c) \/ GetLoad(c) \/ GetStore(c)
  PROVE  ListInv'
<1>1. /\ SameList /\ UNCHANGED <<lockT, node>>
      /\ \/ /\ pc[c] = "idle" /\ lockH = Null /\ next[head] # Null
            /\ pc' = [pc EXCEPT ![c] = "load"] /\ lockH' = c
         \/ pc[c] = "load" /\ pc' = [pc EXCEPT ![c] = "store"] /\ lockH' = lockH
         \/ pc[c] = "store" /\ pc' = [pc EXCEPT ![c] = "advance"] /\ lockH' = lockH
  BY DEF GetLock, GetLoad, GetStore, Load, Goto, list, SameList
<1>2. c \in Thread /\ c \notin Producer /\ c # Null
  BY DisjointAssumption, NullAssumption DEF Thread
<1>3. /\ pc'[c] \in {"load", "store", "advance"} /\ \A t \in Thread : t # c => pc'[t] = pc[t]
      /\ \A p \in Producer : pc'[p] = pc[p]
  BY <1>1, <1>2 DEF ListInv, Locks, Thread
<1>4. lockH' = c /\ (lockH = c \/ lockH = Null) /\ next[head] # Null
  BY <1>1 DEF ListInv, Locks, Ends
<1>5. Locks'
  <2>1. pc' \in [Thread -> {"idle", "link", "tail", "load", "store", "advance", "peek"}]
    BY <1>1 DEF ListInv, Locks
  <2>2. \A d \in Consumer : d # Null
    BY NullAssumption
  <2>3. QED
    BY <1>1, <1>2, <1>3, <1>4, <2>1, <2>2 DEF ListInv, Locks, Thread
<1>6. Ends'
  BY <1>1, <1>3, <1>4, SameListShape DEF ListInv, Ends, OnlyEnds, NoNextIs, SameList
<1>7. QED
  BY <1>1, <1>5, <1>6, SameListShape DEF ListInv

(* get(): the dummy is freed, and neither the tail nor a node about to be   *)
(* linked, for it has a next.                                               *)
LEMMA GetAdvanceInv == ASSUME ListInv, NEW c \in Consumer, GetAdvance(c) PROVE ListInv'
<1>1. /\ pc[c] = "advance" /\ head' = next[head]
      /\ next' = [x \in Alive \ {head} |-> next[x]]
      /\ lockH' = Null /\ pc' = [pc EXCEPT ![c] = "idle"]
      /\ UNCHANGED <<tail, lockT, node>>
  BY DEF GetAdvance, Goto
<1>2. head \in Alive /\ next[head] \in Alive /\ next[head] # head
  BY <1>1 DEF ListInv, ListShape, Ends, NoNextIs
<1>3. /\ Alive' = Alive \ {head}
      /\ \A x \in Alive : x # head => next'[x] = next[x] /\ next[x] # head
      /\ \A x \in Alive : next[x] = Null => x # head
  BY <1>1 DEF Alive, ListInv, ListShape, NoNextIs, Ends
<1>4. ListShape'
  <2>1. next' \in [Alive' -> Alive' \cup {Null}]
    BY <1>1, <1>3 DEF ListInv, ListShape
  <2>2. NoNextIs(head)'
    BY <1>1, <1>2, <1>3, NullAssumption DEF ListInv, ListShape, NoNextIs
  <2>3. QED
    BY <1>1, <1>2, <1>3, <2>1, <2>2 DEF ListInv, ListShape
<1>5. c \in Thread /\ c \notin Producer /\ c # Null
  BY DisjointAssumption, NullAssumption DEF Thread
<1>6. pc'[c] = "idle" /\ \A t \in Thread : t # c => pc'[t] = pc[t]
  BY <1>1, <1>5 DEF ListInv, Locks
<1>7. \A d \in Consumer : pc'[d] \notin {"load", "store", "advance"}
  BY <1>1, <1>6 DEF ListInv, Locks, Thread
<1>8. Locks'
  <2>1. pc' \in [Thread -> {"idle", "link", "tail", "load", "store", "advance", "peek"}]
    BY <1>1 DEF ListInv, Locks
  <2>2. \A d \in Consumer : d # Null
    BY NullAssumption
  <2>3. QED
    BY <1>1, <1>5, <1>6, <1>7, <2>1, <2>2 DEF ListInv, Locks, Thread
<1>9. Ends'
  <2>1. \A p \in Producer : pc'[p] = pc[p] /\ node'[p] = node[p]
    BY <1>1, <1>5, <1>6 DEF Thread
  <2>2. \A N : OnlyEnds(N) => OnlyEnds(N)'
    BY <1>3 DEF OnlyEnds
  <2>3. \A x \in Alive : next[x] = Null => x \in Alive' /\ next'[x] = Null
    BY <1>3
  <2>4. \A x : NoNextIs(x) => NoNextIs(x)' /\ x # head'
    BY <1>1, <1>2, <1>3 DEF NoNextIs
  <2>5. \A p \in Producer : pc'[p] = "link" =>
          /\ tail' \in Alive' /\ next'[tail'] = Null
          /\ node'[p] \in Alive' /\ next'[node'[p]] = Null /\ NoNextIs(node[p])'
          /\ node'[p] # tail' /\ node'[p] # head'
          /\ OnlyEnds({tail, node[p]})'
    BY <1>1, <2>1, <2>2, <2>3, <2>4 DEF ListInv, Ends
  <2>6. QED
    BY <1>1, <1>7, <2>1, <2>2, <2>3, <2>5 DEF ListInv, Ends
<1>10. QED
  BY <1>4, <1>8, <1>9 DEF ListInv

LEMMA PeekInv ==
  ASSUME ListInv, NEW c \in Consumer, PeekHead(c) \/ PeekNext(c) PROVE ListInv'
<1>1. /\ SameList /\ UNCHANGED <<lockH, lockT>>
      /\ pc[c] \in {"idle", "peek"}
      /\ \E s \in {"idle", "peek"} : pc' = [pc EXCEPT ![c] = s]
      /\ \E n \in Node \cup {Null} : node' = [node EXCEPT ![c] = n]
  BY DEF PeekHead, PeekNext, Goto, list, SameList, ListInv, ListShape
<1>2. c \in Thread /\ c \notin Producer
  BY DisjointAssumption DEF Thread
<1>3. /\ pc'[c] \in {"idle", "peek"} /\ \A t \in Thread : t # c => pc'[t] = pc[t]
      /\ \A t \in Thread : t # c => node'[t] = node[t]
  BY <1>1, <1>2 DEF ListInv, Locks
<1>4. Locks'
  <2>1. /\ pc' \in [Thread -> {"idle", "link", "tail", "load", "store", "advance", "peek"}]
        /\ node' \in [Thread -> Node \cup {Null}]
    BY <1>1 DEF ListInv, Locks
  <2>2. QED
    BY <1>1, <1>2, <1>3, <2>1 DEF ListInv, Locks, Thread
<1>5. Ends'
  <2>1. \A p \in Producer : pc'[p] = pc[p] /\ node'[p] = node[p]
    BY <1>2, <1>3 DEF Thread
  <2>2. \A d \in Consumer : pc'[d] \in {"load", "store", "advance"} =>
          pc[d] \in {"load", "store", "advance"}
    BY <1>3 DEF Thread
  <2>3. QED
    BY <1>1, <2>1, <2>2, SameListShape DEF ListInv, Ends, OnlyEnds, NoNextIs, SameList
<1>6. QED
  BY <1>1, <1>4, <1>5, SameListShape DEF ListInv

LEMMA StepListInv == ListInv /\ [Next]_vars => ListInv'
<1> SUFFICES ASSUME ListInv, [Next]_vars PROVE ListInv'
  OBVIOUS
<1>1. ASSUME NEW p \in Producer, Put(p) PROVE ListInv'
  BY <1>1, PutLockInv, PutLinkInv, PutTailInv, PutCountInv DEF Put
<1>2. CASE UNCHANGED vars
  <2>1. SameList /\ UNCHANGED <<pc, node, lockH, lockT>>
    BY <1>2 DEF vars, list, SameList
  <2>2. QED
    BY <2>1, SameListShape DEF ListInv, Locks, Ends, OnlyEnds, NoNextIs, SameList
<1>3. ASSUME NEW c \in Consumer, Get(c) \/ Peek(c) PROVE ListInv'
  BY <1>2, <1>3, GetCountInv, GetAdvanceInv, PeekInv DEF Get, Peek, GetEmpty
<1>4. QED
  BY <1>1, <1>2, <1>3 DEF Next

LEMMA ListInvAlways == Spec => []ListInv
  BY InitListInv, StepListInv, PTL DEF Spec

(* What peek() has read is still the head: only with one consumer.          *)
OneConsumer == \A c, d \in Consumer : c = d
PeekAtHead == \A c \in Consumer : pc[c] = "peek" => node[c] = head

LEMMA StepPeekAtHead ==
  ASSUME OneConsumer, ListInv, PeekAtHead, [Next]_vars PROVE PeekAtHead'
<1>1. ASSUME NEW p \in Producer, Put(p) PROVE PeekAtHead'
  <2>1. p \notin Consumer
    BY DisjointAssumption
  <2>2. /\ head' = head
        /\ \A c \in Consumer : pc'[c] = pc[c] /\ node'[c] = node[c]
    BY <1>1, <2>1 DEF Put, PutLock, PutLink, PutTail, PutLoad, PutStore, Load, Goto, list,
         ListInv, Locks, Thread
  <2>3. QED
    BY <2>2 DEF PeekAtHead
<1>2. ASSUME NEW c \in Consumer, Get(c) \/ Peek(c), ~ UNCHANGED vars PROVE PeekAtHead'
  <2>1. c \in Thread /\ \A d \in Consumer : d = c
    BY DEF OneConsumer, Thread
  <2>2. pc'[c] = "peek" => node'[c] = head'
    BY <1>2, <2>1 DEF Get, Peek, GetEmpty, GetLock, GetLoad, GetStore, GetAdvance, PeekHead,
         PeekNext, Load, Goto, list, ListInv, Locks
  <2>3. QED
    BY <2>1, <2>2 DEF PeekAtHead
<1>3. CASE UNCHANGED vars
  BY <1>3 DEF vars, list, PeekAtHead
<1>4. QED
  BY <1>1, <1>2, <1>3 DEF Next

(* put() and get() never follow a pointer to a freed node, and no node      *)
(* alive leads to one, whatever the number of producers and consumers.      *)
PutAndGetSafe ==
  /\ head \in Alive
  /\ \A p \in Producer : pc[p] = "link" => tail \in Alive
  /\ \A n \in Alive : next[n] \in Alive \cup {Null}

THEOREM PutAndGetNeverDangle == Spec => []PutAndGetSafe
<1>1. ListInv => PutAndGetSafe
  BY DEF ListInv, ListShape, Ends, PutAndGetSafe
<1>2. QED
  BY <1>1, ListInvAlways, PTL

(* With one consumer, neither does peek(), which takes no lock: the same    *)
(* for the list next to the other containers.                               *)
THEOREM ListNeverDangles ==
  ASSUME OneConsumer PROVE ContainersSpec => []NoUseAfterFree
<1>1. Spec => [](ListInv /\ PeekAtHead)
  <2>1. Init => PeekAtHead
    BY DEF Init, PeekAtHead, Thread
  <2>2. ListInv /\ PeekAtHead /\ [Next]_vars => PeekAtHead'
    BY StepPeekAtHead
  <2>3. QED
    BY <2>1, <2>2, ListInvAlways, PTL DEF Spec
<1>2. ListInv /\ PeekAtHead => NoUseAfterFree
  BY DEF ListInv, ListShape, Ends, PeekAtHead, NoUseAfterFree
<1>3. ContainersInit => Init
  BY DEF ContainersInit
<1>4. [ContainersNext]_<<tried, vars, table, freeLists>> => [Next]_vars
  BY DEF ContainersNext
<1>5. ContainersSpec => Spec
  BY <1>3, <1>4, PTL DEF ContainersSpec, Spec
<1>6. QED
  BY <1>1, <1>2, <1>5, PTL
-----------------------------------------------------------------------------
(* The inductive invariant of the free lists, again local to an element and *)
(* its neighbours. An element is out while a user or a thread has it.       *)
Out == held \cup {mine[t] : t \in {u \in Taker : Free!Owns(u)}}
NobodysNext(e) == \A x \in Free!Alive : fNext[x] # e
Releasing == {t \in Taker : fPc[t] \in {"fits", "swap"}}
Linking == {t \in Taker : fPc[t] = "link"}

Element == (Container \cup {Null}) \X Nat

FreeTypes ==
  /\ use \in Use
  /\ free \in [Free!User -> Container]
  /\ Free!Alive \subseteq Element
  /\ fNext \in [Free!Alive -> Free!Alive \cup {Null}]
  /\ owner \in [Free!Alive -> Free!Lists \cup {Null}]
  /\ fHead \in [Free!Lists -> Free!Alive \cup {Null}]
  /\ fTail \in [Free!Lists -> Element \cup {Null}]
  /\ DOMAIN fSize = Free!Lists
  /\ held \subseteq Free!Alive
  /\ fPc \in [Taker -> {"idle", "size", "take", "new", "next", "last", "again", "back", "count",
                        "open", "fits", "swap", "link", "counted", "thrown"}]
  /\ mine \in [Taker -> Element \cup {Null}]
  /\ other \in [Taker -> Element \cup {Null}]

(* The threads of the lists that are for one thread each are never amid a   *)
(* call, and the dummy list has no elements.                                *)
ByKind ==
  /\ Free!Sync \/ \A t \in Taker : fPc[t] = "idle"
  /\ Free!Kind = "dummy" => \A i \in Free!Lists : fHead[i] = Null
  /\ Free!Kind = "owner" =>
       \A x \in held \cup {mine[t] : t \in Releasing} : owner[x] \in Free!Lists

(* An element that is out has one owner and is nobody's next.               *)
Keeps == {"next", "last", "again", "back", "count", "open", "fits", "swap"}
OutAlone ==
  /\ \A t \in Taker : fPc[t] \in Keeps => mine[t] # Null
  /\ \A t \in Taker : Free!Owns(t) => mine[t] \in Free!Alive /\ mine[t] \notin held
  /\ \A t, u \in Taker : Free!Owns(t) /\ Free!Owns(u) /\ mine[t] = mine[u] => t = u
  /\ \A x \in Out : NobodysNext(x)
  /\ \A i \in Free!Lists : fHead[i] \notin Out

(* Nothing leads to an element twice.                                       *)
LedToOnce ==
  /\ \A x, y \in Free!Alive : fNext[x] = fNext[y] /\ fNext[x] # Null => x = y
  /\ \A i \in Free!Lists : fHead[i] # Null => NobodysNext(fHead[i])
  /\ \A i, j \in Free!Lists : fHead[i] = fHead[j] /\ fHead[i] # Null => i = j
  /\ \A t \in Linking : /\ mine[t] \in Free!Alive \ Out /\ NobodysNext(mine[t])
                        /\ \A i \in Free!Lists : fHead[i] # mine[t]
  /\ \A t, u \in Linking : mine[t] = mine[u] => t = u
  /\ \A t \in Taker : fPc[t] \in {"count", "open"} =>
       other[t] = fNext[mine[t]] /\ other[t] # Null

(* The elements that wait to be given a next, the tails and the old tails   *)
(* of threads about to link: each waits for one, and no user has it.        *)
Waits(e) == /\ e \in Free!Alive /\ fNext[e] = Null
            /\ e \notin held /\ \A t \in Releasing : mine[t] # e
LastOnes ==
  /\ Free!Kind # "dummy" => \A i \in Free!Lists : Waits(fTail[i])
  /\ \A i, j \in Free!Lists : Free!Kind # "dummy" /\ fTail[i] = fTail[j] => i = j
  /\ \A t \in Linking : /\ Waits(other[t]) /\ other[t] # mine[t]
                        /\ \A i \in Free!Lists : fTail[i] # other[t]
  /\ \A t, u \in Linking : other[t] = other[u] => t = u

(* The list for one thread is as long as its size says.                     *)
Long(i) == \E c \in [0..fSize[i] -> Free!Alive] :
             /\ c[0] = fHead[i] /\ c[fSize[i]] = fTail[i]
             /\ \A k \in 0..fSize[i] - 1 : fNext[c[k]] = c[k + 1]
Lengths == Free!Kind = "nonsync" => \A i \in Free!Lists : fSize[i] \in Nat /\ Long(i)

(* The list an element is released to is one of the lists, and the element  *)
(* has no other owner; threads without a container make no calls.           *)
Homes ==
  /\ home \in [Taker -> Container \cup {Null}]
  /\ \A t \in Taker \ Free!User : fPc[t] = "idle"
  /\ \A t \in Taker : fPc[t] \in {"fits", "swap", "link", "counted"} => home[t] \in Free!Lists
  /\ \A t \in Taker : fPc[t] \in {"fits", "swap", "link"} =>
       mine[t] \in Free!Alive /\ owner[mine[t]] \in {Null, home[t]}
  /\ Free!Kind # "owner" => \A x \in Free!Alive : owner[x] = Null

FreeInv == FreeTypes /\ ByKind /\ OutAlone /\ LedToOnce /\ LastOnes /\ Lengths

(* What a step is that does nothing to another thread than t. *)
OthersSame(t) ==
  \A u \in Taker \ {t} : fPc'[u] = fPc[u] /\ mine'[u] = mine[u] /\ other'[u] = other[u]
SameUse == UNCHANGED <<use, free>>

(* The instantiation fixes the class, the marks and the lists.              *)
LEMMA UseFixed ==
  ASSUME SameUse
  PROVE  /\ Free!Kind' = Free!Kind /\ Free!Sync' = Free!Sync /\ Free!marks' = Free!marks
         /\ Free!User' = Free!User /\ Free!Lists' = Free!Lists
  BY DEF SameUse, Free!Kind, Free!Sync, Free!marks, Free!User, Free!Lists

(* The pointer 0 is no element.                                             *)
LEMMA NullNoElement == FreeInv => Null \notin Element /\ Null \notin Free!Alive /\ Null \notin Out
<1> SUFFICES ASSUME FreeInv PROVE Null \notin Element /\ Null \notin Free!Alive /\ Null \notin Out
  OBVIOUS
<1>1. Null \notin Element
  BY UseAssumption DEF Element
<1>2. Null \notin Free!Alive
  BY <1>1 DEF FreeInv, FreeTypes
<1>3. QED
  BY <1>1, <1>2 DEF Out, Free!Owns, FreeInv, FreeTypes

(* What a step does not do to the other threads.                            *)
LEMMA OthersOwn ==
  ASSUME NEW t \in Taker, OthersSame(t)
  PROVE  \A u \in Taker \ {t} : /\ Free!Owns(u)' <=> Free!Owns(u)
                                /\ u \in Linking' <=> u \in Linking
                                /\ u \in Releasing' <=> u \in Releasing
  BY DEF OthersSame, Free!Owns, Linking, Releasing

(* What it is to be out, before and after a step.                           *)
LEMMA OutIs ==
  /\ \A x : x \in Out <=> x \in held \/ \E t \in Taker : Free!Owns(t) /\ mine[t] = x
  /\ \A x : x \in Out' <=> x \in held' \/ \E t \in Taker : Free!Owns(t)' /\ mine'[t] = x
  BY DEF Out

(* Steps of a thread that leave the lists and what is out as they are.      *)
QuietChange(t) ==
  /\ SameUse /\ OthersSame(t)
  /\ UNCHANGED <<fHead, fTail, fNext, owner, held>>
  /\ Free!Sync /\ DOMAIN fSize' = DOMAIN fSize
  /\ fPc' \in [Taker -> {"idle", "size", "take", "new", "next", "last", "again", "back", "count",
                         "open", "fits", "swap", "link", "counted", "thrown"}]
  /\ mine' \in [Taker -> Element \cup {Null}]
  /\ other' \in [Taker -> Element \cup {Null}]
  /\ fPc'[t] # "link" /\ fPc[t] # "link"
  /\ fPc'[t] \in {"fits", "swap"} <=> fPc[t] \in {"fits", "swap"}
  /\ fPc'[t] \in Keeps <=> fPc[t] \in Keeps
  /\ fPc[t] \in Keeps => mine'[t] = mine[t]
  /\ fPc'[t] \in {"count", "open"} => other'[t] = fNext[mine'[t]] /\ other'[t] # Null

(* A thread at one of these steps has an element.                           *)
LEMMA OwnsKeeps ==
  ASSUME FreeInv
  PROVE  \A t \in Taker : Free!Owns(t) <=> fPc[t] \in Keeps
  BY DEF FreeInv, OutAlone, Free!Owns, Keeps

LEMMA QuietInv ==
  ASSUME FreeInv, NEW t \in Taker, QuietChange(t) PROVE FreeInv'
<1> USE DEF QuietChange
<1>1. \A u \in Taker : Free!Owns(u)' <=> Free!Owns(u)
  <2>1. Free!Owns(t)' <=> Free!Owns(t)
    BY OwnsKeeps DEF Free!Owns, Keeps
  <2>2. QED
    BY <2>1, OthersOwn
<1>2. \A u \in Taker : fPc'[u] \in Keeps => fPc[u] \in Keeps /\ mine'[u] = mine[u]
  BY DEF OthersSame
<1>3. Out' = Out
  <2>1. \A u \in Taker : Free!Owns(u) => mine'[u] = mine[u]
    BY <1>2, OwnsKeeps DEF OthersSame
  <2>2. \A x : x \in Out' <=> x \in Out
    BY <1>1, <2>1, OutIs DEF QuietChange
  <2>3. QED
    BY <2>2
<1>4. Linking' = Linking /\ t \notin Linking /\ Releasing' = Releasing
  BY OthersOwn DEF Linking, Releasing
<1>5. /\ \A u \in Linking \cup Releasing : mine'[u] = mine[u]
      /\ \A u \in Linking : other'[u] = other[u]
  BY <1>4 DEF OthersSame, Linking, Releasing, Keeps
<1>6. Free!Alive' = Free!Alive
  BY DEF Free!Alive
<1>7. \A e : NobodysNext(e)' <=> NobodysNext(e)
  BY <1>6 DEF NobodysNext
<1>8. \A e : Waits(e)' <=> Waits(e)
  BY <1>4, <1>5, <1>6 DEF Waits, Releasing
<1>9. FreeTypes'
  BY <1>6, UseFixed DEF FreeInv, FreeTypes, SameUse
<1>10. ByKind'
  BY <1>4, <1>5, UseFixed DEF FreeInv, ByKind, Free!Sync
<1>11. OutAlone'
  <2>1. \A u \in Taker : Free!Owns(u) => mine'[u] = mine[u]
    BY <1>2, OwnsKeeps DEF OthersSame
  <2>2. QED
    BY <1>1, <1>2, <1>3, <1>6, <1>7, <2>1, UseFixed DEF FreeInv, OutAlone
<1>12. LedToOnce'
  <2>1. \A u \in Taker : fPc'[u] \in {"count", "open"} =>
          other'[u] = fNext'[mine'[u]] /\ other'[u] # Null
    BY DEF OthersSame, FreeInv, LedToOnce, Free!Owns
  <2>2. QED
    BY <1>3, <1>4, <1>5, <1>6, <1>7, <2>1, UseFixed DEF FreeInv, LedToOnce
<1>13. LastOnes'
  BY <1>4, <1>5, <1>8, UseFixed DEF FreeInv, LastOnes
<1>14. Lengths'
  BY UseFixed DEF Lengths, Free!Sync
<1>15. QED
  BY <1>9, <1>10, <1>11, <1>12, <1>13, <1>14 DEF FreeInv

(* Only the synchronised lists have threads amid a call.                    *)
LEMMA BusyIsSync ==
  ASSUME FreeInv, NEW t \in Taker, fPc[t] # "idle" PROVE Free!Sync
  BY DEF FreeInv, ByKind

LEMMA QuietSteps ==
  ASSUME FreeInv, NEW t \in Free!User,
         \/ Free!ReleaseFits(t) /\ fSize[home[t]] < Free!marks.high
         \/ Free!Get(t) \/ Free!GetSize(t) \/ Free!GetLost(t) \/ Free!GetNext(t)
         \/ Free!GetLast(t) \/ Free!GetCount(t) \/ Free!ReleaseCount(t) \/ Free!Caught(t)
  PROVE  FreeInv'
<1> USE DEF Free!Goto, Free!lists, Free!elements
<1>1. t \in Taker /\ FreeTypes
  BY DEF Free!User, FreeInv
<1>2. /\ SameUse /\ UNCHANGED <<fHead, fTail, fNext, owner, held>>
      /\ DOMAIN fSize' = DOMAIN fSize
      /\ \/ /\ fPc[t] \in {"idle", "size", "take", "thrown"} /\ UNCHANGED <<mine, other>>
            /\ \E s \in {"size", "take", "new", "idle"} : fPc' = [fPc EXCEPT ![t] = s]
         \/ /\ fPc[t] = "next" /\ mine' = mine
            /\ other' = [other EXCEPT ![t] = fNext[mine[t]]]
            /\ fPc' = [fPc EXCEPT ![t] = IF fNext[mine[t]] = Null THEN "last" ELSE "count"]
         \/ /\ fPc[t] = "last" /\ UNCHANGED <<mine, other>>
            /\ \E s \in {"again", "back"} : fPc' = [fPc EXCEPT ![t] = s]
         \/ /\ fPc[t] = "count" /\ UNCHANGED <<mine, other>>
            /\ fPc' = [fPc EXCEPT ![t] = "open"]
         \/ /\ fPc[t] = "fits" /\ UNCHANGED <<mine, other>>
            /\ fPc' = [fPc EXCEPT ![t] = "swap"]
         \/ /\ fPc[t] = "counted" /\ fPc' = [fPc EXCEPT ![t] = "thrown"]
            /\ mine' = [mine EXCEPT ![t] = Null] /\ other' = [other EXCEPT ![t] = Null]
  BY DEF Free!Get, Free!GetSize, Free!GetLost, Free!GetNext, Free!GetLast, Free!GetCount,
         Free!ReleaseCount, Free!Caught, Free!ReleaseFits, SameUse
<1>3. Free!Sync
  BY BusyIsSync, <1>1 DEF Free!Get, Free!GetSize, Free!GetLost, Free!GetNext, Free!GetLast,
     Free!GetCount, Free!ReleaseCount, Free!Caught, Free!ReleaseFits
<1>4. fPc[t] = "next" => fNext[mine[t]] \in Element \cup {Null}
  <2>1. fPc[t] = "next" => mine[t] \in Free!Alive
    BY <1>1 DEF FreeInv, OutAlone, Free!Owns, Keeps
  <2>2. QED
    BY <2>1 DEF FreeInv, FreeTypes
<1>5. QuietChange(t)
  <2>1. OthersSame(t)
    BY <1>1, <1>2 DEF OthersSame, FreeTypes
  <2>2. /\ fPc' \in [Taker -> {"idle", "size", "take", "new", "next", "last", "again", "back",
                           "count", "open", "fits", "swap", "link", "counted", "thrown"}]
        /\ mine' \in [Taker -> Element \cup {Null}]
        /\ other' \in [Taker -> Element \cup {Null}]
    BY <1>1, <1>2, <1>4 DEF FreeTypes
  <2>3. /\ fPc'[t] # "link" /\ fPc[t] # "link"
        /\ fPc'[t] \in {"fits", "swap"} <=> fPc[t] \in {"fits", "swap"}
        /\ fPc'[t] \in Keeps <=> fPc[t] \in Keeps
        /\ fPc[t] \in Keeps => mine'[t] = mine[t]
    BY <1>1, <1>2 DEF FreeTypes, Keeps
  <2>4. fPc'[t] \in {"count", "open"} => other'[t] = fNext[mine'[t]] /\ other'[t] # Null
    BY <1>1, <1>2 DEF FreeInv, FreeTypes, LedToOnce
  <2>5. QED
    BY <1>2, <1>3, <2>1, <2>2, <2>3, <2>4 DEF QuietChange
<1>6. QED
  BY <1>1, <1>5, QuietInv

(* An element comes off the head, which is left empty.                      *)
LEMMA GetTakeInv == ASSUME FreeInv, NEW t \in Free!User, Free!GetTake(t) PROVE FreeInv'
<1>1. t \in Taker /\ FreeTypes
  BY DEF Free!User, FreeInv
<1>2. PICK i \in Free!Lists, m \in Free!Alive : i = free[t] /\ m = fHead[i] /\ m # Null
  <2>1. free[t] \in Free!Lists /\ fHead[free[t]] # Null
    BY DEF Free!GetTake, Free!Lists
  <2>2. fHead[free[t]] \in Free!Alive
    BY <1>1, <2>1 DEF FreeTypes
  <2>3. QED
    BY <2>1, <2>2
<1>3. /\ fPc[t] = "take" /\ mine' = [mine EXCEPT ![t] = m]
      /\ fHead' = [fHead EXCEPT ![i] = Null] /\ fPc' = [fPc EXCEPT ![t] = "next"]
      /\ SameUse /\ UNCHANGED <<fTail, fSize, fNext, owner, held, other>>
  BY <1>2 DEF Free!GetTake, Free!Goto, Free!elements, SameUse
<1>4. fPc'[t] = "next" /\ mine'[t] = m /\ OthersSame(t)
  BY <1>1, <1>3 DEF FreeTypes, OthersSame
<1>5. Free!Owns(t)' /\ ~Free!Owns(t) /\ t \notin Linking' \cup Releasing' \cup Linking \cup Releasing
  BY <1>2, <1>3, <1>4 DEF Free!Owns, Linking, Releasing
<1>6. Linking' = Linking /\ Releasing' = Releasing
      /\ \A u \in Linking \cup Releasing : mine'[u] = mine[u] /\ other'[u] = other[u]
  BY <1>1, <1>4, <1>5, OthersOwn DEF Linking, Releasing, OthersSame
<1>7. /\ \A u \in Taker \ {t} : (Free!Owns(u)' <=> Free!Owns(u)) /\ mine'[u] = mine[u]
      /\ Out' = Out \cup {m}
  <2>1. \A u \in Taker \ {t} : (Free!Owns(u)' <=> Free!Owns(u)) /\ mine'[u] = mine[u]
    BY <1>1, <1>4, OthersOwn DEF OthersSame
  <2>2. QED
    BY <1>1, <1>3, <1>4, <1>5, <2>1, OutIs
<1>8. /\ Free!Alive' = Free!Alive
      /\ \A e : (NobodysNext(e)' <=> NobodysNext(e)) /\ (Waits(e)' <=> Waits(e))
  BY <1>3, <1>6 DEF Free!Alive, NobodysNext, Waits, Releasing
<1>9. m \notin Out /\ NobodysNext(m) /\ m \in Element
      /\ \A j \in Free!Lists : j # i => fHead[j] # m
  BY <1>2 DEF FreeInv, FreeTypes, OutAlone, LedToOnce
<1>10. \A j \in Free!Lists : fHead'[j] = IF j = i THEN Null ELSE fHead[j]
  BY <1>1, <1>3 DEF FreeTypes
<1>11. FreeTypes'
  <2>1. fPc' \in [Taker -> {"idle", "size", "take", "new", "next", "last", "again", "back",
                           "count", "open", "fits", "swap", "link", "counted", "thrown"}]
        /\ mine' \in [Taker -> Element \cup {Null}]
        /\ fHead' \in [Free!Lists -> Free!Alive \cup {Null}]
    BY <1>1, <1>3, <1>9 DEF FreeTypes
  <2>2. QED
    BY <1>1, <1>3, <1>8, <2>1, UseFixed DEF FreeTypes, SameUse
<1>12. ByKind'
  <2>1. Free!Sync
    BY <1>1, <1>3, BusyIsSync
  <2>2. Free!Kind # "dummy"
    BY <2>1 DEF Free!Sync
  <2>3. QED
    BY <1>3, <1>6, <2>1, <2>2, UseFixed DEF FreeInv, ByKind
<1>13. OutAlone'
  <2>1. /\ \A u \in Taker : fPc'[u] \in Keeps => mine'[u] # Null
        /\ \A u \in Taker : Free!Owns(u)' => mine'[u] \in Free!Alive' /\ mine'[u] \notin held'
    BY <1>2, <1>3, <1>4, <1>7, <1>8, <1>9 DEF FreeInv, OutAlone, OthersSame, Out
  <2>2. \A u \in Taker : Free!Owns(u) => mine[u] # m
    BY <1>9 DEF Out
  <2>3. \A u, v \in Taker : Free!Owns(u)' /\ Free!Owns(v)' /\ mine'[u] = mine'[v] => u = v
    BY <1>4, <1>7, <2>2 DEF FreeInv, OutAlone
  <2>4. \A x \in Out' : NobodysNext(x)'
    BY <1>7, <1>8, <1>9 DEF FreeInv, OutAlone
  <2>5. \A j \in Free!Lists : fHead'[j] \notin Out'
    BY <1>2, <1>7, <1>9, <1>10, NullNoElement DEF FreeInv, OutAlone
  <2>6. QED
    BY <1>3, <2>1, <2>3, <2>4, <2>5, UseFixed DEF OutAlone
<1>14. LedToOnce'
  <2>1. \A u \in Taker : fPc'[u] \in {"count", "open"} =>
          other'[u] = fNext'[mine'[u]] /\ other'[u] # Null
    BY <1>3, <1>4 DEF OthersSame, FreeInv, LedToOnce
  <2>2. /\ \A j \in Free!Lists : fHead'[j] # Null => NobodysNext(fHead[j])' /\ fHead'[j] = fHead[j]
        /\ \A j, k \in Free!Lists : fHead'[j] = fHead'[k] /\ fHead'[j] # Null => j = k
    BY <1>8, <1>10 DEF FreeInv, LedToOnce
  <2>3. \A u \in Linking' : /\ mine'[u] \in Free!Alive' \ Out' /\ NobodysNext(mine[u])'
                           /\ \A j \in Free!Lists : fHead'[j] # mine'[u]
    BY <1>2, <1>6, <1>7, <1>8, <1>10, NullNoElement DEF FreeInv, LedToOnce
  <2>4. QED
    BY <1>3, <1>6, <1>8, <2>1, <2>2, <2>3, UseFixed DEF FreeInv, LedToOnce
<1>15. LastOnes'
  BY <1>3, <1>6, <1>8, UseFixed DEF FreeInv, LastOnes
<1>16. Lengths'
  BY <1>1, <1>3, BusyIsSync, UseFixed DEF Lengths, Free!Sync
<1>17. QED
  BY <1>11, <1>12, <1>13, <1>14, <1>15, <1>16 DEF FreeInv

(* It is put back, for it is the last.                                      *)
LEMMA GetBackInv == ASSUME FreeInv, NEW t \in Free!User, Free!GetBack(t) PROVE FreeInv'
<1>1. t \in Taker /\ FreeTypes
  BY DEF Free!User, FreeInv
<1>2. fPc[t] \in {"again", "back"} /\ Free!Owns(t)
  BY <1>1, OwnsKeeps DEF Free!GetBack, Keeps
<1>3. PICK i \in Free!Lists, m \in Free!Alive : i = free[t] /\ m = mine[t]
  BY <1>1, <1>2 DEF Free!Lists, FreeInv, OutAlone
<1>4. /\ mine' = [mine EXCEPT ![t] = Null] /\ fHead' = [fHead EXCEPT ![i] = m]
      /\ fPc' = [fPc EXCEPT ![t] = IF fPc[t] = "again" THEN "size" ELSE "new"]
      /\ SameUse /\ UNCHANGED <<fTail, fSize, fNext, owner, held, other>>
  BY <1>3 DEF Free!GetBack, Free!Goto, Free!elements, SameUse
<1>5. fPc'[t] \in {"size", "new"} /\ mine'[t] = Null /\ OthersSame(t)
  BY <1>1, <1>4 DEF FreeTypes, OthersSame
<1>6. ~Free!Owns(t)' /\ t \notin Linking' \cup Releasing' \cup Linking \cup Releasing
  BY <1>2, <1>5 DEF Free!Owns, Linking, Releasing
<1>7. Linking' = Linking /\ Releasing' = Releasing
      /\ \A u \in Linking \cup Releasing : mine'[u] = mine[u] /\ other'[u] = other[u]
  BY <1>1, <1>5, <1>6, OthersOwn DEF Linking, Releasing, OthersSame
<1>8. /\ \A u \in Taker \ {t} : (Free!Owns(u)' <=> Free!Owns(u)) /\ mine'[u] = mine[u]
      /\ Out' \subseteq Out \ {m}
  <2>1. \A u \in Taker \ {t} : (Free!Owns(u)' <=> Free!Owns(u)) /\ mine'[u] = mine[u]
    BY <1>1, <1>5, OthersOwn DEF OthersSame
  <2>2. m \notin held /\ \A u \in Taker \ {t} : Free!Owns(u) => mine[u] # m
    BY <1>1, <1>2, <1>3 DEF FreeInv, OutAlone
  <2>3. QED
    BY <1>1, <1>4, <1>6, <2>1, <2>2, OutIs
<1>9. /\ Free!Alive' = Free!Alive
      /\ \A e : (NobodysNext(e)' <=> NobodysNext(e)) /\ (Waits(e)' <=> Waits(e))
  BY <1>4, <1>7 DEF Free!Alive, NobodysNext, Waits, Releasing
<1>10. m \in Out /\ NobodysNext(m) /\ \A j \in Free!Lists : fHead[j] # m
  BY <1>1, <1>2, <1>3, OutIs DEF FreeInv, OutAlone
<1>11. \A j \in Free!Lists : fHead'[j] = IF j = i THEN m ELSE fHead[j]
  BY <1>1, <1>4 DEF FreeTypes
<1>12. FreeTypes'
  <2>1. fPc' \in [Taker -> {"idle", "size", "take", "new", "next", "last", "again", "back",
                           "count", "open", "fits", "swap", "link", "counted", "thrown"}]
        /\ mine' \in [Taker -> Element \cup {Null}]
        /\ fHead' \in [Free!Lists -> Free!Alive \cup {Null}]
    BY <1>1, <1>4 DEF FreeTypes
  <2>2. QED
    BY <1>1, <1>4, <1>9, <2>1, UseFixed DEF FreeTypes, SameUse
<1>13. ByKind'
  <2>1. Free!Sync
    BY <1>1, <1>2, BusyIsSync
  <2>2. Free!Kind # "dummy"
    BY <2>1 DEF Free!Sync
  <2>3. QED
    BY <1>4, <1>7, <2>1, <2>2, UseFixed DEF FreeInv, ByKind
<1>14. OutAlone'
  <2>1. /\ \A u \in Taker : fPc'[u] \in Keeps => mine'[u] # Null
        /\ \A u \in Taker : Free!Owns(u)' => mine'[u] \in Free!Alive' /\ mine'[u] \notin held'
    BY <1>4, <1>5, <1>6, <1>8, <1>9 DEF FreeInv, OutAlone, OthersSame, Keeps
  <2>2. \A u, v \in Taker : Free!Owns(u)' /\ Free!Owns(v)' /\ mine'[u] = mine'[v] => u = v
    BY <1>6, <1>8 DEF FreeInv, OutAlone
  <2>3. \A x \in Out' : NobodysNext(x)'
    BY <1>8, <1>9 DEF FreeInv, OutAlone
  <2>4. \A j \in Free!Lists : fHead'[j] \notin Out'
    BY <1>8, <1>11 DEF FreeInv, OutAlone
  <2>5. QED
    BY <1>4, <2>1, <2>2, <2>3, <2>4, UseFixed DEF OutAlone
<1>15. LedToOnce'
  <2>1. \A u \in Taker : fPc'[u] \in {"count", "open"} =>
          other'[u] = fNext'[mine'[u]] /\ other'[u] # Null
    BY <1>4, <1>5 DEF OthersSame, FreeInv, LedToOnce
  <2>2. /\ \A j \in Free!Lists : fHead'[j] # Null => NobodysNext(fHead[j])'
        /\ \A j, k \in Free!Lists : fHead'[j] = fHead'[k] /\ fHead'[j] # Null => j = k
    BY <1>9, <1>10, <1>11 DEF FreeInv, LedToOnce
  <2>3. \A u \in Linking' : /\ mine'[u] \in Free!Alive' \ Out' /\ NobodysNext(mine[u])'
                           /\ \A j \in Free!Lists : fHead'[j] # mine'[u]
    BY <1>7, <1>8, <1>9, <1>10, <1>11 DEF FreeInv, LedToOnce
  <2>4. QED
    BY <1>4, <1>7, <1>9, <2>1, <2>2, <2>3, UseFixed DEF FreeInv, LedToOnce
<1>16. LastOnes'
  BY <1>4, <1>7, <1>9, UseFixed DEF FreeInv, LastOnes
<1>17. Lengths'
  BY <1>1, <1>2, <1>4, BusyIsSync, UseFixed DEF Lengths, Free!Sync
<1>18. QED
  BY <1>12, <1>13, <1>14, <1>15, <1>16, <1>17 DEF FreeInv

(* An element with a next is cut off, and its next becomes the head.        *)
LEMMA GetOpenInv == ASSUME FreeInv, NEW t \in Free!User, Free!GetOpen(t) PROVE FreeInv'
<1>1. t \in Taker /\ FreeTypes
  BY DEF Free!User, FreeInv
<1>2. fPc[t] = "open" /\ Free!Owns(t)
  BY <1>1, OwnsKeeps DEF Free!GetOpen, Keeps
<1>3. PICK i \in Free!Lists, m \in Free!Alive, n \in Free!Alive :
        i = free[t] /\ m = mine[t] /\ n = other[t] /\ n = fNext[m]
  <2>1. free[t] \in Free!Lists /\ mine[t] \in Free!Alive
    BY <1>1, <1>2 DEF Free!Lists, FreeInv, OutAlone
  <2>2. other[t] = fNext[mine[t]] /\ other[t] # Null
    BY <1>1, <1>2 DEF FreeInv, LedToOnce
  <2>3. other[t] \in Free!Alive
    BY <1>1, <2>1, <2>2 DEF FreeTypes
  <2>4. QED
    BY <2>1, <2>2, <2>3
<1>4. /\ mine' = [mine EXCEPT ![t] = Null] /\ fHead' = [fHead EXCEPT ![i] = n]
      /\ other' = [other EXCEPT ![t] = Null] /\ fPc' = [fPc EXCEPT ![t] = "idle"]
      /\ fNext' = [fNext EXCEPT ![m] = Null] /\ held' = held \cup {m}
      /\ owner' = IF Free!Kind = "owner" THEN [owner EXCEPT ![m] = i] ELSE owner
      /\ SameUse /\ UNCHANGED <<fTail, fSize>>
  BY <1>3 DEF Free!GetOpen, Free!Goto, SameUse
<1>5. fPc'[t] = "idle" /\ OthersSame(t)
  BY <1>1, <1>4 DEF FreeTypes, OthersSame
<1>6. ~Free!Owns(t)' /\ t \notin Linking' \cup Releasing' \cup Linking \cup Releasing
  BY <1>2, <1>5 DEF Free!Owns, Linking, Releasing
<1>7. Linking' = Linking /\ Releasing' = Releasing
      /\ \A u \in Linking \cup Releasing : mine'[u] = mine[u] /\ other'[u] = other[u]
  BY <1>1, <1>5, <1>6, OthersOwn DEF Linking, Releasing, OthersSame
<1>8. /\ \A u \in Taker \ {t} : /\ Free!Owns(u)' <=> Free!Owns(u)
                               /\ mine'[u] = mine[u] /\ (Free!Owns(u) => mine[u] # m)
      /\ Out' = Out
  <2>1. \A u \in Taker \ {t} : (Free!Owns(u)' <=> Free!Owns(u)) /\ mine'[u] = mine[u]
    BY <1>1, <1>5, OthersOwn DEF OthersSame
  <2>2. \A u \in Taker \ {t} : Free!Owns(u) => mine[u] # m
    BY <1>1, <1>2, <1>3 DEF FreeInv, OutAlone
  <2>3. \A x : x \in Out' <=> x \in Out
    BY <1>1, <1>2, <1>3, <1>4, <1>6, <2>1, OutIs
  <2>4. QED
    BY <2>1, <2>2, <2>3
<1>9. n # Null /\ m # Null /\ m \in Out /\ m \notin held
  BY <1>1, <1>2, <1>3, OutIs, NullNoElement DEF FreeInv, OutAlone
<1>10. n \notin Out /\ \A j \in Free!Lists : fHead[j] # n
       /\ \A u \in Linking : mine[u] # n
  BY <1>3, <1>9 DEF FreeInv, OutAlone, LedToOnce, NobodysNext
<1>11. /\ Free!Alive' = Free!Alive /\ fNext'[m] = Null
       /\ \A x \in Free!Alive : x # m => fNext'[x] = fNext[x] /\ fNext[x] # n
  BY <1>1, <1>3, <1>4, <1>9 DEF Free!Alive, FreeInv, LedToOnce
<1>12. /\ \A e : e # Null /\ NobodysNext(e) => NobodysNext(e)'
       /\ NobodysNext(n)'
  BY <1>9, <1>11 DEF NobodysNext
<1>13. \A e : Waits(e) => Waits(e)'
  <2>1. \A e : Waits(e) => e # m
    BY <1>3, <1>9 DEF Waits
  <2>2. QED
    BY <1>4, <1>7, <1>11, <2>1 DEF Waits
<1>14. \A j \in Free!Lists : fHead'[j] = IF j = i THEN n ELSE fHead[j]
  BY <1>1, <1>4 DEF FreeTypes
<1>15. FreeTypes'
  <2>1. fPc' \in [Taker -> {"idle", "size", "take", "new", "next", "last", "again", "back",
                           "count", "open", "fits", "swap", "link", "counted", "thrown"}]
    BY <1>1, <1>4 DEF FreeTypes
  <2>2. mine' \in [Taker -> Element \cup {Null}] /\ other' \in [Taker -> Element \cup {Null}]
    BY <1>1, <1>4 DEF FreeTypes
  <2>3. fHead' \in [Free!Lists -> Free!Alive \cup {Null}]
        /\ fNext' \in [Free!Alive -> Free!Alive \cup {Null}]
    BY <1>1, <1>4 DEF FreeTypes
  <2>4. owner' \in [Free!Alive -> Free!Lists \cup {Null}] /\ held' \subseteq Free!Alive
    BY <1>1, <1>4 DEF FreeTypes
  <2>5. QED
    BY <1>1, <1>4, <1>11, <2>1, <2>2, <2>3, <2>4, UseFixed DEF FreeTypes, SameUse
<1>16. ByKind'
  <2>1. Free!Sync
    BY <1>1, <1>2, BusyIsSync
  <2>2. Free!Kind # "dummy"
    BY <2>1 DEF Free!Sync
  <2>3. Free!Kind = "owner" =>
          \A x \in held' \cup {mine'[u] : u \in Releasing'} : owner'[x] \in Free!Lists
    <3>1. ASSUME Free!Kind = "owner", NEW x \in held' \cup {mine'[u] : u \in Releasing'}
          PROVE  owner'[x] \in Free!Lists
      <4>1. CASE x = m
        BY <1>1, <1>4, <3>1, <4>1 DEF FreeTypes
      <4>2. CASE x # m
        <5>1. x \in held \cup {mine[u] : u \in Releasing}
          BY <1>4, <1>7, <3>1, <4>2
        <5>2. owner'[x] = owner[x]
          BY <1>1, <1>4, <3>1, <4>2 DEF FreeTypes
        <5>3. QED
          BY <3>1, <5>1, <5>2 DEF FreeInv, ByKind
      <4>3. QED
        BY <4>1, <4>2
    <3>2. QED
      BY <3>1
  <2>4. QED
    BY <1>4, <2>1, <2>2, <2>3, UseFixed DEF ByKind
<1>17. OutAlone'
  <2>1. /\ \A u \in Taker : fPc'[u] \in Keeps => mine'[u] # Null
        /\ \A u \in Taker : Free!Owns(u)' => mine'[u] \in Free!Alive' /\ mine'[u] \notin held'
    BY <1>4, <1>5, <1>6, <1>8, <1>11 DEF FreeInv, OutAlone, OthersSame, Keeps
  <2>2. \A u, v \in Taker : Free!Owns(u)' /\ Free!Owns(v)' /\ mine'[u] = mine'[v] => u = v
    BY <1>6, <1>8 DEF FreeInv, OutAlone
  <2>3. \A x \in Out' : NobodysNext(x)'
    BY <1>8, <1>12, NullNoElement DEF FreeInv, OutAlone
  <2>4. \A j \in Free!Lists : fHead'[j] \notin Out'
    BY <1>8, <1>10, <1>14 DEF FreeInv, OutAlone
  <2>5. QED
    BY <1>4, <2>1, <2>2, <2>3, <2>4, UseFixed DEF OutAlone
<1>18. LedToOnce'
  <2>1. \A u \in Taker : fPc'[u] \in {"count", "open"} =>
          other'[u] = fNext'[mine'[u]] /\ other'[u] # Null
    <3>1. ASSUME NEW u \in Taker, fPc'[u] \in {"count", "open"}
          PROVE  other'[u] = fNext'[mine'[u]] /\ other'[u] # Null
      <4>1. u # t /\ fPc[u] = fPc'[u] /\ mine'[u] = mine[u] /\ other'[u] = other[u]
        BY <1>5, <3>1 DEF OthersSame
      <4>2. Free!Owns(u)
        BY <3>1, <4>1, OwnsKeeps DEF Keeps
      <4>3. mine[u] # m /\ mine[u] \in Free!Alive
        BY <1>8, <4>1, <4>2 DEF FreeInv, OutAlone
      <4>4. QED
        BY <1>11, <3>1, <4>1, <4>3 DEF FreeInv, LedToOnce
    <3>2. QED
      BY <3>1
  <2>2. /\ \A j \in Free!Lists : fHead'[j] # Null => NobodysNext(fHead[j])'
        /\ \A j, k \in Free!Lists : fHead'[j] = fHead'[k] /\ fHead'[j] # Null => j = k
    BY <1>10, <1>12, <1>14 DEF FreeInv, LedToOnce
  <2>3. \A u \in Linking' : /\ mine'[u] \in Free!Alive' \ Out' /\ NobodysNext(mine[u])'
                           /\ \A j \in Free!Lists : fHead'[j] # mine'[u]
    BY <1>7, <1>8, <1>10, <1>11, <1>12, <1>14, NullNoElement DEF FreeInv, LedToOnce
  <2>4. \A x, y \in Free!Alive' : fNext'[x] = fNext'[y] /\ fNext'[x] # Null => x = y
    BY <1>11 DEF FreeInv, LedToOnce
  <2>5. QED
    BY <1>7, <2>1, <2>2, <2>3, <2>4, UseFixed, <1>4 DEF FreeInv, LedToOnce
<1>19. LastOnes'
  BY <1>4, <1>7, <1>13, UseFixed DEF FreeInv, LastOnes
<1>20. Lengths'
  BY <1>1, <1>2, <1>4, BusyIsSync, UseFixed DEF Lengths, Free!Sync
<1>21. QED
  BY <1>15, <1>16, <1>17, <1>18, <1>19, <1>20 DEF FreeInv

(* A new element: nothing leads to it, and its user has it. *)
LEMMA GiveNewInv ==
  ASSUME FreeInv, NEW t \in Free!User, Free!GiveNew(t), SameUse,
         UNCHANGED <<fHead, fTail, fSize, mine, other>>,
         fPc' = fPc \/ (fPc[t] = "new" /\ fPc' = [fPc EXCEPT ![t] = "idle"])
  PROVE  FreeInv'
<1>1. t \in Taker /\ FreeTypes
  BY DEF Free!User, FreeInv
<1>2. PICK n \in Element \ Free!Alive :
        /\ fNext' = [e \in Free!Alive \cup {n} |-> IF e = n THEN Null ELSE fNext[e]]
        /\ owner' = [e \in Free!Alive \cup {n} |-> IF e = n THEN Free!OwnerFor(t) ELSE owner[e]]
        /\ held' = held \cup {n}
  <2>1. \A k \in 1..MaxNew : <<Null, k>> \in Element
    BY UseAssumption DEF Element
  <2>2. Free!Fresh \subseteq Element \ Free!Alive
    BY <2>1 DEF Free!Fresh
  <2>3. QED
    BY <2>2 DEF Free!GiveNew
<1>3. n # Null /\ n \notin Out /\ n \notin held /\ \A u \in Taker : Free!Owns(u) => mine[u] # n
  BY <1>2, NullNoElement, OutIs DEF FreeInv, OutAlone, FreeTypes
<1>4. Free!OwnerFor(t) \in Free!Lists \cup {Null}
      /\ (Free!Kind = "owner" => Free!OwnerFor(t) \in Free!Lists)
  BY DEF Free!OwnerFor, Free!Lists
<1>5. /\ \A u \in Taker : Free!Owns(u)' <=> Free!Owns(u)
      /\ \A u \in Taker : fPc'[u] # fPc[u] => fPc'[u] = "idle" /\ fPc[u] = "new"
      /\ Linking' = Linking /\ Releasing' = Releasing
  BY <1>1 DEF FreeTypes, Free!Owns, Linking, Releasing
<1>6. Out' = Out \cup {n}
  BY <1>2, <1>5, OutIs
<1>7. /\ Free!Alive' = Free!Alive \cup {n} /\ fNext'[n] = Null
      /\ \A x \in Free!Alive : fNext'[x] = fNext[x] /\ fNext[x] # n
  BY <1>1, <1>2, <1>3 DEF Free!Alive, FreeTypes
<1>8. /\ \A e : e # Null /\ NobodysNext(e) => NobodysNext(e)'
      /\ NobodysNext(n)'
  BY <1>3, <1>7 DEF NobodysNext
<1>9. \A e : Waits(e) => Waits(e)'
  BY <1>2, <1>5, <1>7 DEF Waits
<1>10. FreeTypes'
  <2>1. fPc' \in [Taker -> {"idle", "size", "take", "new", "next", "last", "again", "back",
                           "count", "open", "fits", "swap", "link", "counted", "thrown"}]
    BY <1>1 DEF FreeTypes
  <2>2. fNext' \in [Free!Alive' -> Free!Alive' \cup {Null}]
        /\ owner' \in [Free!Alive' -> Free!Lists \cup {Null}]
    BY <1>1, <1>2, <1>4, <1>7 DEF FreeTypes
  <2>3. Free!Alive' \subseteq Element /\ held' \subseteq Free!Alive'
        /\ fHead' \in [Free!Lists -> Free!Alive' \cup {Null}]
    BY <1>1, <1>2, <1>7 DEF FreeTypes
  <2>4. QED
    BY <1>1, <2>1, <2>2, <2>3, UseFixed DEF FreeTypes, SameUse
<1>11. ByKind'
  <2>1. Free!Sync \/ \A u \in Taker : fPc'[u] = "idle"
    BY <1>1, <1>5 DEF FreeInv, ByKind
  <2>2. Free!Kind = "owner" => \A x \in held' \cup {mine'[u] : u \in Releasing'} :
                                 owner'[x] \in Free!Lists
    <3>1. ASSUME Free!Kind = "owner", NEW x \in held' \cup {mine'[u] : u \in Releasing'}
          PROVE  owner'[x] \in Free!Lists
      <4>1. CASE x = n
        BY <1>2, <1>4, <3>1, <4>1
      <4>2. CASE x # n
        <5>1. x \in held \cup {mine[u] : u \in Releasing}
          BY <1>2, <1>5, <3>1, <4>2
        <5>2. x \in Free!Alive
          BY <5>1 DEF FreeInv, FreeTypes, OutAlone, Releasing, Free!Owns, Keeps
        <5>3. owner'[x] = owner[x]
          BY <1>2, <4>2, <5>2
        <5>4. QED
          BY <3>1, <5>1, <5>3 DEF FreeInv, ByKind
      <4>3. QED
        BY <4>1, <4>2
    <3>2. QED
      BY <3>1
  <2>3. QED
    BY <2>1, <2>2, UseFixed DEF FreeInv, ByKind
<1>12. OutAlone'
  <2>1. /\ \A u \in Taker : fPc'[u] \in Keeps => mine'[u] # Null
        /\ \A u \in Taker : Free!Owns(u)' => mine'[u] \in Free!Alive' /\ mine'[u] \notin held'
    BY <1>2, <1>3, <1>5, <1>7 DEF FreeInv, OutAlone, Keeps
  <2>2. \A u, v \in Taker : Free!Owns(u)' /\ Free!Owns(v)' /\ mine'[u] = mine'[v] => u = v
    BY <1>5 DEF FreeInv, OutAlone
  <2>3. \A x \in Out' : NobodysNext(x)'
    BY <1>6, <1>8, NullNoElement DEF FreeInv, OutAlone
  <2>4. \A j \in Free!Lists : fHead'[j] \notin Out'
    BY <1>1, <1>2, <1>3, <1>6 DEF FreeInv, OutAlone, FreeTypes
  <2>5. QED
    BY <2>1, <2>2, <2>3, <2>4, UseFixed DEF OutAlone
<1>13. LedToOnce'
  <2>1. \A u \in Taker : fPc'[u] \in {"count", "open"} =>
          other'[u] = fNext'[mine'[u]] /\ other'[u] # Null
    <3>1. ASSUME NEW u \in Taker, fPc'[u] \in {"count", "open"}
          PROVE  other'[u] = fNext'[mine'[u]] /\ other'[u] # Null
      <4>1. fPc[u] = fPc'[u] /\ mine[u] \in Free!Alive
        BY <1>5, <3>1, OwnsKeeps DEF Keeps, FreeInv, OutAlone
      <4>2. QED
        BY <1>7, <3>1, <4>1 DEF FreeInv, LedToOnce
    <3>2. QED
      BY <3>1
  <2>2. /\ \A j \in Free!Lists : fHead'[j] # Null => NobodysNext(fHead[j])'
        /\ \A j, k \in Free!Lists : fHead'[j] = fHead'[k] /\ fHead'[j] # Null => j = k
    BY <1>8 DEF FreeInv, LedToOnce
  <2>3. \A u \in Linking' : /\ mine'[u] \in Free!Alive' \ Out' /\ NobodysNext(mine[u])'
                           /\ \A j \in Free!Lists : fHead'[j] # mine'[u]
    BY <1>2, <1>5, <1>6, <1>7, <1>8, NullNoElement DEF FreeInv, LedToOnce
  <2>4. \A x, y \in Free!Alive' : fNext'[x] = fNext'[y] /\ fNext'[x] # Null => x = y
    BY <1>7 DEF FreeInv, LedToOnce
  <2>5. QED
    BY <1>5, <2>1, <2>2, <2>3, <2>4, UseFixed DEF FreeInv, LedToOnce
<1>14. LastOnes'
  BY <1>5, <1>9, UseFixed DEF FreeInv, LastOnes
<1>15. Lengths'
  <2>1. ASSUME NEW i \in Free!Lists, fSize[i] \in Nat, Long(i) PROVE Long(i)'
    <3>1. PICK c \in [0..fSize[i] -> Free!Alive] :
             /\ c[0] = fHead[i] /\ c[fSize[i]] = fTail[i]
             /\ \A k \in 0..fSize[i] - 1 : fNext[c[k]] = c[k + 1]
      BY <2>1 DEF Long
    <3>2. c \in [0..fSize[i] -> Free!Alive'] /\ \A k \in 0..fSize[i] - 1 : fNext'[c[k]] = fNext[c[k]]
      BY <1>7, <2>1
    <3>3. /\ c \in [0..fSize'[i] -> Free!Alive']
          /\ c[0] = fHead'[i] /\ c[fSize'[i]] = fTail'[i]
          /\ \A k \in 0..fSize'[i] - 1 : fNext'[c[k]] = c[k + 1]
      BY <3>1, <3>2
    <3>4. QED
      BY <3>3 DEF Long
  <2>2. QED
    BY <2>1, UseFixed DEF FreeInv, Lengths
<1>16. QED
  BY <1>10, <1>11, <1>12, <1>13, <1>14, <1>15 DEF FreeInv

(* An element that is out is deleted: nothing leads to it.                  *)
LEMMA DeleteInv ==
  ASSUME FreeInv, NEW t \in Free!User, NEW e, Free!Delete(e), SameUse,
         UNCHANGED <<fHead, fTail, fSize, other>>, held' = held \ {e},
         \/ e \in held /\ UNCHANGED <<fPc, mine>>
         \/ /\ fPc[t] = "fits" /\ mine[t] = e /\ fPc' = [fPc EXCEPT ![t] = "thrown"]
            /\ mine' = [mine EXCEPT ![t] = Null]
  PROVE  FreeInv'
<1>1. t \in Taker /\ FreeTypes
  BY DEF Free!User, FreeInv
<1>2. e \in Out /\ e \in Free!Alive /\ (fPc[t] = "fits" => Free!Owns(t))
  BY <1>1, OwnsKeeps, OutIs DEF FreeInv, FreeTypes, OutAlone, Keeps
<1>3. /\ \A u \in Taker : Free!Owns(u)' => Free!Owns(u) /\ mine'[u] = mine[u] /\ mine[u] # e
      /\ Linking' = Linking /\ Releasing' \subseteq Releasing
      /\ \A u \in Linking \cup Releasing' : mine'[u] = mine[u]
      /\ \A u \in Taker : fPc'[u] \in Keeps => fPc[u] = fPc'[u] /\ mine'[u] = mine[u]
  <2>1. CASE e \in held /\ UNCHANGED <<fPc, mine>>
    BY <1>1, <2>1 DEF Free!Owns, Linking, Releasing, FreeInv, OutAlone
  <2>2. CASE /\ fPc[t] = "fits" /\ mine[t] = e /\ fPc' = [fPc EXCEPT ![t] = "thrown"]
             /\ mine' = [mine EXCEPT ![t] = Null]
    <3>1. fPc'[t] = "thrown" /\ \A u \in Taker \ {t} : fPc'[u] = fPc[u] /\ mine'[u] = mine[u]
      BY <1>1, <2>2 DEF FreeTypes
    <3>2. \A u \in Taker \ {t} : Free!Owns(u) => mine[u] # e
      BY <1>1, <1>2, <2>2 DEF FreeInv, OutAlone
    <3>3. QED
      BY <1>1, <2>2, <3>1, <3>2 DEF Free!Owns, Linking, Releasing, Keeps
  <2>3. QED
    BY <2>1, <2>2
<1>4. Out' \subseteq Out \ {e}
  BY <1>3, OutIs
<1>5. /\ Free!Alive' = Free!Alive \ {e}
      /\ \A x \in Free!Alive \ {e} : fNext'[x] = fNext[x] /\ owner'[x] = owner[x]
      /\ \A x \in Free!Alive : fNext[x] # e
      /\ \A i \in Free!Lists : fHead[i] # e
  BY <1>2 DEF Free!Delete, Free!Alive, FreeInv, OutAlone, NobodysNext
<1>6. \A x : NobodysNext(x) => NobodysNext(x)'
  BY <1>5 DEF NobodysNext
<1>7. \A x : Waits(x) => Waits(x)' /\ x # e
  <2>1. \A x : Waits(x) => x # e
    <3>1. CASE e \in held
      BY <3>1 DEF Waits
    <3>2. CASE fPc[t] = "fits" /\ mine[t] = e
      <4>1. t \in Releasing
        BY <1>1, <3>2 DEF Releasing
      <4>2. QED
        BY <3>2, <4>1 DEF Waits
    <3>3. QED
      BY <3>1, <3>2
  <2>2. QED
    BY <1>3, <1>5, <2>1 DEF Waits
<1>8. FreeTypes'
  <2>1. /\ fPc' \in [Taker -> {"idle", "size", "take", "new", "next", "last", "again", "back",
                           "count", "open", "fits", "swap", "link", "counted", "thrown"}]
        /\ mine' \in [Taker -> Element \cup {Null}]
    BY <1>1 DEF FreeTypes
  <2>2. fNext' \in [Free!Alive' -> Free!Alive' \cup {Null}]
        /\ owner' \in [Free!Alive' -> Free!Lists \cup {Null}]
    BY <1>1, <1>5 DEF FreeTypes, Free!Delete
  <2>3. Free!Alive' \subseteq Element /\ held' \subseteq Free!Alive'
        /\ fHead' \in [Free!Lists -> Free!Alive' \cup {Null}]
    BY <1>1, <1>5 DEF FreeTypes
  <2>4. QED
    BY <1>1, <2>1, <2>2, <2>3, UseFixed DEF FreeTypes, SameUse
<1>9. ByKind'
  <2>1. Free!Sync \/ \A u \in Taker : fPc'[u] = "idle"
    BY <1>1 DEF FreeInv, ByKind
  <2>2. Free!Kind = "owner" => \A x \in held' \cup {mine'[u] : u \in Releasing'} :
                                 owner'[x] \in Free!Lists
    <3>1. ASSUME Free!Kind = "owner", NEW x \in held' \cup {mine'[u] : u \in Releasing'}
          PROVE  owner'[x] \in Free!Lists
      <4>1. x \in Out'
        BY <3>1, OutIs, <1>3, OwnsKeeps DEF Free!Owns, Releasing, Keeps
      <4>2. x # e /\ x \in Free!Alive /\ x \in held \cup {mine[u] : u \in Releasing}
        BY <1>3, <1>4, <3>1, <4>1, OutIs DEF FreeInv, FreeTypes, OutAlone
      <4>3. QED
        BY <1>5, <3>1, <4>2 DEF FreeInv, ByKind
    <3>2. QED
      BY <3>1
  <2>3. QED
    BY <2>1, <2>2, UseFixed DEF FreeInv, ByKind
<1>10. OutAlone'
  <2>1. /\ \A u \in Taker : fPc'[u] \in Keeps => mine'[u] # Null
        /\ \A u \in Taker : Free!Owns(u)' => mine'[u] \in Free!Alive' /\ mine'[u] \notin held'
    BY <1>3, <1>5 DEF FreeInv, OutAlone
  <2>2. \A u, v \in Taker : Free!Owns(u)' /\ Free!Owns(v)' /\ mine'[u] = mine'[v] => u = v
    BY <1>3 DEF FreeInv, OutAlone
  <2>3. \A x \in Out' : NobodysNext(x)'
    BY <1>4, <1>6 DEF FreeInv, OutAlone
  <2>4. \A j \in Free!Lists : fHead'[j] \notin Out'
    BY <1>4 DEF FreeInv, OutAlone
  <2>5. QED
    BY <2>1, <2>2, <2>3, <2>4, UseFixed DEF OutAlone
<1>11. LedToOnce'
  <2>1. \A u \in Taker : fPc'[u] \in {"count", "open"} =>
          other'[u] = fNext'[mine'[u]] /\ other'[u] # Null
    <3>1. ASSUME NEW u \in Taker, fPc'[u] \in {"count", "open"}
          PROVE  other'[u] = fNext'[mine'[u]] /\ other'[u] # Null
      <4>1. fPc[u] = fPc'[u] /\ Free!Owns(u)' /\ mine'[u] = mine[u]
        BY <1>3, <3>1, OwnsKeeps DEF Keeps, Free!Owns
      <4>2. mine[u] \in Free!Alive \ {e}
        BY <1>3, <4>1 DEF FreeInv, OutAlone
      <4>3. QED
        BY <1>5, <3>1, <4>1, <4>2 DEF FreeInv, LedToOnce
    <3>2. QED
      BY <3>1
  <2>2. /\ \A j \in Free!Lists : fHead'[j] # Null => NobodysNext(fHead[j])'
        /\ \A j, k \in Free!Lists : fHead'[j] = fHead'[k] /\ fHead'[j] # Null => j = k
    BY <1>6 DEF FreeInv, LedToOnce
  <2>3. \A u \in Linking' : /\ mine'[u] \in Free!Alive' \ Out' /\ NobodysNext(mine[u])'
                           /\ \A j \in Free!Lists : fHead'[j] # mine'[u]
    BY <1>2, <1>3, <1>4, <1>5, <1>6 DEF FreeInv, LedToOnce
  <2>4. \A x, y \in Free!Alive' : fNext'[x] = fNext'[y] /\ fNext'[x] # Null => x = y
    BY <1>5 DEF FreeInv, LedToOnce
  <2>5. QED
    BY <1>3, <2>1, <2>2, <2>3, <2>4, UseFixed DEF FreeInv, LedToOnce
<1>12. LastOnes'
  BY <1>3, <1>7, UseFixed DEF FreeInv, LastOnes
<1>13. Lengths'
  <2>1. ASSUME NEW i \in Free!Lists, fSize[i] \in Nat, Long(i) PROVE Long(i)'
    <3>1. PICK c \in [0..fSize[i] -> Free!Alive] :
             /\ c[0] = fHead[i] /\ c[fSize[i]] = fTail[i]
             /\ \A k \in 0..fSize[i] - 1 : fNext[c[k]] = c[k + 1]
      BY <2>1 DEF Long
    <3>2. \A k \in 0..fSize[i] : c[k] # e
      <4>1. ASSUME NEW k \in 0..fSize[i], k # 0 PROVE c[k] # e
        <5>1. k - 1 \in 0..fSize[i] - 1 /\ k - 1 + 1 = k
          BY <2>1, <4>1
        <5>2. fNext[c[k - 1]] = c[k] /\ c[k - 1] \in Free!Alive
          BY <2>1, <3>1, <5>1
        <5>3. QED
          BY <1>5, <5>2
      <4>2. c[0] # e
        BY <1>5, <3>1
      <4>3. QED
        BY <4>1, <4>2
    <3>3. c \in [0..fSize[i] -> Free!Alive'] /\ \A k \in 0..fSize[i] - 1 : fNext'[c[k]] = fNext[c[k]]
      BY <1>5, <2>1, <3>2
    <3>4. /\ c \in [0..fSize'[i] -> Free!Alive']
          /\ c[0] = fHead'[i] /\ c[fSize'[i]] = fTail'[i]
          /\ \A k \in 0..fSize'[i] - 1 : fNext'[c[k]] = c[k + 1]
      BY <3>1, <3>3
    <3>5. QED
      BY <3>4 DEF Long
  <2>2. QED
    BY <2>1, UseFixed DEF FreeInv, Lengths
<1>14. QED
  BY <1>8, <1>9, <1>10, <1>11, <1>12, <1>13 DEF FreeInv

(* A user's element becomes the thread's.                                   *)
LEMMA ReleaseInv ==
  ASSUME FreeInv, NEW t \in Free!User, NEW e \in held, Free!Release(t, e) PROVE FreeInv'
<1>1. t \in Taker /\ FreeTypes
  BY DEF Free!User, FreeInv
<1>2. /\ fPc[t] = "idle" /\ Free!Sync
      /\ held' = held \ {e} /\ mine' = [mine EXCEPT ![t] = e] /\ fPc' = [fPc EXCEPT ![t] = "fits"]
      /\ SameUse /\ UNCHANGED <<fHead, fTail, fSize, fNext, owner, other>>
  BY DEF Free!Release, Free!Goto, Free!lists, SameUse
<1>3. e \in Free!Alive /\ e # Null /\ e \in Element
  BY <1>1, NullNoElement DEF FreeTypes
<1>4. fPc'[t] = "fits" /\ mine'[t] = e /\ OthersSame(t)
  BY <1>1, <1>2 DEF FreeTypes, OthersSame
<1>5. /\ Free!Owns(t)' /\ ~Free!Owns(t)
      /\ t \in Releasing' /\ t \notin Linking' \cup Linking \cup Releasing
  BY <1>1, <1>2, <1>3, <1>4 DEF Free!Owns, Linking, Releasing
<1>6. /\ Linking' = Linking /\ Releasing' = Releasing \cup {t}
      /\ \A u \in Linking \cup Releasing : mine'[u] = mine[u] /\ other'[u] = other[u]
  BY <1>1, <1>4, <1>5, OthersOwn DEF Linking, Releasing, OthersSame
<1>7. /\ \A u \in Taker \ {t} : /\ Free!Owns(u)' <=> Free!Owns(u)
                               /\ mine'[u] = mine[u] /\ (Free!Owns(u) => mine[u] # e)
      /\ Out' = Out
  <2>1. \A u \in Taker \ {t} : (Free!Owns(u)' <=> Free!Owns(u)) /\ mine'[u] = mine[u]
    BY <1>1, <1>4, OthersOwn DEF OthersSame
  <2>2. \A u \in Taker \ {t} : Free!Owns(u) => mine[u] # e
    BY DEF FreeInv, OutAlone
  <2>3. \A x : x \in Out' <=> x \in Out
    BY <1>1, <1>2, <1>4, <1>5, <2>1, OutIs
  <2>4. QED
    BY <2>1, <2>2, <2>3
<1>8. Free!Alive' = Free!Alive /\ \A x : NobodysNext(x)' <=> NobodysNext(x)
  BY <1>2 DEF Free!Alive, NobodysNext
<1>9. \A x : Waits(x) => Waits(x)'
  BY <1>2, <1>4, <1>6, <1>8 DEF Waits
<1>10. FreeTypes'
  <2>1. fPc' \in [Taker -> {"idle", "size", "take", "new", "next", "last", "again", "back",
                           "count", "open", "fits", "swap", "link", "counted", "thrown"}]
        /\ mine' \in [Taker -> Element \cup {Null}]
    BY <1>1, <1>2, <1>3 DEF FreeTypes
  <2>2. QED
    BY <1>1, <1>2, <1>8, <2>1, UseFixed DEF FreeTypes, SameUse
<1>11. ByKind'
  <2>1. held' \cup {mine'[u] : u \in Releasing'} \subseteq held \cup {mine[u] : u \in Releasing}
    BY <1>2, <1>4, <1>6
  <2>2. Free!Kind # "dummy"
    BY <1>2 DEF Free!Sync
  <2>3. QED
    BY <1>2, <2>1, <2>2, UseFixed DEF FreeInv, ByKind
<1>12. OutAlone'
  <2>1. /\ \A u \in Taker : fPc'[u] \in Keeps => mine'[u] # Null
        /\ \A u \in Taker : Free!Owns(u)' => mine'[u] \in Free!Alive' /\ mine'[u] \notin held'
    BY <1>2, <1>3, <1>4, <1>7, <1>8 DEF FreeInv, OutAlone, OthersSame
  <2>2. \A u, v \in Taker : Free!Owns(u)' /\ Free!Owns(v)' /\ mine'[u] = mine'[v] => u = v
    BY <1>4, <1>7 DEF FreeInv, OutAlone
  <2>3. QED
    BY <1>2, <1>7, <1>8, <2>1, <2>2, UseFixed DEF FreeInv, OutAlone
<1>13. LedToOnce'
  <2>1. \A u \in Taker : fPc'[u] \in {"count", "open"} =>
          other'[u] = fNext'[mine'[u]] /\ other'[u] # Null
    BY <1>2, <1>4 DEF OthersSame, FreeInv, LedToOnce
  <2>2. QED
    BY <1>2, <1>6, <1>7, <1>8, <2>1, UseFixed DEF FreeInv, LedToOnce
<1>14. LastOnes'
  BY <1>2, <1>6, <1>9, UseFixed DEF FreeInv, LastOnes
<1>15. Lengths'
  BY <1>2, UseFixed DEF Lengths, Free!Sync
<1>16. QED
  BY <1>10, <1>11, <1>12, <1>13, <1>14, <1>15 DEF FreeInv

(* It becomes the tail. Nothing leads to it until the old tail does.        *)
LEMMA ReleaseSwapInv ==
  ASSUME FreeInv, Homes, NEW t \in Free!User, Free!ReleaseSwap(t)
  PROVE  FreeInv'
<1>1. t \in Taker /\ FreeTypes
  BY DEF Free!User, FreeInv
<1>2. fPc[t] = "swap" /\ Free!Owns(t) /\ t \in Releasing /\ t \notin Linking
  BY <1>1, OwnsKeeps DEF Free!ReleaseSwap, Keeps, Releasing, Linking
<1>3. Free!Sync /\ Free!Kind # "dummy"
  <2>1. Free!Sync
    BY <1>1, <1>2, BusyIsSync
  <2>2. QED
    BY <2>1 DEF Free!Sync
<1>4. PICK i \in Free!Lists, m \in Free!Alive, o \in Free!Alive :
        i = home[t] /\ m = mine[t] /\ o = fTail[i] /\ Waits(o)
  <2>1. mine[t] \in Free!Alive
    BY <1>1, <1>2 DEF FreeInv, OutAlone
  <2>2. home[t] \in Free!Lists
    BY <1>1, <1>2 DEF Homes
  <2>3. Waits(fTail[home[t]])
    BY <1>3, <2>2 DEF FreeInv, LastOnes
  <2>4. QED
    BY <2>1, <2>2, <2>3 DEF Waits
<1>5. /\ fNext' = [fNext EXCEPT ![m] = Null] /\ other' = [other EXCEPT ![t] = o]
      /\ fTail' = [fTail EXCEPT ![i] = m] /\ fPc' = [fPc EXCEPT ![t] = "link"]
      /\ SameUse /\ UNCHANGED <<fHead, fSize, owner, held, mine>>
  BY <1>4 DEF Free!ReleaseSwap, Free!Goto, SameUse
<1>6. fPc'[t] = "link" /\ other'[t] = o /\ OthersSame(t)
  BY <1>1, <1>5 DEF FreeTypes, OthersSame
<1>7. /\ ~Free!Owns(t)' /\ Linking' = Linking \cup {t} /\ Releasing' = Releasing \ {t}
      /\ \A u \in Linking : other'[u] = other[u]
  <2>1. ~Free!Owns(t)' /\ t \in Linking' /\ t \notin Releasing'
    BY <1>1, <1>6 DEF Free!Owns, Linking, Releasing
  <2>2. Linking' = Linking \cup {t} /\ Releasing' = Releasing \ {t}
    BY <1>1, <1>6, <2>1, OthersOwn DEF Linking, Releasing
  <2>3. QED
    BY <1>2, <1>6, <2>1, <2>2 DEF OthersSame, Linking
<1>8. /\ \A u \in Taker : Free!Owns(u)' => u # t /\ Free!Owns(u) /\ mine'[u] = mine[u]
                                           /\ mine[u] # m /\ mine[u] \in Free!Alive /\ mine[u] \notin held
      /\ \A u \in Taker : u # t /\ fPc[u] \in Keeps => mine[u] # m
      /\ Out' = Out \ {m} /\ m \in Out /\ m \notin held
  <2>1. \A u \in Taker \ {t} : (Free!Owns(u)' <=> Free!Owns(u))
    BY <1>1, <1>6, OthersOwn
  <2>2. m \in Out /\ m \notin held /\ \A u \in Taker \ {t} : Free!Owns(u) => mine[u] # m
    BY <1>1, <1>2, <1>4, OutIs DEF FreeInv, OutAlone
  <2>3. \A x : x \in Out' <=> x \in Out /\ x # m
    BY <1>1, <1>2, <1>4, <1>5, <1>7, <2>1, <2>2, OutIs
  <2>4. \A u \in Taker : Free!Owns(u)' => u # t /\ Free!Owns(u) /\ mine'[u] = mine[u]
    BY <1>5, <1>7, <2>1
  <2>5. \A u \in Taker : Free!Owns(u) => mine[u] \in Free!Alive /\ mine[u] \notin held
    BY DEF FreeInv, OutAlone
  <2>6. QED
    BY <2>2, <2>3, <2>4, <2>5, OwnsKeeps
<1>9. m # Null /\ NobodysNext(m) /\ (\A j \in Free!Lists : fHead[j] # m)
      /\ \A u \in Linking : mine[u] # m
  BY <1>4, <1>8, NullNoElement DEF FreeInv, OutAlone, LedToOnce
<1>10. /\ Free!Alive' = Free!Alive /\ fNext'[m] = Null
       /\ \A x \in Free!Alive : x # m => fNext'[x] = fNext[x]
  BY <1>1, <1>5 DEF Free!Alive, FreeTypes
<1>11. \A e : e # Null /\ NobodysNext(e) => NobodysNext(e)'
  BY <1>10 DEF NobodysNext
<1>12. (\A e : Waits(e) => Waits(e)' /\ e # m) /\ Waits(m)'
  <2>1. \A e : Waits(e) => e # m
    BY <1>2, <1>4 DEF Waits
  <2>2. \A u \in Releasing' : mine[u] # m
    BY <1>7, <1>8 DEF Releasing, Keeps
  <2>3. QED
    BY <1>5, <1>7, <1>8, <1>10, <2>1, <2>2 DEF Waits
<1>13. \A j \in Free!Lists : fTail'[j] = IF j = i THEN m ELSE fTail[j]
  BY <1>1, <1>5 DEF FreeTypes
<1>14. FreeTypes'
  <2>1. fPc' \in [Taker -> {"idle", "size", "take", "new", "next", "last", "again", "back",
                           "count", "open", "fits", "swap", "link", "counted", "thrown"}]
        /\ other' \in [Taker -> Element \cup {Null}]
    BY <1>1, <1>5 DEF FreeTypes
  <2>2. fTail' \in [Free!Lists -> Element \cup {Null}]
        /\ fNext' \in [Free!Alive -> Free!Alive \cup {Null}]
    BY <1>1, <1>5 DEF FreeTypes
  <2>3. QED
    BY <1>1, <1>5, <1>10, <2>1, <2>2, UseFixed DEF FreeTypes, SameUse
<1>15. ByKind'
  BY <1>3, <1>5, <1>7, UseFixed DEF FreeInv, ByKind
<1>16. OutAlone'
  <2>1. /\ \A u \in Taker : fPc'[u] \in Keeps => mine'[u] # Null
        /\ \A u \in Taker : Free!Owns(u)' => mine'[u] \in Free!Alive' /\ mine'[u] \notin held'
    <3>1. mine' = mine /\ held' = held
      BY <1>5
    <3>2. QED
      BY <1>6, <1>8, <1>10, <3>1 DEF FreeInv, OutAlone, OthersSame, Keeps
  <2>2. \A u, v \in Taker : Free!Owns(u)' /\ Free!Owns(v)' /\ mine'[u] = mine'[v] => u = v
    BY <1>8 DEF FreeInv, OutAlone
  <2>3. \A x \in Out' : NobodysNext(x)'
    BY <1>8, <1>11, NullNoElement DEF FreeInv, OutAlone
  <2>4. \A j \in Free!Lists : fHead'[j] \notin Out'
    BY <1>5, <1>8 DEF FreeInv, OutAlone
  <2>5. QED
    BY <2>1, <2>2, <2>3, <2>4, <1>5, UseFixed DEF OutAlone
<1>17. LedToOnce'
  <2>1. \A u \in Taker : fPc'[u] \in {"count", "open"} =>
          other'[u] = fNext'[mine'[u]] /\ other'[u] # Null
    <3>1. ASSUME NEW u \in Taker, fPc'[u] \in {"count", "open"}
          PROVE  other'[u] = fNext'[mine'[u]] /\ other'[u] # Null
      <4>1. u # t /\ fPc[u] = fPc'[u] /\ mine'[u] = mine[u] /\ other'[u] = other[u]
        BY <1>6, <3>1 DEF OthersSame
      <4>2. Free!Owns(u) /\ fPc[u] \in Keeps
        BY <3>1, <4>1, OwnsKeeps DEF Keeps
      <4>3. mine[u] # m /\ mine[u] \in Free!Alive
        BY <1>8, <4>1, <4>2 DEF FreeInv, OutAlone
      <4>4. QED
        BY <1>10, <3>1, <4>1, <4>3 DEF FreeInv, LedToOnce
    <3>2. QED
      BY <3>1
  <2>2. \A j \in Free!Lists : fHead'[j] # Null => NobodysNext(fHead[j])'
    BY <1>5, <1>11 DEF FreeInv, LedToOnce
  <2>3. \A u \in Linking' : /\ mine'[u] \in Free!Alive' \ Out' /\ NobodysNext(mine[u])'
                           /\ \A j \in Free!Lists : fHead'[j] # mine'[u]
    BY <1>4, <1>5, <1>7, <1>8, <1>9, <1>10, <1>11, NullNoElement DEF FreeInv, LedToOnce
  <2>4. \A x, y \in Free!Alive' : fNext'[x] = fNext'[y] /\ fNext'[x] # Null => x = y
    BY <1>10 DEF FreeInv, LedToOnce
  <2>5. \A u, v \in Linking' : mine'[u] = mine'[v] => u = v
    BY <1>4, <1>5, <1>7, <1>9 DEF FreeInv, LedToOnce
  <2>6. QED
    BY <1>5, <2>1, <2>2, <2>3, <2>4, <2>5, UseFixed DEF FreeInv, LedToOnce
<1>18. LastOnes'
  <2>1. \A j \in Free!Lists : Waits(fTail[j])'
    BY <1>3, <1>12, <1>13 DEF FreeInv, LastOnes
  <2>2. \A j \in Free!Lists : fTail[j] # m
    BY <1>3, <1>12 DEF FreeInv, LastOnes
  <2>3. \A j, k \in Free!Lists : fTail'[j] = fTail'[k] => j = k
    BY <1>3, <1>13, <2>2 DEF FreeInv, LastOnes
  <2>4. \A u \in Linking' : /\ Waits(other[u])' /\ other'[u] # mine'[u]
                           /\ \A j \in Free!Lists : fTail'[j] # other'[u]
    <3>1. ASSUME NEW u \in Linking
          PROVE  /\ Waits(other[u])' /\ other'[u] # mine'[u]
                 /\ \A j \in Free!Lists : fTail'[j] # other'[u]
      BY <1>5, <1>7, <1>12, <1>13, <3>1 DEF FreeInv, LastOnes
    <3>2. \A j \in Free!Lists : j # i => fTail[j] # o
      BY <1>3, <1>4 DEF FreeInv, LastOnes
    <3>3. /\ Waits(other[t])' /\ other'[t] # mine'[t]
          /\ \A j \in Free!Lists : fTail'[j] # other'[t]
      BY <1>4, <1>5, <1>6, <1>12, <1>13, <3>2
    <3>4. QED
      BY <1>7, <3>1, <3>3
  <2>5. \A u, v \in Linking' : other'[u] = other'[v] => u = v
    BY <1>4, <1>6, <1>7 DEF FreeInv, LastOnes
  <2>6. QED
    BY <2>1, <2>3, <2>4, <2>5, <1>5, UseFixed DEF LastOnes
<1>19. Lengths'
  BY <1>3, <1>5, UseFixed DEF Lengths, Free!Sync
<1>20. QED
  BY <1>14, <1>15, <1>16, <1>17, <1>18, <1>19 DEF FreeInv

(* The old tail, which waited for it, gets it for its next.                 *)
LEMMA ReleaseLinkInv == ASSUME FreeInv, NEW t \in Free!User, Free!ReleaseLink(t) PROVE FreeInv'
<1>1. t \in Taker /\ FreeTypes
  BY DEF Free!User, FreeInv
<1>2. fPc[t] = "link" /\ ~Free!Owns(t) /\ t \in Linking /\ t \notin Releasing
  BY <1>1 DEF Free!ReleaseLink, Free!Owns, Releasing, Linking
<1>3. Free!Sync /\ Free!Kind # "dummy"
  <2>1. Free!Sync
    BY <1>1, <1>2, BusyIsSync
  <2>2. QED
    BY <2>1 DEF Free!Sync
<1>4. PICK m \in Free!Alive, o \in Free!Alive :
        /\ m = mine[t] /\ o = other[t] /\ Waits(o) /\ o # m /\ m \notin Out /\ NobodysNext(m)
        /\ \A j \in Free!Lists : fHead[j] # m
  BY <1>2 DEF FreeInv, LastOnes, LedToOnce, Waits
<1>5. /\ fNext' = [fNext EXCEPT ![o] = m] /\ fPc' = [fPc EXCEPT ![t] = "counted"]
      /\ SameUse /\ UNCHANGED <<fHead, fTail, fSize, owner, held, mine, other>>
  BY <1>4 DEF Free!ReleaseLink, Free!Goto, Free!lists, SameUse
<1>6. fPc'[t] = "counted" /\ OthersSame(t)
  BY <1>1, <1>5 DEF FreeTypes, OthersSame
<1>7. ~Free!Owns(t)' /\ Linking' = Linking \ {t} /\ Releasing' = Releasing
  <2>1. ~Free!Owns(t)' /\ t \notin Linking' /\ t \notin Releasing'
    BY <1>1, <1>6 DEF Free!Owns, Linking, Releasing
  <2>2. QED
    BY <1>1, <1>2, <1>6, <2>1, OthersOwn DEF Linking, Releasing
<1>8. (\A u \in Taker : Free!Owns(u)' <=> Free!Owns(u)) /\ Out' = Out
  <2>1. \A u \in Taker : Free!Owns(u)' <=> Free!Owns(u)
    BY <1>1, <1>2, <1>6, <1>7, OthersOwn
  <2>2. \A x : x \in Out' <=> x \in Out
    BY <1>5, <2>1, OutIs
  <2>3. QED
    BY <2>1, <2>2
<1>9. (\A u \in Linking' : mine[u] # m /\ other[u] # o) /\ \A j \in Free!Lists : fTail[j] # o
  BY <1>2, <1>4, <1>7 DEF FreeInv, LedToOnce, LastOnes
<1>10. /\ Free!Alive' = Free!Alive /\ fNext'[o] = m
       /\ \A x \in Free!Alive : x # o => fNext'[x] = fNext[x]
  BY <1>1, <1>5 DEF Free!Alive, FreeTypes
<1>11. \A e : e # m /\ NobodysNext(e) => NobodysNext(e)'
  BY <1>10 DEF NobodysNext
<1>12. \A e : Waits(e) /\ e # o => Waits(e)'
  BY <1>5, <1>7, <1>10 DEF Waits
<1>13. FreeTypes'
  <2>1. fPc' \in [Taker -> {"idle", "size", "take", "new", "next", "last", "again", "back",
                           "count", "open", "fits", "swap", "link", "counted", "thrown"}]
        /\ fNext' \in [Free!Alive -> Free!Alive \cup {Null}]
    BY <1>1, <1>5 DEF FreeTypes
  <2>2. QED
    BY <1>1, <1>5, <1>10, <2>1, UseFixed DEF FreeTypes, SameUse
<1>14. ByKind'
  BY <1>3, <1>5, <1>7, UseFixed DEF FreeInv, ByKind
<1>15. OutAlone'
  <2>1. \A u \in Taker : fPc'[u] \in Keeps => mine'[u] # Null
    BY <1>5, <1>6 DEF FreeInv, OutAlone, OthersSame, Keeps
  <2>2. \A x \in Out' : NobodysNext(x)'
    BY <1>4, <1>8, <1>11 DEF FreeInv, OutAlone
  <2>3. QED
    BY <1>5, <1>8, <1>10, <2>1, <2>2, UseFixed DEF FreeInv, OutAlone
<1>16. LedToOnce'
  <2>1. \A u \in Taker : fPc'[u] \in {"count", "open"} =>
          other'[u] = fNext'[mine'[u]] /\ other'[u] # Null
    <3>1. ASSUME NEW u \in Taker, fPc'[u] \in {"count", "open"}
          PROVE  other'[u] = fNext'[mine'[u]] /\ other'[u] # Null
      <4>1. u # t /\ fPc[u] = fPc'[u] /\ mine'[u] = mine[u] /\ other'[u] = other[u]
        BY <1>6, <3>1 DEF OthersSame
      <4>2. other[u] = fNext[mine[u]] /\ other[u] # Null /\ mine[u] \in Free!Alive
        BY <3>1, <4>1, OwnsKeeps DEF Keeps, FreeInv, OutAlone, LedToOnce
      <4>3. mine[u] # o
        BY <1>4, <4>2 DEF Waits
      <4>4. QED
        BY <1>10, <4>1, <4>2, <4>3
    <3>2. QED
      BY <3>1
  <2>2. \A j \in Free!Lists : fHead'[j] # Null => NobodysNext(fHead[j])'
    BY <1>4, <1>5, <1>11 DEF FreeInv, LedToOnce
  <2>3. \A u \in Linking' : /\ mine'[u] \in Free!Alive' \ Out' /\ NobodysNext(mine[u])'
                           /\ \A j \in Free!Lists : fHead'[j] # mine'[u]
    BY <1>5, <1>7, <1>8, <1>9, <1>10, <1>11 DEF FreeInv, LedToOnce
  <2>4. \A x, y \in Free!Alive' : fNext'[x] = fNext'[y] /\ fNext'[x] # Null => x = y
    BY <1>4, <1>10 DEF FreeInv, LedToOnce, NobodysNext
  <2>5. QED
    BY <1>5, <1>7, <2>1, <2>2, <2>3, <2>4, UseFixed DEF FreeInv, LedToOnce
<1>17. LastOnes'
  BY <1>3, <1>5, <1>7, <1>9, <1>12, UseFixed DEF FreeInv, LastOnes
<1>18. Lengths'
  BY <1>3, <1>5, UseFixed DEF Lengths, Free!Sync
<1>19. QED
  BY <1>13, <1>14, <1>15, <1>16, <1>17, <1>18 DEF FreeInv

(* The marks are numbers. *)
LEMMA MarksAre == ASSUME use \in Use PROVE Free!marks.high \in Nat /\ Free!marks.low \in Nat
  BY UseAssumption DEF Free!marks, Free!Uses

(* The list for one thread: its first element, which has a next, is given   *)
(* away.                                                                    *)
LEMMA GetNonSyncInv ==
  ASSUME FreeInv, NEW t \in Free!User, Free!GetNonSync(t), fSize[free[t]] > Free!marks.low
  PROVE  FreeInv'
<1>1. t \in Taker /\ FreeTypes /\ Free!Kind = "nonsync"
  BY DEF Free!User, FreeInv, Free!GetNonSync
<1>2. PICK i \in Free!Lists : i = free[t] /\ fSize[i] \in Nat /\ fSize[i] > 0 /\ Long(i)
  <2>1. free[t] \in Free!Lists
    BY DEF Free!Lists
  <2>2. fSize[free[t]] \in Nat /\ Long(free[t])
    BY <1>1, <2>1 DEF FreeInv, Lengths
  <2>3. QED
    BY <1>1, <2>1, <2>2, MarksAre DEF FreeTypes
<1>3. PICK c \in [0..fSize[i] -> Free!Alive] :
        /\ c[0] = fHead[i] /\ c[fSize[i]] = fTail[i]
        /\ \A k \in 0..fSize[i] - 1 : fNext[c[k]] = c[k + 1]
  BY <1>2 DEF Long
<1>4. PICK m \in Free!Alive, n \in Free!Alive : m = fHead[i] /\ n = fNext[m] /\ n = c[1]
  <2>1. 0 \in 0..fSize[i] - 1 /\ 0 + 1 = 1 /\ 0 \in 0..fSize[i] /\ 1 \in 0..fSize[i]
    BY <1>2
  <2>2. QED
    BY <1>3, <2>1
<1>5. /\ fHead' = [fHead EXCEPT ![i] = n] /\ fNext' = [fNext EXCEPT ![m] = Null]
      /\ fSize' = [fSize EXCEPT ![i] = @ - 1] /\ held' = held \cup {m}
      /\ SameUse /\ UNCHANGED <<owner, fTail, fPc, mine, other>>
  BY <1>2, <1>4 DEF Free!GetNonSync, Free!thread, SameUse
<1>6. /\ ~Free!Sync /\ \A u \in Taker : fPc[u] = "idle" /\ ~Free!Owns(u) /\ ~Free!Owns(u)'
      /\ Linking = {} /\ Linking' = {} /\ Releasing = {} /\ Releasing' = {}
  <2>1. ~Free!Sync
    BY <1>1 DEF Free!Sync
  <2>2. \A u \in Taker : fPc[u] = "idle"
    BY <2>1 DEF FreeInv, ByKind
  <2>3. QED
    BY <1>5, <2>1, <2>2 DEF Free!Owns, Linking, Releasing
<1>7. Out = held /\ Out' = Out \cup {m}
  BY <1>5, <1>6 DEF Out
<1>8. /\ m # Null /\ n # Null /\ m \notin Out /\ NobodysNext(m)
      /\ \A j \in Free!Lists : j # i => fHead[j] # m
  BY <1>4, NullNoElement DEF FreeInv, OutAlone, LedToOnce
<1>9. n \notin Out /\ n # m /\ \A j \in Free!Lists : fHead[j] # n
  <2>1. \A x : NobodysNext(x) => x # n
    BY <1>4 DEF NobodysNext
  <2>2. \A j \in Free!Lists : fHead[j] # Null => NobodysNext(fHead[j])
    BY DEF FreeInv, LedToOnce
  <2>3. \A x \in Out : NobodysNext(x)
    BY DEF FreeInv, OutAlone
  <2>4. QED
    BY <1>8, <2>1, <2>2, <2>3
<1>10. /\ Free!Alive' = Free!Alive /\ fNext'[m] = Null
       /\ \A x \in Free!Alive : x # m => fNext'[x] = fNext[x] /\ fNext[x] # n
  BY <1>1, <1>4, <1>5, <1>8 DEF Free!Alive, FreeInv, LedToOnce, FreeTypes
<1>11. (\A e : e # Null /\ NobodysNext(e) => NobodysNext(e)') /\ NobodysNext(n)'
  BY <1>8, <1>10 DEF NobodysNext
<1>12. \A e : Waits(e) => Waits(e)' /\ e # m
  BY <1>4, <1>5, <1>6, <1>8, <1>10 DEF Waits
<1>13. \A j \in Free!Lists : fHead'[j] = IF j = i THEN n ELSE fHead[j]
  BY <1>1, <1>5 DEF FreeTypes
<1>14. FreeTypes'
  <2>1. fHead' \in [Free!Lists -> Free!Alive \cup {Null}]
        /\ fNext' \in [Free!Alive -> Free!Alive \cup {Null}] /\ held' \subseteq Free!Alive
    BY <1>1, <1>5 DEF FreeTypes
  <2>2. DOMAIN fSize' = Free!Lists
    BY <1>1, <1>5 DEF FreeTypes
  <2>3. QED
    BY <1>1, <1>5, <1>10, <2>1, <2>2, UseFixed DEF FreeTypes, SameUse
<1>15. ByKind'
  BY <1>1, <1>5, <1>6, UseFixed DEF ByKind
<1>16. OutAlone'
  <2>1. \A u \in Taker : fPc'[u] \notin Keeps
    BY <1>5, <1>6 DEF Keeps
  <2>2. \A x \in Out' : NobodysNext(x)'
    BY <1>7, <1>8, <1>11, NullNoElement DEF FreeInv, OutAlone
  <2>3. \A j \in Free!Lists : fHead'[j] \notin Out'
    BY <1>7, <1>8, <1>9, <1>13 DEF FreeInv, OutAlone
  <2>4. QED
    BY <1>5, <1>6, <2>1, <2>2, <2>3, UseFixed DEF OutAlone
<1>17. LedToOnce'
  <2>1. /\ \A j \in Free!Lists : fHead'[j] # Null => NobodysNext(fHead[j])'
        /\ \A j, k \in Free!Lists : fHead'[j] = fHead'[k] /\ fHead'[j] # Null => j = k
    BY <1>9, <1>11, <1>13 DEF FreeInv, LedToOnce
  <2>2. \A x, y \in Free!Alive' : fNext'[x] = fNext'[y] /\ fNext'[x] # Null => x = y
    BY <1>10 DEF FreeInv, LedToOnce
  <2>3. \A u \in Taker : fPc'[u] = "idle"
    BY <1>5, <1>6
  <2>4. QED
    BY <1>5, <1>6, <2>1, <2>2, <2>3, UseFixed DEF LedToOnce
<1>18. LastOnes'
  BY <1>5, <1>6, <1>12, UseFixed DEF FreeInv, LastOnes
<1>19. Lengths'
  <2>1. ASSUME NEW j \in Free!Lists, j # i PROVE fSize'[j] \in Nat /\ Long(j)'
    <3>1. fSize'[j] = fSize[j] /\ fHead'[j] = fHead[j] /\ fTail'[j] = fTail[j]
      BY <1>5, <2>1
    <3>2. fSize[j] \in Nat /\ Long(j)
      BY <1>1, <2>1 DEF FreeInv, Lengths
    <3>3. PICK d \in [0..fSize[j] -> Free!Alive] :
             /\ d[0] = fHead[j] /\ d[fSize[j]] = fTail[j]
             /\ \A k \in 0..fSize[j] - 1 : fNext[d[k]] = d[k + 1]
      BY <3>2 DEF Long
    <3>4. \A k \in 0..fSize[j] : d[k] # m
      <4>1. ASSUME NEW k \in 0..fSize[j], k # 0 PROVE d[k] # m
        <5>1. k - 1 \in 0..fSize[j] - 1 /\ k - 1 \in 0..fSize[j] /\ k - 1 + 1 = k
          BY <3>2, <4>1
        <5>2. fNext[d[k - 1]] = d[k] /\ d[k - 1] \in Free!Alive
          BY <3>3, <5>1
        <5>3. QED
          BY <1>8, <5>2 DEF NobodysNext
      <4>2. d[0] # m
        BY <1>8, <2>1, <3>3
      <4>3. QED
        BY <4>1, <4>2
    <3>5. \A k \in 0..fSize[j] - 1 : fNext'[d[k]] = d[k + 1]
      BY <1>10, <3>2, <3>3, <3>4
    <3>6. /\ d \in [0..fSize'[j] -> Free!Alive']
          /\ d[0] = fHead'[j] /\ d[fSize'[j]] = fTail'[j]
          /\ \A k \in 0..fSize'[j] - 1 : fNext'[d[k]] = d[k + 1]
      BY <1>10, <3>1, <3>2, <3>3, <3>5
    <3>7. QED
      BY <3>1, <3>2, <3>6 DEF Long
  <2>2. fSize'[i] \in Nat /\ Long(i)'
    <3>1. PICK s \in Nat : fSize[i] = s + 1
      <4>1. fSize[i] - 1 \in Nat /\ fSize[i] = fSize[i] - 1 + 1
        BY <1>2
      <4>2. QED
        BY <4>1
    <3>2. fSize'[i] = s /\ fHead'[i] = n /\ fTail'[i] = fTail[i]
      <4>1. fSize'[i] = fSize[i] - 1
        BY <1>1, <1>2, <1>5 DEF FreeTypes
      <4>2. QED
        BY <1>5, <1>13, <3>1, <4>1
    <3>3. \A k \in 0..s : c[k + 1] \in Free!Alive /\ c[k + 1] # m
      <4>1. ASSUME NEW k \in 0..s PROVE c[k + 1] \in Free!Alive /\ c[k + 1] # m
        <5>1. k + 1 \in 0..fSize[i] /\ k \in 0..fSize[i] /\ k \in 0..fSize[i] - 1
          BY <3>1
        <5>2. fNext[c[k]] = c[k + 1] /\ c[k] \in Free!Alive /\ c[k + 1] \in Free!Alive
          BY <1>3, <5>1
        <5>3. QED
          BY <1>8, <5>2 DEF NobodysNext
      <4>2. QED
        BY <4>1
    <3>4. \A k \in 0..s - 1 : fNext'[c[k + 1]] = c[k + 1 + 1]
      <4>1. ASSUME NEW k \in 0..s - 1 PROVE fNext'[c[k + 1]] = c[k + 1 + 1]
        <5>1. k + 1 \in 0..fSize[i] - 1 /\ k \in 0..s
          BY <3>1
        <5>2. QED
          BY <1>3, <1>10, <3>3, <5>1
      <4>2. QED
        BY <4>1
    <3>5. PICK d : d = [k \in 0..s |-> c[k + 1]]
      OBVIOUS
    <3>6. d \in [0..s -> Free!Alive] /\ d[0] = n /\ d[s] = fTail[i]
      BY <1>3, <1>4, <3>1, <3>3, <3>5
    <3>7. \A k \in 0..s - 1 : fNext'[d[k]] = d[k + 1]
      BY <3>4, <3>5
    <3>8. QED
      BY <1>10, <3>2, <3>6, <3>7 DEF Long
  <2>3. QED
    BY <2>1, <2>2, <1>5, UseFixed DEF Lengths
<1>20. QED
  BY <1>14, <1>15, <1>16, <1>17, <1>18, <1>19 DEF FreeInv

(* An element put behind the tail makes the list one longer.                *)
LEMMA ReleaseNonSyncInv ==
  ASSUME FreeInv, NEW t \in Free!User, NEW e \in held, Free!ReleaseNonSync(t, e),
         fSize[free[t]] < Free!marks.high
  PROVE  FreeInv'
<1>1. t \in Taker /\ FreeTypes /\ Free!Kind = "nonsync"
  BY DEF Free!User, FreeInv, Free!ReleaseNonSync
<1>2. PICK i \in Free!Lists, o \in Free!Alive : i = free[t] /\ o = fTail[i] /\ Waits(o)
  <2>1. free[t] \in Free!Lists
    BY DEF Free!Lists
  <2>2. Waits(fTail[free[t]])
    BY <1>1, <2>1 DEF FreeInv, LastOnes
  <2>3. QED
    BY <2>1, <2>2 DEF Waits
<1>3. e \in Free!Alive /\ e \in Out /\ e # o /\ e # Null
  BY <1>1, <1>2, OutIs, NullNoElement DEF FreeTypes, Waits
<1>4. /\ fNext' = [fNext EXCEPT ![o] = e, ![e] = Null] /\ fTail' = [fTail EXCEPT ![i] = e]
      /\ fSize' = [fSize EXCEPT ![i] = @ + 1] /\ held' = held \ {e}
      /\ SameUse /\ UNCHANGED <<owner, fHead, fPc, mine, other>>
  BY <1>2 DEF Free!ReleaseNonSync, Free!thread, SameUse
<1>5. /\ ~Free!Sync /\ \A u \in Taker : fPc[u] = "idle" /\ ~Free!Owns(u) /\ ~Free!Owns(u)'
      /\ Linking = {} /\ Linking' = {} /\ Releasing = {} /\ Releasing' = {}
  <2>1. ~Free!Sync
    BY <1>1 DEF Free!Sync
  <2>2. \A u \in Taker : fPc[u] = "idle"
    BY <2>1 DEF FreeInv, ByKind
  <2>3. QED
    BY <1>4, <2>1, <2>2 DEF Free!Owns, Linking, Releasing
<1>6. Out = held /\ Out' = Out \ {e}
  BY <1>4, <1>5 DEF Out
<1>7. NobodysNext(e) /\ (\A j \in Free!Lists : fHead[j] # e)
      /\ \A j \in Free!Lists : fTail[j] # e /\ (j # i => fTail[j] # o)
  <2>1. \A x : Waits(x) => x # e
    BY DEF Waits
  <2>2. QED
    BY <1>1, <1>2, <1>3, <2>1 DEF FreeInv, OutAlone, LastOnes
<1>8. /\ Free!Alive' = Free!Alive /\ fNext'[o] = e /\ fNext'[e] = Null
      /\ \A x \in Free!Alive : x # o /\ x # e => fNext'[x] = fNext[x]
      /\ \A x \in Free!Alive : fNext[x] # e
  BY <1>1, <1>3, <1>4, <1>7 DEF Free!Alive, FreeTypes, NobodysNext
<1>9. \A x : x # Null /\ x # e /\ NobodysNext(x) => NobodysNext(x)'
  BY <1>8 DEF NobodysNext
<1>10. (\A x : x # o /\ Waits(x) => Waits(x)') /\ Waits(e)'
  <2>1. \A x : Waits(x) => x # e
    BY DEF Waits
  <2>2. QED
    BY <1>3, <1>4, <1>5, <1>8, <2>1 DEF Waits
<1>11. \A j \in Free!Lists : fTail'[j] = IF j = i THEN e ELSE fTail[j]
  BY <1>1, <1>4 DEF FreeTypes
<1>12. FreeTypes'
  <2>1. fTail' \in [Free!Lists -> Element \cup {Null}] /\ held' \subseteq Free!Alive
    BY <1>1, <1>3, <1>4 DEF FreeTypes
  <2>2. fNext' \in [Free!Alive -> Free!Alive \cup {Null}]
    BY <1>1, <1>3, <1>4 DEF FreeTypes
  <2>3. DOMAIN fSize' = Free!Lists
    BY <1>1, <1>4 DEF FreeTypes
  <2>4. QED
    BY <1>1, <1>4, <1>8, <2>1, <2>2, <2>3, UseFixed DEF FreeTypes, SameUse
<1>13. ByKind'
  BY <1>1, <1>4, <1>5, UseFixed DEF ByKind
<1>14. OutAlone'
  <2>1. \A u \in Taker : fPc'[u] \notin Keeps
    BY <1>4, <1>5 DEF Keeps
  <2>2. \A x \in Out' : NobodysNext(x)'
    BY <1>6, <1>9, NullNoElement DEF FreeInv, OutAlone
  <2>3. \A j \in Free!Lists : fHead'[j] \notin Out'
    BY <1>4, <1>6 DEF FreeInv, OutAlone
  <2>4. QED
    BY <1>4, <1>5, <2>1, <2>2, <2>3, UseFixed DEF OutAlone
<1>15. LedToOnce'
  <2>1. \A j \in Free!Lists : fHead'[j] # Null => NobodysNext(fHead[j])'
    BY <1>4, <1>7, <1>9 DEF FreeInv, LedToOnce
  <2>2. \A x, y \in Free!Alive' : fNext'[x] = fNext'[y] /\ fNext'[x] # Null => x = y
    BY <1>8 DEF FreeInv, LedToOnce
  <2>3. \A u \in Taker : fPc'[u] = "idle"
    BY <1>4, <1>5
  <2>4. QED
    BY <1>4, <1>5, <2>1, <2>2, <2>3, UseFixed DEF FreeInv, LedToOnce
<1>16. LastOnes'
  <2>1. \A j \in Free!Lists : Waits(fTail[j])'
    BY <1>1, <1>7, <1>10, <1>11 DEF FreeInv, LastOnes
  <2>2. \A j, k \in Free!Lists : fTail'[j] = fTail'[k] => j = k
    BY <1>1, <1>7, <1>11 DEF FreeInv, LastOnes
  <2>3. QED
    BY <1>5, <2>1, <2>2, <1>4, UseFixed DEF LastOnes
<1>17. Lengths'
  <2>1. ASSUME NEW j \in Free!Lists
        PROVE  /\ fSize[j] \in Nat
               /\ \E d \in [0..fSize[j] -> Free!Alive] :
                    /\ d[0] = fHead'[j] /\ d[fSize[j]] = fTail[j]
                    /\ \A k \in 0..fSize[j] - 1 : fNext[d[k]] = d[k + 1]
                    /\ \A k \in 0..fSize[j] : d[k] # e
                    /\ \A k \in 0..fSize[j] - 1 : d[k] # o
    <3>1. fSize[j] \in Nat /\ Long(j)
      BY <1>1, <2>1 DEF FreeInv, Lengths
    <3>2. PICK d \in [0..fSize[j] -> Free!Alive] :
             /\ d[0] = fHead[j] /\ d[fSize[j]] = fTail[j]
             /\ \A k \in 0..fSize[j] - 1 : fNext[d[k]] = d[k + 1]
      BY <3>1 DEF Long
    <3>3. \A k \in 0..fSize[j] : d[k] # e
      <4>1. ASSUME NEW k \in 0..fSize[j], k # 0 PROVE d[k] # e
        <5>1. k - 1 \in 0..fSize[j] - 1 /\ k - 1 \in 0..fSize[j] /\ k - 1 + 1 = k
          BY <3>1, <4>1
        <5>2. fNext[d[k - 1]] = d[k] /\ d[k - 1] \in Free!Alive
          BY <3>2, <5>1
        <5>3. QED
          BY <1>8, <5>2
      <4>2. d[0] # e
        BY <1>7, <3>2
      <4>3. QED
        BY <4>1, <4>2
    <3>4. ASSUME NEW k \in 0..fSize[j] - 1 PROVE d[k] # o
      <4>1. k + 1 \in 0..fSize[j]
        BY <3>1
      <4>2. fNext[d[k]] \in Free!Alive
        BY <3>2, <4>1
      <4>3. QED
        BY <1>2, <4>2, NullNoElement DEF Waits
    <3>5. QED
      BY <1>4, <3>1, <3>2, <3>3, <3>4
  <2>2. ASSUME NEW j \in Free!Lists, j # i PROVE fSize'[j] \in Nat /\ Long(j)'
    <3>1. fSize'[j] = fSize[j] /\ fTail'[j] = fTail[j] /\ fTail[j] # o
      BY <1>4, <1>7, <2>2
    <3>2. PICK d \in [0..fSize[j] -> Free!Alive] :
             /\ d[0] = fHead'[j] /\ d[fSize[j]] = fTail[j]
             /\ \A k \in 0..fSize[j] - 1 : fNext[d[k]] = d[k + 1]
             /\ \A k \in 0..fSize[j] : d[k] # e
             /\ \A k \in 0..fSize[j] - 1 : d[k] # o
      BY <2>1
    <3>3. fSize[j] \in Nat
      BY <2>1
    <3>4. \A k \in 0..fSize[j] - 1 : fNext'[d[k]] = d[k + 1]
      BY <1>8, <3>2, <3>3
    <3>5. /\ d \in [0..fSize'[j] -> Free!Alive']
          /\ d[0] = fHead'[j] /\ d[fSize'[j]] = fTail'[j]
          /\ \A k \in 0..fSize'[j] - 1 : fNext'[d[k]] = d[k + 1]
      BY <1>8, <3>1, <3>2, <3>3, <3>4
    <3>6. QED
      BY <3>1, <3>3, <3>5 DEF Long
  <2>3. fSize'[i] \in Nat /\ Long(i)'
    <3>1. PICK s \in Nat : s = fSize[i]
      BY <2>1
    <3>2. fSize'[i] = s + 1 /\ fTail'[i] = e
      BY <1>1, <1>2, <1>4, <1>11, <3>1 DEF FreeTypes
    <3>3. PICK d \in [0..s -> Free!Alive] :
             /\ d[0] = fHead'[i] /\ d[s] = o
             /\ \A k \in 0..s - 1 : fNext[d[k]] = d[k + 1]
             /\ \A k \in 0..s : d[k] # e
             /\ \A k \in 0..s - 1 : d[k] # o
      BY <1>2, <2>1, <3>1
    <3>4. PICK c : c = [k \in 0..s + 1 |-> IF k = s + 1 THEN e ELSE d[k]]
      OBVIOUS
    <3>5. c \in [0..s + 1 -> Free!Alive] /\ c[0] = fHead'[i] /\ c[s + 1] = e
      BY <1>3, <3>3, <3>4
    <3>6. ASSUME NEW k \in 0..s PROVE fNext'[c[k]] = c[k + 1]
      <4>1. CASE k = s
        BY <1>8, <3>3, <3>4, <4>1
      <4>2. CASE k # s
        <5>1. k \in 0..s - 1 /\ k \in 0..s + 1 /\ k + 1 \in 0..s + 1 /\ k # s + 1 /\ k + 1 # s + 1
          BY <4>2
        <5>2. c[k] = d[k] /\ c[k + 1] = d[k + 1]
          BY <3>4, <5>1
        <5>3. QED
          BY <1>8, <3>3, <5>1, <5>2
      <4>3. QED
        BY <4>1, <4>2
    <3>7. QED
      BY <1>8, <3>2, <3>5, <3>6 DEF Long
  <2>4. QED
    BY <2>2, <2>3, <1>4, UseFixed DEF Lengths
<1>18. QED
  BY <1>12, <1>13, <1>14, <1>15, <1>16, <1>17 DEF FreeInv

(* Every step of Next is one of these. *)
LEMMA StepFreeInv == FreeInv /\ Homes /\ [Free!Next]_(Free!vars) => FreeInv'
<1> SUFFICES ASSUME FreeInv, Homes, [Free!Next]_(Free!vars) PROVE FreeInv'
  OBVIOUS
<1> USE DEF Free!lists, Free!elements, Free!thread
<1>1. ASSUME UNCHANGED Free!vars PROVE FreeInv'
  <2>1. UNCHANGED <<use, free, fHead, fTail, fSize, fNext, owner, held, fPc, mine, other>>
    BY <1>1 DEF Free!vars
  <2>2. SameUse /\ Free!Alive' = Free!Alive
    BY <2>1 DEF SameUse, Free!Alive
  <2>3. /\ Releasing' = Releasing /\ Linking' = Linking
        /\ \A t \in Taker : Free!Owns(t)' <=> Free!Owns(t)
    BY <2>1 DEF Releasing, Linking, Free!Owns
  <2>4. Out' = Out
    <3>1. \A x : x \in Out' <=> x \in Out
      BY <2>1, <2>3, OutIs
    <3>2. QED
      BY <3>1
  <2>5. \A x : (NobodysNext(x)' <=> NobodysNext(x)) /\ (Waits(x)' <=> Waits(x))
    BY <2>1, <2>2, <2>3 DEF NobodysNext, Waits
  <2>6. \A i : Long(i)' <=> Long(i)
    BY <2>1, <2>2 DEF Long
  <2>7. FreeTypes' /\ ByKind'
    BY <2>1, <2>2, <2>3, UseFixed DEF FreeInv, FreeTypes, ByKind
  <2>8. OutAlone' /\ LedToOnce'
    BY <2>1, <2>2, <2>3, <2>4, <2>5, UseFixed DEF FreeInv, OutAlone, LedToOnce
  <2>9. LastOnes' /\ Lengths'
    BY <2>1, <2>2, <2>3, <2>5, <2>6, UseFixed DEF FreeInv, LastOnes, Lengths
  <2>10. QED
    BY <2>7, <2>8, <2>9 DEF FreeInv
<1>2. ASSUME NEW t \in Free!User, Free!Step(t) PROVE FreeInv'
  <2>1. CASE \/ Free!GetSize(t) \/ Free!GetLost(t) \/ Free!GetNext(t) \/ Free!GetLast(t)
             \/ Free!GetCount(t) \/ Free!ReleaseCount(t) \/ Free!Caught(t)
    BY <2>1, QuietSteps
  <2>2. CASE Free!GetTake(t) \/ Free!GetBack(t) \/ Free!GetOpen(t)
    BY <2>2, GetTakeInv, GetBackInv, GetOpenInv
  <2>3. CASE Free!GetNew(t)
    BY <2>3, GiveNewInv DEF Free!GetNew, Free!Goto, SameUse
  <2>4. CASE Free!ReleaseFits(t)
    <3>1. CASE fSize[home[t]] < Free!marks.high
      BY <2>4, <3>1, QuietSteps
    <3>2. CASE ~(fSize[home[t]] < Free!marks.high)
      <4>1. /\ fPc[t] = "fits" /\ Free!Delete(mine[t]) /\ SameUse
            /\ fPc' = [fPc EXCEPT ![t] = "thrown"] /\ mine' = [mine EXCEPT ![t] = Null]
            /\ UNCHANGED <<fHead, fTail, fSize, other, held>>
        BY <2>4, <3>2 DEF Free!ReleaseFits, Free!Goto, SameUse
      <4>2. t \in Taker /\ mine[t] \notin held
        BY <4>1, OwnsKeeps DEF Free!User, FreeInv, OutAlone, Keeps
      <4>3. held' = held \ {mine[t]}
        BY <4>1, <4>2
      <4>4. QED
        BY <4>1, <4>3, DeleteInv
    <3>3. QED
      BY <3>1, <3>2
  <2>5. CASE Free!ReleaseSwap(t) \/ Free!ReleaseLink(t)
    BY <2>5, ReleaseSwapInv, ReleaseLinkInv
  <2>6. QED
    BY <1>2, <2>1, <2>2, <2>3, <2>4, <2>5 DEF Free!Step
<1>3. ASSUME NEW t \in Free!User, Free!GetDummy(t) \/ Free!GetNonSync(t) \/ Free!Get(t) PROVE FreeInv'
  <2>1. CASE Free!Get(t)
    BY <2>1, QuietSteps
  <2>2. CASE Free!GetDummy(t)
    <3>1. CASE use.void
      BY <1>1, <2>2, <3>1 DEF Free!GetDummy, Free!vars
    <3>2. CASE ~use.void
      <4>1. /\ Free!GiveNew(t) /\ SameUse /\ fPc' = fPc
            /\ UNCHANGED <<fHead, fTail, fSize, mine, other>>
        BY <2>2, <3>2 DEF Free!GetDummy, SameUse
      <4>2. fPc' = fPc \/ (fPc[t] = "new" /\ fPc' = [fPc EXCEPT ![t] = "idle"])
        BY <4>1
      <4>3. QED
        BY <4>1, <4>2, GiveNewInv
    <3>3. QED
      BY <3>1, <3>2
  <2>3. CASE Free!GetNonSync(t)
    <3>1. CASE fSize[free[t]] > Free!marks.low
      BY <2>3, <3>1, GetNonSyncInv
    <3>2. CASE ~(fSize[free[t]] > Free!marks.low)
      <4>1. /\ Free!GiveNew(t) /\ SameUse /\ fPc' = fPc
            /\ UNCHANGED <<fHead, fTail, fSize, mine, other>>
        BY <2>3, <3>2 DEF Free!GetNonSync, SameUse
      <4>2. fPc' = fPc \/ (fPc[t] = "new" /\ fPc' = [fPc EXCEPT ![t] = "idle"])
        BY <4>1
      <4>3. QED
        BY <4>1, <4>2, GiveNewInv
    <3>3. QED
      BY <3>1, <3>2
  <2>4. QED
    BY <1>3, <2>1, <2>2, <2>3
<1>4. ASSUME NEW t \in Free!User, NEW e \in held,
             Free!ReleaseDummy(t, e) \/ Free!ReleaseNonSync(t, e) \/ Free!Release(t, e)
      PROVE  FreeInv'
  <2>1. CASE Free!Release(t, e)
    BY <2>1, ReleaseInv
  <2>2. CASE Free!ReleaseDummy(t, e)
    BY <2>2, DeleteInv DEF Free!ReleaseDummy, SameUse
  <2>3. CASE Free!ReleaseNonSync(t, e)
    <3>1. CASE fSize[free[t]] < Free!marks.high
      BY <2>3, <3>1, ReleaseNonSyncInv
    <3>2. CASE ~(fSize[free[t]] < Free!marks.high)
      BY <2>3, <3>2, DeleteInv DEF Free!ReleaseNonSync, SameUse
    <3>3. QED
      BY <3>1, <3>2
  <2>4. QED
    BY <1>4, <2>1, <2>2, <2>3
<1>5. QED
  BY <1>1, <1>2, <1>3, <1>4 DEF Free!Next, Free!Call

(* The ends of the chains the constructors make, of h + 1 elements each.    *)
LEMMA EndOfChain ==
  ASSUME NEW h \in Nat, NEW k \in 0..2 * h + 1
  PROVE  (k + 1) % (h + 1) = 0 <=> k = h \/ k = 2 * h + 1
<1>1. PICK n \in Nat, m \in Nat : n = h + 1 /\ m = k + 1 /\ n > 0 /\ m > 0 /\ m <= n + n
  OBVIOUS
<1>2. CASE m < n
  <2>1. m % n = m
    BY <1>1, <1>2
  <2>2. QED
    BY <1>1, <1>2, <2>1
<1>3. CASE m = n
  <2>1. m % n = 0
    BY <1>1, <1>3
  <2>2. QED
    BY <1>1, <1>3, <2>1
<1>4. CASE m = n + n
  <2>1. m % n = 0
    BY <1>1, <1>4
  <2>2. QED
    BY <1>1, <1>4, <2>1
<1>5. CASE n < m /\ m < n + n
  <2>1. m % n = m - n
    BY <1>1, <1>5
  <2>2. QED
    BY <1>1, <1>5, <2>1
<1>6. QED
  BY <1>1, <1>2, <1>3, <1>4, <1>5

(* What the constructors leave: a chain for each list, or one in use and    *)
(* one lost, from element first to element last.                            *)
Made(h, first, last) ==
  /\ (first = 0 /\ last = h) \/ (Free!Sync /\ first = h + 1 /\ last = 2 * h + 1)
  /\ fHead = [i \in Free!Lists |-> <<i, first>>] /\ fTail = [i \in Free!Lists |-> <<i, last>>]
  /\ Free!Alive = Free!Lists \X (0..last)
  /\ \A i \in Free!Lists, k \in 0..last :
       fNext[<<i, k>>] = IF k = h \/ k = 2 * h + 1 THEN Null ELSE <<i, k + 1>>

(* The constructors, called once or twice.                                  *)
LEMMA InitMade ==
  ASSUME Free!Init, Free!Kind # "dummy"
  PROVE  \E h, first, last \in Nat : h = Free!marks.high /\ Made(h, first, last)
<1>1. PICK h \in Nat : h = Free!marks.high
  BY MarksAre DEF Free!Init
<1>2. PICK first \in Nat, last \in Nat :
        /\ (first = 0 /\ last = h) \/ (Free!Sync /\ first = h + 1 /\ last = 2 * h + 1)
        /\ first = (Free!Inits - 1) * (h + 1) /\ last = Free!Inits * (h + 1) - 1
  <2>1. CASE Free!Inits = 1
    BY <1>1, <2>1
  <2>2. CASE Free!Sync /\ Free!Inits = 2
    BY <1>1, <2>2
  <2>3. QED
    BY <2>1, <2>2 DEF Free!Inits
<1>3. \A i : Free!FirstOf(i) = <<i, first>> /\ Free!LastOf(i) = <<i, last>>
  BY <1>1, <1>2 DEF Free!FirstOf, Free!LastOf
<1>4. fHead = [i \in Free!Lists |-> <<i, first>>] /\ fTail = [i \in Free!Lists |-> <<i, last>>]
  BY <1>3 DEF Free!Init
<1>5. PICK C : /\ C = UNION {{<<i, k>> : k \in 0..Free!LastOf(i)[2]} : i \in Free!Lists}
               /\ fNext = [e \in C |-> IF (e[2] + 1) % (h + 1) = 0 THEN Null
                                       ELSE <<e[1], e[2] + 1>>]
  BY <1>1 DEF Free!Init
<1>6. \A x : x \in C <=> x \in Free!Lists \X (0..last)
  BY <1>3, <1>5
<1>7. C = Free!Lists \X (0..last)
  BY <1>6
<1>8. Free!Alive = C
  BY <1>5 DEF Free!Alive
<1>9. \A i \in Free!Lists, k \in 0..last :
        fNext[<<i, k>>] = IF k = h \/ k = 2 * h + 1 THEN Null ELSE <<i, k + 1>>
  <2>1. ASSUME NEW i \in Free!Lists, NEW k \in 0..last
        PROVE  fNext[<<i, k>>] = IF k = h \/ k = 2 * h + 1 THEN Null ELSE <<i, k + 1>>
    <3>1. <<i, k>> \in C /\ k \in 0..2 * h + 1
      BY <1>2, <1>7
    <3>2. fNext[<<i, k>>] = IF (k + 1) % (h + 1) = 0 THEN Null ELSE <<i, k + 1>>
      BY <1>5, <3>1
    <3>3. QED
      BY <3>1, <3>2, EndOfChain
  <2>2. QED
    BY <2>1
<1>10. Made(h, first, last)
  BY <1>2, <1>4, <1>7, <1>8, <1>9 DEF Made
<1>11. QED
  BY <1>1, <1>2, <1>10

(* Such chains satisfy the invariant.                                       *)
LEMMA InitFreeInv == Free!Init => FreeInv
<1> SUFFICES ASSUME Free!Init PROVE FreeInv
  OBVIOUS
<1>1. use \in Use /\ use \in Free!Uses /\ use.user \in [Taker -> Container \cup {Null}]
  BY UseAssumption DEF Free!Init, Free!Uses
<1>2. free \in [Free!User -> Container] /\ Free!Lists \subseteq Container
  <2>1. \A t \in Free!User : use.user[t] \in Container
    BY <1>1 DEF Free!User
  <2>2. free \in [Free!User -> Container]
    BY <2>1 DEF Free!Init
  <2>3. QED
    BY <2>2 DEF Free!Lists
<1>3. /\ held = {} /\ fPc = [t \in Taker |-> "idle"]
      /\ mine = [t \in Taker |-> Null] /\ other = [t \in Taker |-> Null]
      /\ DOMAIN fSize = Free!Lists /\ \A i \in Free!Lists : fSize[i] = Free!marks.high
  BY DEF Free!Init
<1>4. /\ \A t \in Taker : ~Free!Owns(t) /\ fPc[t] = "idle" /\ fPc[t] \notin Keeps
      /\ Out = {} /\ Linking = {} /\ Releasing = {}
  BY <1>3 DEF Free!Owns, Keeps, Out, Linking, Releasing
<1>5. CASE Free!Kind = "dummy"
  <2>1. /\ \A i \in Free!Lists : fHead[i] = Null /\ fTail[i] = Null
        /\ fHead = [i \in Free!Lists |-> Null] /\ fTail = [i \in Free!Lists |-> Null]
        /\ Free!Alive = {} /\ fNext = [e \in {} |-> Null] /\ owner = [e \in {} |-> Null]
    BY <1>5 DEF Free!Init, Free!Alive
  <2>2. FreeTypes
    BY <1>1, <1>2, <1>3, <2>1 DEF FreeTypes
  <2>3. QED
    BY <1>3, <1>4, <1>5, <2>1, <2>2
       DEF FreeInv, ByKind, OutAlone, LedToOnce, LastOnes, Lengths, NobodysNext
<1>6. CASE Free!Kind # "dummy"
  <2>1. PICK h \in Nat, first \in Nat, last \in Nat : h = Free!marks.high /\ Made(h, first, last)
    BY <1>6, InitMade
  <2>2. \A i \in Free!Lists : /\ fHead[i] = <<i, first>> /\ fTail[i] = <<i, last>>
                              /\ fHead[i] \in Free!Alive /\ fTail[i] \in Free!Alive
    BY <2>1 DEF Made
  <2>3. /\ (first = 0 /\ last = h) \/ (Free!Sync /\ first = h + 1 /\ last = 2 * h + 1)
        /\ Free!Alive = Free!Lists \X (0..last)
        /\ \A i \in Free!Lists, k \in 0..last :
             fNext[<<i, k>>] = IF k = h \/ k = 2 * h + 1 THEN Null ELSE <<i, k + 1>>
    BY <2>1 DEF Made
  <2>4. Free!Alive \subseteq Element /\ Null \notin Element
    BY <1>2, <2>1, UseAssumption DEF Made, Element
  <2>5. ASSUME NEW i \in Free!Lists, NEW k \in 0..last, k # h, k # 2 * h + 1
        PROVE  k + 1 \in 0..last /\ k + 1 # first
    <3>1. last = h \/ last = 2 * h + 1
      BY <2>3
    <3>2. first = 0 \/ first = h + 1
      BY <2>3
    <3>3. QED
      BY <2>5, <3>1, <3>2
  <2>6. \A i \in Free!Lists, k \in 0..last :
          /\ <<i, k>> \in Free!Alive
          /\ fNext[<<i, k>>] # Null => fNext[<<i, k>>] = <<i, k + 1>> /\ k + 1 \in 0..last
                                       /\ k + 1 # first
    <3>1. ASSUME NEW i \in Free!Lists, NEW k \in 0..last, fNext[<<i, k>>] # Null
          PROVE  fNext[<<i, k>>] = <<i, k + 1>> /\ k + 1 \in 0..last /\ k + 1 # first
      <4>1. k # h /\ k # 2 * h + 1 /\ fNext[<<i, k>>] = <<i, k + 1>>
        BY <2>3, <3>1
      <4>2. QED
        BY <2>5, <4>1
    <3>2. \A i \in Free!Lists, k \in 0..last : <<i, k>> \in Free!Alive
      BY <2>3
    <3>3. QED
      BY <3>1, <3>2
  <2>7. \A x \in Free!Alive : \E i \in Free!Lists, k \in 0..last : x = <<i, k>>
    BY <2>3
  <2>8. \A x \in Free!Alive :
          /\ fNext[x] \in Free!Alive \cup {Null}
          /\ \A i \in Free!Lists : fNext[x] # fHead[i]
          /\ \A y \in Free!Alive : fNext[x] = fNext[y] /\ fNext[x] # Null => x = y
    <3>1. ASSUME NEW x \in Free!Alive, fNext[x] # Null
          PROVE  /\ fNext[x] \in Free!Alive
                 /\ \A i \in Free!Lists : fNext[x] # fHead[i]
                 /\ \A y \in Free!Alive : fNext[x] = fNext[y] => x = y
      <4>1. PICK i \in Free!Lists, k \in 0..last : x = <<i, k>>
        BY <2>7
      <4>2. fNext[x] = <<i, k + 1>> /\ k + 1 \in 0..last /\ k + 1 # first
        BY <2>6, <3>1, <4>1
      <4>3. fNext[x] \in Free!Alive
        BY <2>6, <4>2
      <4>4. \A j \in Free!Lists : fNext[x] # fHead[j]
        BY <2>2, <4>2
      <4>5. ASSUME NEW y \in Free!Alive, fNext[x] = fNext[y] PROVE x = y
        <5>1. PICK j \in Free!Lists, l \in 0..last : y = <<j, l>>
          BY <2>7
        <5>2. fNext[y] = <<j, l + 1>>
          BY <2>6, <3>1, <4>5, <5>1
        <5>3. i = j /\ k + 1 = l + 1
          BY <4>2, <4>5, <5>2
        <5>4. k = l
          BY <5>3
        <5>5. QED
          BY <4>1, <5>1, <5>3, <5>4
      <4>6. QED
        BY <4>3, <4>4, <4>5
    <3>2. \A i \in Free!Lists : fHead[i] # Null
      BY <2>2, <2>4
    <3>3. QED
      BY <3>1, <3>2
  <2>9. \A i \in Free!Lists : Waits(fTail[i])
    <3>1. \A i \in Free!Lists : fNext[<<i, last>>] = Null
      <4>1. last \in 0..last /\ (last = h \/ last = 2 * h + 1)
        BY <2>3
      <4>2. QED
        BY <2>3, <4>1
    <3>2. QED
      BY <1>3, <1>4, <2>2, <3>1 DEF Waits
  <2>10. FreeTypes
    <3>1. /\ fNext \in [Free!Alive -> Free!Alive \cup {Null}]
          /\ owner \in [Free!Alive -> Free!Lists \cup {Null}]
      <4>1. PICK C : fNext = [e \in C |-> fNext[e]] /\ owner = [e \in C |-> Null]
        BY <1>6 DEF Free!Init
      <4>2. Free!Alive = C
        BY <4>1 DEF Free!Alive
      <4>3. QED
        BY <2>8, <4>1, <4>2
    <3>2. /\ fHead \in [Free!Lists -> Free!Alive \cup {Null}]
          /\ fTail \in [Free!Lists -> Element \cup {Null}]
      <4>1. fHead = [i \in Free!Lists |-> fHead[i]] /\ fTail = [i \in Free!Lists |-> fTail[i]]
        BY <2>1 DEF Made
      <4>2. QED
        BY <2>2, <2>4, <4>1
    <3>3. QED
      BY <1>1, <1>2, <1>3, <2>4, <3>1, <3>2 DEF FreeTypes
  <2>11. ByKind /\ OutAlone
    BY <1>3, <1>4, <1>6 DEF ByKind, OutAlone
  <2>12. LedToOnce /\ LastOnes
    BY <1>4, <2>2, <2>8, <2>9 DEF LedToOnce, LastOnes, NobodysNext, Keeps
  <2>13. Lengths
    <3>1. ASSUME Free!Kind = "nonsync", NEW i \in Free!Lists PROVE fSize[i] \in Nat /\ Long(i)
      <4>1. ~Free!Sync
        BY <3>1 DEF Free!Sync
      <4>2. first = 0 /\ last = h /\ fSize[i] = h
        BY <1>3, <2>1, <2>3, <4>1
      <4>3. PICK c : c = [k \in 0..h |-> <<i, k>>]
        OBVIOUS
      <4>4. \A k \in 0..h : c[k] = <<i, k>> /\ c[k] \in Free!Alive
        BY <2>6, <4>2, <4>3
      <4>5. c \in [0..h -> Free!Alive] /\ c[0] = fHead[i] /\ c[h] = fTail[i]
        BY <2>2, <4>2, <4>3, <4>4
      <4>6. ASSUME NEW k \in 0..h - 1 PROVE fNext[c[k]] = c[k + 1]
        <5>1. k \in 0..last /\ k + 1 \in 0..h /\ k # h /\ k # 2 * h + 1
          BY <4>2
        <5>2. QED
          BY <2>3, <4>4, <5>1
      <4>7. QED
        BY <4>2, <4>5, <4>6 DEF Long
    <3>2. QED
      BY <3>1 DEF Lengths
  <2>14. QED
    BY <2>10, <2>11, <2>12, <2>13 DEF FreeInv
<1>7. QED
  BY <1>5, <1>6

(* Only finitely many elements are alive. *)
LEMMA FiniteAlive ==
  ASSUME IsFiniteSet(Taker)
  PROVE  /\ Free!Init => IsFiniteSet(Free!Alive)
         /\ FreeInv /\ IsFiniteSet(Free!Alive) /\ [Free!Next]_(Free!vars)
              => IsFiniteSet(Free!Alive)'
<1>1. ASSUME Free!Init PROVE IsFiniteSet(Free!Alive)
  <2>1. CASE Free!Kind = "dummy"
    <3>1. Free!Alive = {}
      BY <1>1, <2>1 DEF Free!Init, Free!Alive
    <3>2. QED
      BY <3>1, FS_EmptySet
  <2>2. CASE Free!Kind # "dummy"
    <3>1. PICK h \in Nat, first \in Nat, last \in Nat : Made(h, first, last)
      BY <1>1, <2>2, InitMade
    <3>2. IsFiniteSet(Free!User)
      BY FS_Subset DEF Free!User
    <3>3. PICK f : f = [t \in Free!User |-> free[t]]
      OBVIOUS
    <3>4. f \in Surjection(Free!User, Free!Lists)
      BY <3>3 DEF Surjection, Free!Lists
    <3>5. IsFiniteSet(Free!Lists)
      BY <3>2, <3>4, FS_Surjection
    <3>6. IsFiniteSet(0..last)
      BY FS_Interval
    <3>7. IsFiniteSet(Free!Lists \X (0..last))
      BY <3>5, <3>6, FS_Product
    <3>8. QED
      BY <3>1, <3>7 DEF Made
  <2>3. QED
    BY <2>1, <2>2
<1>2. ASSUME FreeInv, IsFiniteSet(Free!Alive), [Free!Next]_(Free!vars)
      PROVE  IsFiniteSet(Free!Alive)'
  <2>1. \/ Free!Alive' = Free!Alive
        \/ \E n : Free!Alive' = Free!Alive \cup {n}
        \/ \E e : Free!Alive' = Free!Alive \ {e}
    <3> USE DEF Free!Alive
    <3>1. ASSUME UNCHANGED Free!vars PROVE Free!Alive' = Free!Alive
      BY <3>1 DEF Free!vars, Free!elements
    <3>2. ASSUME NEW t \in Free!User, Free!GiveNew(t)
          PROVE  \E n : Free!Alive' = Free!Alive \cup {n}
      BY <3>2 DEF Free!GiveNew
    <3>3. ASSUME NEW e, Free!Delete(e) PROVE \E x : Free!Alive' = Free!Alive \ {x}
      BY <3>3 DEF Free!Delete
    <3>4. ASSUME NEW t \in Free!User, Free!Step(t)
          PROVE  fNext' = fNext \/ Free!GiveNew(t) \/ (\E e : Free!Delete(e)) \/ DOMAIN fNext' = DOMAIN fNext
      BY <3>4 DEF Free!Step, Free!GetSize, Free!GetTake, Free!GetLost, Free!GetNext, Free!GetLast,
         Free!GetBack, Free!GetCount, Free!GetOpen, Free!GetNew, Free!ReleaseFits,
         Free!ReleaseSwap, Free!ReleaseLink, Free!ReleaseCount, Free!Caught, Free!elements
    <3>5. ASSUME NEW t \in Free!User, Free!Call(t)
          PROVE  fNext' = fNext \/ Free!GiveNew(t) \/ (\E e : Free!Delete(e)) \/ DOMAIN fNext' = DOMAIN fNext
      BY <3>5 DEF Free!Call, Free!GetDummy, Free!GetNonSync, Free!Get, Free!ReleaseDummy,
         Free!ReleaseNonSync, Free!Release, Free!elements
    <3>6. QED
      BY <1>2, <3>1, <3>2, <3>3, <3>4, <3>5 DEF Free!Next
  <2>2. QED
    BY <1>2, <2>1, FS_AddElement, FS_RemoveElement
<1>3. QED
  BY <1>1, <1>2

(* What a chain reaches, element by element: the function that Free!From    *)
(* defines exists.                                                          *)
LEMMA LeastNat ==
  ASSUME NEW N \in SUBSET Nat, N # {}
  PROVE  \E n \in N : \A m \in N : n <= m
<1>1. PICK n \in N : \A m \in N : <<m, n>> \notin OpToRel(<, Nat)
  BY NatLessThanWellFounded, WFMin, Zenon
<1>2. \A m \in N : ~(m < n)
  BY <1>1 DEF OpToRel
<1>3. QED
  BY <1>2

Then(s) == s \cup ({fNext[x] : x \in s \cap Free!Alive} \ {Null})
Reaches(n, e, f) == f = [k \in 0..n |-> IF k = 0 THEN {e} \ {Null} ELSE Then(f[k - 1])]

(* By induction on the number of steps: no n is the least without one.      *)
LEMMA ReachesSome == \A e : \A n \in Nat : \E f : Reaches(n, e, f)
<1> SUFFICES ASSUME NEW e PROVE \A n \in Nat : \E f : Reaches(n, e, f)
  OBVIOUS
<1> DEFINE Bad == {n \in Nat : ~\E f : Reaches(n, e, f)}
<1>1. \E f : Reaches(0, e, f)
  <2>1. Reaches(0, e, [k \in 0..0 |-> {e} \ {Null}])
    BY DEF Reaches
  <2>2. QED
    BY <2>1
<1>2. ASSUME NEW n \in Nat, NEW f, Reaches(n, e, f) PROVE \E g : Reaches(n + 1, e, g)
  <2>1. PICK g : g = [k \in 0..n + 1 |-> IF k = 0 THEN {e} \ {Null} ELSE Then(f[k - 1])]
    OBVIOUS
  <2>2. \A k \in 0..n : f[k] = IF k = 0 THEN {e} \ {Null} ELSE Then(f[k - 1])
    BY <1>2 DEF Reaches
  <2>3. ASSUME NEW k \in 0..n PROVE g[k] = f[k]
    <3>1. k \in 0..n + 1
      OBVIOUS
    <3>2. g[k] = IF k = 0 THEN {e} \ {Null} ELSE Then(f[k - 1])
      BY <2>1, <3>1
    <3>3. QED
      BY <2>2, <3>2
  <2>4. \A k \in 0..n + 1 : k # 0 => k - 1 \in 0..n /\ g[k - 1] = f[k - 1]
    BY <2>3
  <2>5. Reaches(n + 1, e, g)
    BY <2>1, <2>4 DEF Reaches
  <2>6. QED
    BY <2>5
<1>3. Bad = {}
  <2>1. SUFFICES ASSUME Bad # {} PROVE FALSE
    OBVIOUS
  <2>2. PICK n \in Bad : \A m \in Bad : n <= m
    BY <2>1, LeastNat
  <2>3. n # 0 /\ n - 1 \in Nat /\ n - 1 \notin Bad
    BY <1>1, <2>2
  <2>4. \E f : Reaches(n - 1 + 1, e, f)
    BY <1>2, <2>3
  <2>5. QED
    BY <2>2, <2>3, <2>4
<1>4. QED
  BY <1>3

(* That function gives the chain.                                           *)
LEMMA FromReaches ==
  ASSUME IsFiniteSet(Free!Alive), NEW e
  PROVE  \E f : Reaches(Cardinality(Free!Alive), e, f) /\ Free!From(e) = f[Cardinality(Free!Alive)]
<1>1. PICK n \in Nat : n = Cardinality(Free!Alive)
  BY FS_CardinalityType
<1>2. PICK f : f = CHOOSE g : Reaches(n, e, g)
  OBVIOUS
<1>3. Reaches(n, e, f)
  BY <1>2, ReachesSome
<1>4. Free!Cardinality(Free!Alive) = n
  BY <1>1 DEF Free!Cardinality, Cardinality
<1>5. Free!From(e) = f[n]
  BY <1>2, <1>4 DEF Free!From, Reaches, Then
<1>6. QED
  BY <1>1, <1>3, <1>5

(* Nothing that is out is in a chain.                                       *)
LEMMA OutInNoChain ==
  ASSUME FreeInv, IsFiniteSet(Free!Alive), NEW i \in Free!Lists
  PROVE  Free!Chain(i) \cap Out = {}
<1>1. PICK n \in Nat : n = Cardinality(Free!Alive)
  BY FS_CardinalityType
<1>2. PICK f : Reaches(n, fHead[i], f) /\ Free!Chain(i) = f[n]
  BY <1>1, FromReaches DEF Free!Chain
<1>3. /\ f[0] = {fHead[i]} \ {Null}
      /\ \A k \in 0..n : k # 0 => f[k] = Then(f[k - 1])
  <2>1. \A k \in 0..n : f[k] = IF k = 0 THEN {fHead[i]} \ {Null} ELSE Then(f[k - 1])
    BY <1>2 DEF Reaches
  <2>2. 0 \in 0..n
    BY <1>1
  <2>3. QED
    BY <2>1, <2>2
<1> DEFINE Bad == {k \in 0..n : f[k] \cap Out # {}}
<1>4. Bad = {}
  <2>1. SUFFICES ASSUME Bad # {} PROVE FALSE
    OBVIOUS
  <2>2. PICK k \in Bad : \A m \in Bad : k <= m
    <3>1. Bad \in SUBSET Nat
      BY <1>1
    <3>2. QED
      BY <2>1, <3>1, LeastNat
  <2>3. k # 0
    BY <1>3, <2>2 DEF FreeInv, OutAlone
  <2>4. k \in 0..n /\ k - 1 \in 0..n /\ k - 1 \notin Bad
    BY <2>2, <2>3
  <2>5. f[k - 1] \cap Out = {} /\ f[k] = Then(f[k - 1])
    BY <1>3, <2>3, <2>4
  <2>6. \A x \in Free!Alive : fNext[x] \notin Out
    BY DEF FreeInv, OutAlone, NobodysNext
  <2>7. f[k] \cap Out = {}
    BY <2>5, <2>6 DEF Then
  <2>8. QED
    BY <2>2, <2>7
<1>5. QED
  BY <1>1, <1>2, <1>4

(* The invariant is what the property needs.                                *)
LEMMA InvOneUser == FreeInv /\ IsFiniteSet(Free!Alive) => Free!OneUser
<1> SUFFICES ASSUME FreeInv, IsFiniteSet(Free!Alive) PROVE Free!OneUser
  OBVIOUS
<1>1. \A i \in Free!Lists :
        Free!Chain(i) \cap (held \cup {mine[t] : t \in {u \in Taker : Free!Owns(u)}}) = {}
  BY OutInNoChain DEF Out
<1>2. QED
  BY <1>1 DEF Free!OneUser, FreeInv, OutAlone
-----------------------------------------------------------------------------
(* No element is being released at the start.                               *)
LEMMA InitHomes == Free!Init => Homes
<1> SUFFICES ASSUME Free!Init PROVE Homes
  OBVIOUS
<1>1. /\ home = [t \in Taker |-> Null] /\ \A t \in Taker : fPc[t] = "idle"
      /\ DOMAIN owner = Free!Alive /\ \A x \in Free!Alive : owner[x] = Null
  BY DEF Free!Init, Free!Alive
<1>2. QED
  BY <1>1 DEF Homes

(* The rest is left alone by a step of t.                                   *)
LEMMA HomesKept ==
  ASSUME FreeInv, Homes, NEW t \in Free!User, SameUse, OthersSame(t),
         home' \in [Taker -> Container \cup {Null}], \A u \in Taker \ {t} : home'[u] = home[u],
         fPc'[t] \in {"fits", "swap", "link", "counted"} => home'[t] \in Free!Lists,
         fPc'[t] \in {"fits", "swap", "link"} =>
           mine'[t] \in Free!Alive' /\ owner'[mine'[t]] \in {Null, home'[t]},
         \A u \in Taker \ {t} : fPc[u] \in {"fits", "swap", "link"} =>
           mine[u] \in Free!Alive' /\ owner'[mine[u]] = owner[mine[u]],
         Free!Kind # "owner" => \A x \in Free!Alive' : owner'[x] = Null
  PROVE  Homes'
<1>1. \A u \in Taker : fPc'[u] \in {"fits", "swap", "link"} =>
        mine'[u] \in Free!Alive' /\ owner'[mine'[u]] \in {Null, home'[u]}
  BY DEF Homes, OthersSame
<1>2. \A u \in Taker : fPc'[u] \in {"fits", "swap", "link", "counted"} => home'[u] \in Free!Lists
  BY DEF Homes, OthersSame
<1>3. \A u \in Taker \ Free!User : fPc'[u] = "idle"
  BY DEF Homes, OthersSame
<1>4. QED
  BY <1>1, <1>2, <1>3, UseFixed DEF Homes

(* Elements released to a list are apart from those others take. *)
LEMMA ReleasedApart ==
  ASSUME FreeInv, NEW t \in Taker, NEW u \in Taker, t # u, fPc[t] \in Keeps,
         fPc[u] \in {"fits", "swap", "link"}
  PROVE  mine[u] # mine[t]
<1>1. Free!Owns(t) /\ mine[t] \in Out
  BY OwnsKeeps, OutIs
<1>2. CASE fPc[u] \in {"fits", "swap"}
  BY <1>1, <1>2, OwnsKeeps DEF Keeps, FreeInv, OutAlone
<1>3. CASE fPc[u] = "link"
  BY <1>1, <1>3 DEF FreeInv, LedToOnce, Linking
<1>4. QED
  BY <1>2, <1>3

(* Who releases to which list is kept by every step.                        *)
LEMMA StepHomes == FreeInv /\ Homes /\ [Free!Next]_(Free!vars) => Homes'
<1> SUFFICES ASSUME FreeInv, Homes, [Free!Next]_(Free!vars) PROVE Homes'
  OBVIOUS
<1> USE DEF Free!lists, Free!elements, Free!thread, Free!Goto
<1>1. ASSUME UNCHANGED Free!vars PROVE Homes'
  <2>1. UNCHANGED <<use, free, fNext, owner, fPc, mine, home>>
    BY <1>1 DEF Free!vars
  <2>2. SameUse /\ Free!Alive' = Free!Alive
    BY <2>1 DEF SameUse, Free!Alive
  <2>3. QED
    BY <2>1, <2>2, UseFixed DEF Homes
<1>2. ASSUME NEW t \in Free!User, Free!Step(t) PROVE Homes'
  <2>1. t \in Taker /\ FreeTypes
    BY DEF Free!User, FreeInv
  <2>2. CASE \/ Free!GetSize(t) \/ Free!GetTake(t) \/ Free!GetLost(t) \/ Free!GetNext(t)
             \/ Free!GetLast(t) \/ Free!GetBack(t) \/ Free!GetCount(t) \/ Free!Caught(t)
    <3>1. /\ SameUse /\ UNCHANGED <<fNext, owner, home>> /\ OthersSame(t)
          /\ fPc'[t] \in {"take", "new", "size", "next", "last", "count", "again", "back", "open", "idle"}
      BY <2>1, <2>2 DEF Free!GetSize, Free!GetTake, Free!GetLost, Free!GetNext, Free!GetLast,
         Free!GetBack, Free!GetCount, Free!Caught, SameUse, OthersSame, FreeTypes
    <3>2. Free!Alive' = Free!Alive
      BY <3>1 DEF Free!Alive
    <3>3. QED
      BY <3>1, <3>2, HomesKept DEF Homes
  <2>3. CASE Free!GetOpen(t)
    <3>1. /\ SameUse /\ home' = home /\ OthersSame(t) /\ fPc'[t] = "idle" /\ fPc[t] \in Keeps
          /\ fNext' = [fNext EXCEPT ![mine[t]] = Null]
          /\ owner' = owner \/ (Free!Kind = "owner" /\ owner' = [owner EXCEPT ![mine[t]] = free[t]])
      BY <2>1, <2>3 DEF Free!GetOpen, SameUse, OthersSame, FreeTypes, Keeps
    <3>2. Free!Alive' = Free!Alive
      BY <3>1 DEF Free!Alive
    <3>3. \A u \in Taker \ {t} : fPc[u] \in {"fits", "swap", "link"} =>
            mine[u] \in Free!Alive' /\ owner'[mine[u]] = owner[mine[u]]
      BY <2>1, <3>1, <3>2, ReleasedApart DEF Homes, FreeTypes
    <3>4. QED
      BY <3>1, <3>2, <3>3, HomesKept DEF Homes
  <2>4. CASE Free!GetNew(t)
    <3>1. /\ SameUse /\ home' = home /\ OthersSame(t) /\ fPc'[t] = "idle" /\ Free!GiveNew(t)
      BY <2>1, <2>4 DEF Free!GetNew, SameUse, OthersSame, FreeTypes
    <3>2. PICK n \in Free!Fresh :
            /\ fNext' = [e \in Free!Alive \cup {n} |-> IF e = n THEN Null ELSE fNext[e]]
            /\ owner' = [e \in Free!Alive \cup {n} |-> IF e = n THEN Free!OwnerFor(t) ELSE owner[e]]
      BY <3>1 DEF Free!GiveNew
    <3>3. n \notin Free!Alive /\ Free!Alive' = Free!Alive \cup {n}
      BY <3>2 DEF Free!Fresh, Free!Alive
    <3>4. /\ \A x \in Free!Alive : owner'[x] = owner[x]
          /\ owner'[n] = Free!OwnerFor(t)
      BY <3>2, <3>3
    <3>5. QED
      BY <3>1, <3>3, <3>4, HomesKept DEF Homes, Free!OwnerFor
  <2>5. CASE Free!ReleaseFits(t)
    <3>1. CASE fSize[home[t]] < Free!marks.high
      <4>1. /\ SameUse /\ UNCHANGED <<fNext, owner, mine, home>> /\ OthersSame(t)
            /\ fPc'[t] = "swap" /\ fPc[t] = "fits"
        BY <2>1, <2>5, <3>1 DEF Free!ReleaseFits, SameUse, OthersSame, FreeTypes
      <4>2. Free!Alive' = Free!Alive
        BY <4>1 DEF Free!Alive
      <4>3. QED
        BY <2>1, <4>1, <4>2, HomesKept DEF Homes
    <3>2. CASE ~(fSize[home[t]] < Free!marks.high)
      <4>1. /\ SameUse /\ OthersSame(t) /\ fPc'[t] = "thrown" /\ fPc[t] \in Keeps
            /\ home' = [home EXCEPT ![t] = Null] /\ Free!Delete(mine[t])
        BY <2>1, <2>5, <3>2 DEF Free!ReleaseFits, SameUse, OthersSame, FreeTypes, Keeps
      <4>2. /\ Free!Alive' = Free!Alive \ {mine[t]}
            /\ \A x \in Free!Alive' : owner'[x] = owner[x]
        BY <4>1 DEF Free!Alive, Free!Delete
      <4>3. \A u \in Taker \ {t} : fPc[u] \in {"fits", "swap", "link"} =>
              mine[u] \in Free!Alive' /\ owner'[mine[u]] = owner[mine[u]]
        BY <2>1, <4>1, <4>2, ReleasedApart DEF Homes
      <4>4. home' \in [Taker -> Container \cup {Null}] /\ \A u \in Taker \ {t} : home'[u] = home[u]
        BY <4>1 DEF Homes
      <4>5. QED
        BY <4>1, <4>2, <4>3, <4>4, HomesKept DEF Homes
    <3>3. QED
      BY <3>1, <3>2
  <2>6. CASE Free!ReleaseSwap(t) \/ Free!ReleaseLink(t)
    <3>1. /\ SameUse /\ UNCHANGED <<owner, mine, home>> /\ OthersSame(t)
          /\ DOMAIN fNext' = DOMAIN fNext
          /\ \/ fPc[t] = "swap" /\ fPc'[t] = "link"
             \/ fPc[t] = "link" /\ fPc'[t] = "counted"
      BY <2>1, <2>6 DEF Free!ReleaseSwap, Free!ReleaseLink, SameUse, OthersSame, FreeTypes
    <3>2. Free!Alive' = Free!Alive
      BY <3>1 DEF Free!Alive
    <3>3. QED
      BY <2>1, <3>1, <3>2, HomesKept DEF Homes
  <2>7. CASE Free!ReleaseCount(t)
    <3>1. /\ SameUse /\ UNCHANGED <<fNext, owner>> /\ OthersSame(t) /\ fPc'[t] = "thrown"
          /\ home' = [home EXCEPT ![t] = Null]
      BY <2>1, <2>7 DEF Free!ReleaseCount, SameUse, OthersSame, FreeTypes
    <3>2. Free!Alive' = Free!Alive
      BY <3>1 DEF Free!Alive
    <3>3. home' \in [Taker -> Container \cup {Null}] /\ \A u \in Taker \ {t} : home'[u] = home[u]
      BY <3>1 DEF Homes
    <3>4. QED
      BY <3>1, <3>2, <3>3, HomesKept DEF Homes
  <2>8. QED
    BY <1>2, <2>2, <2>3, <2>4, <2>5, <2>6, <2>7 DEF Free!Step
<1>3. ASSUME NEW t \in Free!User, NEW e \in held, Free!Release(t, e) PROVE Homes'
  <2>1. t \in Taker /\ FreeTypes
    BY DEF Free!User, FreeInv
  <2>2. /\ SameUse /\ UNCHANGED <<fNext, owner>> /\ OthersSame(t) /\ fPc'[t] = "fits"
        /\ mine'[t] = e /\ home' = [home EXCEPT ![t] = Free!HomeOf(t, e)]
    BY <1>3, <2>1 DEF Free!Release, SameUse, OthersSame, FreeTypes
  <2>3. Free!Alive' = Free!Alive /\ e \in Free!Alive
    BY <2>1, <2>2 DEF Free!Alive, FreeTypes
  <2>4. Free!HomeOf(t, e) \in Free!Lists /\ owner[e] \in {Null, Free!HomeOf(t, e)}
    <3>1. CASE Free!Kind = "owner"
      BY <3>1 DEF Free!HomeOf, FreeInv, ByKind
    <3>2. CASE Free!Kind # "owner"
      BY <2>3, <3>2 DEF Free!HomeOf, Free!Lists, Homes
    <3>3. QED
      BY <3>1, <3>2
  <2>5. /\ home' \in [Taker -> Container \cup {Null}] /\ home'[t] = Free!HomeOf(t, e)
        /\ \A u \in Taker \ {t} : home'[u] = home[u]
    <3>1. Free!Lists \subseteq Container
      BY <2>1 DEF FreeTypes, Free!Lists
    <3>2. QED
      BY <2>1, <2>2, <2>4, <3>1 DEF Homes
  <2>6. QED
    BY <2>2, <2>3, <2>4, <2>5, HomesKept DEF Homes
<1>4. ASSUME NEW t \in Free!User, Free!Get(t) PROVE Homes'
  <2>1. /\ t \in Taker /\ SameUse /\ UNCHANGED <<fNext, owner, home>> /\ OthersSame(t)
        /\ fPc'[t] = "size"
    BY <1>4 DEF Free!Get, SameUse, OthersSame, FreeTypes, FreeInv, Free!User
  <2>2. Free!Alive' = Free!Alive
    BY <2>1 DEF Free!Alive
  <2>3. QED
    BY <2>1, <2>2, HomesKept DEF Homes
<1>5. ASSUME ~Free!Sync, SameUse, UNCHANGED <<fPc, mine, home>>,
             Free!Kind # "owner" => \A x \in Free!Alive' : owner'[x] = Null
      PROVE  Homes'
  BY <1>5, UseFixed DEF Homes, FreeInv, ByKind
<1>6. ASSUME NEW t \in Free!User, Free!GetDummy(t) \/ Free!GetNonSync(t) PROVE Homes'
  <2>1. /\ ~Free!Sync /\ SameUse /\ UNCHANGED <<fPc, mine, home>>
        /\ (owner' = owner /\ DOMAIN fNext' = DOMAIN fNext) \/ Free!GiveNew(t)
    BY <1>6 DEF Free!GetDummy, Free!GetNonSync, SameUse, Free!Sync
  <2>2. CASE owner' = owner /\ DOMAIN fNext' = DOMAIN fNext
    BY <1>5, <2>1, <2>2 DEF Homes, Free!Alive
  <2>3. CASE Free!GiveNew(t)
    <3>1. PICK n \in Free!Fresh :
            /\ fNext' = [e \in Free!Alive \cup {n} |-> IF e = n THEN Null ELSE fNext[e]]
            /\ owner' = [e \in Free!Alive \cup {n} |-> IF e = n THEN Free!OwnerFor(t) ELSE owner[e]]
      BY <2>3 DEF Free!GiveNew
    <3>2. Free!Alive' = Free!Alive \cup {n}
      BY <3>1 DEF Free!Alive
    <3>3. QED
      BY <1>5, <2>1, <3>1, <3>2 DEF Homes, Free!OwnerFor, Free!Sync
  <2>4. QED
    BY <2>1, <2>2, <2>3
<1>7. ASSUME NEW t \in Free!User, NEW e \in held, Free!ReleaseDummy(t, e) \/ Free!ReleaseNonSync(t, e)
      PROVE  Homes'
  <2>1. /\ ~Free!Sync /\ SameUse /\ UNCHANGED <<fPc, mine, home>>
        /\ (owner' = owner /\ DOMAIN fNext' = DOMAIN fNext) \/ Free!Delete(e)
    BY <1>7 DEF Free!ReleaseDummy, Free!ReleaseNonSync, SameUse, Free!Sync
  <2>2. Free!Alive' \subseteq Free!Alive /\ \A x \in Free!Alive' : owner'[x] = owner[x]
    BY <2>1 DEF Free!Alive, Free!Delete
  <2>3. QED
    BY <1>5, <2>1, <2>2 DEF Homes
<1>8. QED
  BY <1>1, <1>2, <1>3, <1>4, <1>6, <1>7 DEF Free!Next, Free!Call

(* A thread at one of these steps has the head of its list for itself.      *)
Takes(t) == fPc[t] \in {"next", "last", "again", "back", "count", "open"}
TakenApart ==
  /\ \A t \in Free!User : Takes(t) => fHead[free[t]] = Null
  /\ \A t, u \in Free!User : Takes(t) /\ Takes(u) /\ free[t] = free[u] => t = u

(* One thread at a time takes a head: it was not 0, and is 0 until the      *)
(* thread puts an element there.                                            *)
LEMMA StepTaken == FreeInv /\ Homes /\ TakenApart /\ [Free!Next]_(Free!vars) => TakenApart'
<1> SUFFICES ASSUME FreeInv, Homes, TakenApart, [Free!Next]_(Free!vars) PROVE TakenApart'
  OBVIOUS
<1> USE DEF Free!lists, Free!elements, Free!thread, Free!Goto
<1>1. ASSUME UNCHANGED Free!vars PROVE TakenApart'
  <2>1. UNCHANGED <<use, free, fHead, fPc>> /\ SameUse
    BY <1>1 DEF Free!vars, SameUse
  <2>2. QED
    BY <2>1, UseFixed DEF TakenApart, Takes
<1>2. ASSUME SameUse, UNCHANGED fHead, \A u \in Free!User : Takes(u)' => Takes(u)
      PROVE  TakenApart'
  BY <1>2, UseFixed DEF TakenApart, SameUse
<1>3. ASSUME NEW t \in Free!User, Free!Step(t) PROVE TakenApart'
  <2>1. t \in Taker /\ FreeTypes
    BY DEF Free!User, FreeInv
  <2>2. CASE \/ Free!GetSize(t) \/ Free!GetLost(t) \/ Free!GetNext(t) \/ Free!GetLast(t)
             \/ Free!GetCount(t) \/ Free!GetNew(t) \/ Free!ReleaseFits(t) \/ Free!ReleaseSwap(t)
             \/ Free!ReleaseLink(t) \/ Free!ReleaseCount(t) \/ Free!Caught(t)
    <3>1. SameUse /\ UNCHANGED fHead
      BY <2>2 DEF Free!GetSize, Free!GetLost, Free!GetNext, Free!GetLast, Free!GetCount,
         Free!GetNew, Free!ReleaseFits, Free!ReleaseSwap, Free!ReleaseLink, Free!ReleaseCount,
         Free!Caught, SameUse
    <3>2. \/ Takes(t) /\ OthersSame(t)
          \/ OthersSame(t) /\ fPc'[t] \in {"take", "new", "size", "idle", "thrown", "swap", "link",
                                          "counted"}
      BY <2>1, <2>2 DEF Free!GetSize, Free!GetLost, Free!GetNext, Free!GetLast, Free!GetCount,
         Free!GetNew, Free!ReleaseFits, Free!ReleaseSwap, Free!ReleaseLink, Free!ReleaseCount,
         Free!Caught, Takes, OthersSame, FreeTypes
    <3>3. \A u \in Free!User : Takes(u)' => Takes(u)
      BY <3>2 DEF Takes, OthersSame, Free!User
    <3>4. QED
      BY <1>2, <3>1, <3>3
  <2>3. CASE Free!GetTake(t)
    <3>1. /\ fHead[free[t]] # Null /\ fHead' = [fHead EXCEPT ![free[t]] = Null] /\ SameUse
          /\ fPc' = [fPc EXCEPT ![t] = "next"]
      BY <2>3 DEF Free!GetTake, SameUse
    <3>2. \A u \in Free!User : Takes(u)' => u = t \/ (Takes(u) /\ free[u] # free[t])
      BY <2>1, <3>1 DEF Takes, TakenApart, FreeTypes
    <3>3. \A u \in Free!User : fHead[free[u]] = Null \/ u = t => fHead'[free[u]] = Null
      BY <2>1, <3>1 DEF FreeTypes, Free!Lists
    <3>4. QED
      BY <3>1, <3>2, <3>3, UseFixed DEF TakenApart, SameUse
  <2>4. CASE Free!GetBack(t) \/ Free!GetOpen(t)
    <3>1. /\ fHead' \in {[fHead EXCEPT ![free[t]] = mine[t]], [fHead EXCEPT ![free[t]] = other[t]]}
          /\ SameUse /\ Takes(t)
          /\ \E s \in {"size", "new", "idle"} : fPc' = [fPc EXCEPT ![t] = s]
      BY <2>4 DEF Free!GetBack, Free!GetOpen, SameUse, Takes
    <3>2. \A u \in Free!User : Takes(u)' => Takes(u) /\ u # t
      BY <2>1, <3>1 DEF Takes, FreeTypes
    <3>3. \A u \in Free!User : Takes(u)' => fHead'[free[u]] = fHead[free[u]]
      BY <2>1, <3>1, <3>2 DEF TakenApart, FreeTypes, Free!Lists
    <3>4. QED
      BY <3>1, <3>2, <3>3, UseFixed DEF TakenApart, SameUse
  <2>5. QED
    BY <1>3, <2>2, <2>3, <2>4 DEF Free!Step
<1>4. ASSUME NEW t \in Free!User, Free!Get(t) \/ \E e \in held : Free!Release(t, e) PROVE TakenApart'
  <2>1. SameUse /\ UNCHANGED fHead /\ \A u \in Free!User : Takes(u)' => Takes(u)
    BY <1>4 DEF Free!Get, Free!Release, SameUse, Takes, FreeInv, FreeTypes, Free!User
  <2>2. QED
    BY <1>2, <2>1
<1>5. ASSUME NEW t \in Free!User,
             \/ Free!GetDummy(t) \/ Free!GetNonSync(t)
             \/ \E e \in held : Free!ReleaseDummy(t, e) \/ Free!ReleaseNonSync(t, e)
      PROVE  TakenApart'
  <2>1. ~Free!Sync /\ SameUse /\ UNCHANGED fPc
    BY <1>5 DEF Free!GetDummy, Free!GetNonSync, Free!ReleaseDummy, Free!ReleaseNonSync, SameUse,
       Free!Sync
  <2>2. \A u \in Taker : ~Takes(u)'
    BY <2>1 DEF FreeInv, ByKind, Takes
  <2>3. QED
    BY <2>1, <2>2, UseFixed DEF TakenApart, Free!User
<1>6. QED
  BY <1>1, <1>3, <1>4, <1>5 DEF Free!Next, Free!Call

(* Threads that changed a list and not its size yet, and threads that are   *)
(* to give a list one more element.                                         *)
Owes(t, i) == \/ fPc[t] = "open" /\ free[t] = i
              \/ fPc[t] \in {"link", "counted"} /\ home[t] = i
Owing(i) == {t \in Free!User : Owes(t, i)}
Fits(t, i) == fPc[t] \in {"swap", "link", "counted"} /\ home[t] = i
Fitting(i) == {t \in Free!User : Fits(t, i)}
Gain(t, i) == IF fPc[t] = "open" /\ free[t] = i THEN -1
              ELSE IF fPc[t] = "swap" /\ home[t] = i THEN 1 ELSE 0

(* The number of members when at most one comes or goes.                    *)
LEMMA Members ==
  ASSUME NEW S, NEW T, NEW t, IsFiniteSet(S), \A u : u # t => (u \in T <=> u \in S)
  PROVE  /\ Cardinality(S) \in Nat /\ Cardinality(T) \in Nat /\ IsFiniteSet(T)
         /\ (t \in S <=> t \in T) => Cardinality(T) = Cardinality(S)
         /\ t \in T /\ t \notin S => Cardinality(T) = Cardinality(S) + 1
         /\ t \in S /\ t \notin T => Cardinality(T) = Cardinality(S) - 1
<1>1. CASE t \in S <=> t \in T
  <2>1. S = T
    BY <1>1
  <2>2. QED
    BY <1>1, <2>1, FS_CardinalityType
<1>2. CASE t \in T /\ t \notin S
  <2>1. T = S \cup {t}
    BY <1>2
  <2>2. QED
    BY <1>2, <2>1, FS_CardinalityType, FS_AddElement
<1>3. CASE t \in S /\ t \notin T
  <2>1. T = S \ {t}
    BY <1>3
  <2>2. QED
    BY <1>3, <2>1, FS_CardinalityType, FS_RemoveElement
<1>4. QED
  BY <1>1, <1>2, <1>3

(* What a step of a synchronised list counts.                               *)
SyncStep(t) == Free!Step(t) \/ Free!Get(t) \/ \E e \in held : Free!Release(t, e)

(* Where a step leads, and which size it counts.                            *)
LEMMA StepPlaces ==
  ASSUME FreeInv, Homes, NEW t \in Free!User, SyncStep(t)
  PROVE  /\ SameUse /\ OthersSame(t) /\ \A u \in Taker \ {t} : home'[u] = home[u]
         /\ home'[t] = home[t] \/ fPc'[t] \in {"fits", "thrown"}
         /\ fPc'[t] = "swap" => fPc[t] = "fits" /\ fSize[home[t]] < Free!marks.high
         /\ fPc'[t] = "open" <=> fPc[t] = "count"
         /\ fPc'[t] = "link" <=> fPc[t] = "swap"
         /\ fPc'[t] = "counted" <=> fPc[t] = "link"
         /\ DOMAIN fSize' = Free!Lists
         /\ \A i \in Free!Lists :
              fSize'[i] = IF fPc[t] = "count" /\ free[t] = i THEN fSize[i] - 1
                          ELSE IF fPc[t] = "counted" /\ home[t] = i THEN fSize[i] + 1
                          ELSE fSize[i]
<1> USE DEF Free!lists, Free!elements, Free!Goto
<1>1. t \in Taker /\ FreeTypes
  BY DEF Free!User, FreeInv
<1>2. CASE Free!GetSize(t) \/ Free!GetTake(t) \/ Free!GetLost(t) \/ Free!GetNext(t)
           \/ Free!GetLast(t) \/ Free!GetBack(t) \/ Free!GetOpen(t) \/ Free!GetNew(t)
  BY <1>1, <1>2 DEF Free!GetSize, Free!GetTake, Free!GetLost, Free!GetNext, Free!GetLast,
     Free!GetBack, Free!GetOpen, Free!GetNew, SameUse, OthersSame, FreeTypes
<1>3. CASE Free!GetCount(t)
  BY <1>1, <1>3 DEF Free!GetCount, SameUse, OthersSame, FreeTypes
<1>4. CASE Free!ReleaseFits(t) \/ Free!ReleaseSwap(t) \/ Free!ReleaseLink(t) \/ Free!Caught(t)
  BY <1>1, <1>4 DEF Free!ReleaseFits, Free!ReleaseSwap, Free!ReleaseLink, Free!Caught, SameUse,
     OthersSame, FreeTypes, Homes
<1>5. CASE Free!ReleaseCount(t)
  BY <1>1, <1>5 DEF Free!ReleaseCount, SameUse, OthersSame, FreeTypes, Homes
<1>6. CASE Free!Get(t) \/ \E e \in held : Free!Release(t, e)
  BY <1>1, <1>6 DEF Free!Get, Free!Release, SameUse, OthersSame, FreeTypes, Homes
<1>7. QED
  BY <1>2, <1>3, <1>4, <1>5, <1>6 DEF SyncStep, Free!Step

(* The size and the threads behind with it go together.                     *)
LEMMA Tallies ==
  ASSUME IsFiniteSet(Taker), FreeInv, Homes, NEW t \in Free!User, SyncStep(t), NEW i \in Free!Lists,
         fSize[i] \in Int
  PROVE  /\ fSize'[i] \in Int
         /\ fSize'[i] + Cardinality(Owing(i)') = fSize[i] + Cardinality(Owing(i)) + Gain(t, i)
<1>1. IsFiniteSet(Owing(i))
  BY FS_Subset DEF Owing, Free!User
<1>2. \A u : u # t => (u \in Owing(i)' <=> u \in Owing(i))
  BY StepPlaces, UseFixed DEF Owing, Owes, OthersSame, SameUse, Free!User
<1>3. t \in Owing(i)' <=> Owes(t, i)'
  BY StepPlaces, UseFixed DEF Owing
<1>4. t \in Owing(i) <=> Owes(t, i)
  BY DEF Owing
<1>5. /\ Cardinality(Owing(i)) \in Nat /\ Cardinality(Owing(i)') \in Nat
      /\ (Owes(t, i) <=> Owes(t, i)') => Cardinality(Owing(i)') = Cardinality(Owing(i))
      /\ Owes(t, i)' /\ ~Owes(t, i) => Cardinality(Owing(i)') = Cardinality(Owing(i)) + 1
      /\ Owes(t, i) /\ ~Owes(t, i)' => Cardinality(Owing(i)') = Cardinality(Owing(i)) - 1
  BY <1>1, <1>2, <1>3, <1>4, Members
<1>6. free' = free
  BY StepPlaces DEF SameUse
<1>7. /\ Owes(t, i)' <=> \/ fPc[t] = "count" /\ free[t] = i
                         \/ fPc[t] \in {"swap", "link"} /\ home[t] = i
  BY <1>6, StepPlaces DEF Owes
<1>8. QED
  BY <1>5, <1>7, StepPlaces DEF Owes, Gain

SizeBound == Free!Kind # "dummy" => \A i \in Free!Lists :
  /\ fSize[i] \in Int
  /\ fSize[i] + Cardinality(Fitting(i)) <= Free!marks.high + Cardinality(Free!User) - 1

(* A thread that saw room fits one element in.                              *)
LEMMA StepSizes ==
  ASSUME IsFiniteSet(Taker)
  PROVE  FreeInv /\ Homes /\ SizeBound /\ [Free!Next]_(Free!vars) => SizeBound'
<1> SUFFICES ASSUME FreeInv, Homes, SizeBound, [Free!Next]_(Free!vars) PROVE SizeBound'
  OBVIOUS
<1>1. IsFiniteSet(Free!User) /\ Cardinality(Free!User) \in Nat
  BY FS_Subset, FS_CardinalityType DEF Free!User
<1>2. Free!marks.high \in Nat
  BY MarksAre DEF FreeInv, FreeTypes
<1>3. ASSUME UNCHANGED Free!vars PROVE SizeBound'
  <2>1. UNCHANGED <<use, free, fSize, fPc, home>> /\ SameUse
    BY <1>3 DEF Free!vars, Free!lists, Free!thread, SameUse
  <2>2. \A i : Fitting(i)' = Fitting(i)
    BY <2>1, UseFixed DEF Fitting, Fits
  <2>3. QED
    BY <2>1, <2>2, UseFixed DEF SizeBound
<1>4. ASSUME NEW t \in Free!User, SyncStep(t) PROVE SizeBound'
  <2>1. ASSUME NEW i \in Free!Lists, Free!Kind # "dummy"
        PROVE  /\ fSize'[i] \in Int
               /\ fSize'[i] + Cardinality(Fitting(i)')
                    <= Free!marks.high + Cardinality(Free!User) - 1
    <3>1. IsFiniteSet(Fitting(i)) /\ Fitting(i) \subseteq Free!User
      BY <1>1, FS_Subset DEF Fitting
    <3>2. \A u : u # t => (u \in Fitting(i)' <=> u \in Fitting(i))
      BY <1>4, StepPlaces, UseFixed DEF Fitting, Fits, OthersSame, Free!User
    <3>3. t \in Fitting(i)' <=> Fits(t, i)'
      BY <1>4, StepPlaces, UseFixed DEF Fitting
    <3>4. t \in Fitting(i) <=> Fits(t, i)
      BY DEF Fitting
    <3>5. /\ Cardinality(Fitting(i)) \in Nat /\ Cardinality(Fitting(i)') \in Nat
          /\ (Fits(t, i) <=> Fits(t, i)') => Cardinality(Fitting(i)') = Cardinality(Fitting(i))
          /\ Fits(t, i)' /\ ~Fits(t, i) => Cardinality(Fitting(i)') = Cardinality(Fitting(i)) + 1
          /\ Fits(t, i) /\ ~Fits(t, i)' => Cardinality(Fitting(i)') = Cardinality(Fitting(i)) - 1
      BY <3>1, <3>2, <3>3, <3>4, Members
    <3>6. Fits(t, i)' => \/ Fits(t, i)
                         \/ fPc[t] = "fits" /\ home[t] = i /\ fSize[i] < Free!marks.high
      BY <1>4, StepPlaces DEF Fits
    <3>7. ~Fits(t, i) => Cardinality(Fitting(i)) <= Cardinality(Free!User) - 1
      <4>1. SUFFICES ASSUME ~Fits(t, i) PROVE Cardinality(Fitting(i)) <= Cardinality(Free!User) - 1
        OBVIOUS
      <4>2. Fitting(i) \subseteq Free!User \ {t}
        BY <3>1, <3>4, <4>1
      <4>3. /\ IsFiniteSet(Free!User \ {t})
            /\ Cardinality(Free!User \ {t}) = Cardinality(Free!User) - 1
        BY <1>1, FS_RemoveElement
      <4>4. QED
        BY <4>2, <4>3, FS_Subset
    <3>8. fSize[i] \in Int /\ fSize[i] + Cardinality(Fitting(i))
                                <= Free!marks.high + Cardinality(Free!User) - 1
      BY <2>1 DEF SizeBound
    <3>9. CASE fPc[t] = "counted" /\ home[t] = i
      <4>1. Fits(t, i) /\ ~Fits(t, i)' /\ fSize'[i] = fSize[i] + 1
        BY <1>4, <3>9, StepPlaces DEF Fits
      <4>2. QED
        BY <3>5, <3>8, <4>1
    <3>10. CASE ~(fPc[t] = "counted" /\ home[t] = i)
      <4>1. fSize'[i] \in Int /\ fSize'[i] <= fSize[i]
        BY <1>4, <3>8, <3>10, StepPlaces
      <4>2. CASE Fits(t, i)
        BY <1>1, <1>2, <3>5, <3>8, <4>1, <4>2
      <4>3. CASE ~Fits(t, i) /\ ~Fits(t, i)'
        BY <1>1, <1>2, <3>5, <3>8, <4>1, <4>3
      <4>4. CASE ~Fits(t, i) /\ Fits(t, i)'
        BY <1>1, <1>2, <3>5, <3>6, <3>7, <3>8, <4>1, <4>4
      <4>5. QED
        BY <4>2, <4>3, <4>4
    <3>11. QED
      BY <3>9, <3>10
  <2>2. SameUse
    BY <1>4, StepPlaces
  <2>3. QED
    BY <2>1, <2>2, UseFixed DEF SizeBound
<1>5. ASSUME NEW t \in Free!User,
             \/ Free!GetDummy(t) \/ Free!GetNonSync(t)
             \/ \E e \in held : Free!ReleaseDummy(t, e) \/ Free!ReleaseNonSync(t, e)
      PROVE  SizeBound'
  <2>1. /\ ~Free!Sync /\ SameUse /\ UNCHANGED <<fPc, home>>
        /\ \/ Free!Kind = "dummy" \/ fSize' = fSize
           \/ fSize' = [fSize EXCEPT ![free[t]] = @ - 1]
           \/ fSize[free[t]] < Free!marks.high /\ fSize' = [fSize EXCEPT ![free[t]] = @ + 1]
    <3> USE DEF SameUse, Free!Sync, Free!thread, Free!lists
    <3>1. CASE Free!GetDummy(t) \/ \E e \in held : Free!ReleaseDummy(t, e)
      BY <3>1 DEF Free!GetDummy, Free!ReleaseDummy
    <3>2. CASE Free!GetNonSync(t)
      BY <3>2 DEF Free!GetNonSync
    <3>3. CASE \E e \in held : Free!ReleaseNonSync(t, e)
      BY <3>3 DEF Free!ReleaseNonSync
    <3>4. QED
      BY <1>5, <3>1, <3>2, <3>3
  <2>2. \A i : Fitting(i) = {} /\ Fitting(i)' = {}
    BY <2>1, UseFixed DEF FreeInv, ByKind, Fitting, Fits, Free!User
  <2>3. /\ \A i : Cardinality(Fitting(i)) = 0 /\ Cardinality(Fitting(i)') = 0
        /\ Cardinality(Free!User) # 0
    BY <1>1, <2>2, FS_EmptySet
  <2>4. ASSUME NEW i \in Free!Lists, Free!Kind # "dummy"
        PROVE  fSize'[i] \in Int /\ fSize'[i] <= Free!marks.high + Cardinality(Free!User) - 1
    <3>1. fSize[i] \in Int /\ fSize[i] <= Free!marks.high + Cardinality(Free!User) - 1
      <4>1. fSize[i] \in Int /\ fSize[i] + Cardinality(Fitting(i))
                                  <= Free!marks.high + Cardinality(Free!User) - 1
        BY <2>4 DEF SizeBound
      <4>2. QED
        BY <1>1, <1>2, <2>3, <4>1
    <3>2. QED
      BY <1>1, <1>2, <2>1, <2>3, <2>4, <3>1 DEF FreeInv, FreeTypes
  <2>5. ASSUME NEW i \in Free!Lists, Free!Kind # "dummy"
        PROVE  /\ fSize'[i] \in Int
               /\ fSize'[i] + Cardinality(Fitting(i)') <= Free!marks.high + Cardinality(Free!User) - 1
    BY <1>1, <1>2, <2>3, <2>4, <2>5
  <2>6. QED
    BY <2>1, <2>5, UseFixed DEF SizeBound
<1>6. QED
  BY <1>3, <1>4, <1>5 DEF Free!Next, Free!Call, SyncStep
-----------------------------------------------------------------------------
(* A list amid calls: a line of elements from its head, or from the one a   *)
(* thread took off it, to its tail, though a link may not be written yet.   *)
Front(i, x) == \/ fHead[i] = x
               \/ \E t \in Free!User : Takes(t) /\ free[t] = i /\ mine[t] = x
Follows(x, y) == fNext[x] = y \/ \E t \in Linking : other[t] = x /\ mine[t] = y
Line(i, n, q) ==
  /\ q \in [0..n -> Free!Alive] /\ Front(i, q[0]) /\ q[n] = fTail[i]
  /\ \A k \in 0..n - 1 : Follows(q[k], q[k + 1])
  /\ \A k \in 0..n : owner[q[k]] \in {Null, i}
Lined(i, n) == \E q : Line(i, n, q)

(* What a thread has is in no line, unless it took it off its front.        *)
LEMMA LineApart ==
  ASSUME FreeInv, TakenApart, NEW i \in Free!Lists, NEW n \in Nat, NEW q, Line(i, n, q),
         NEW t \in Free!User, fPc[t] \in Keeps, NEW k \in 0..n, q[k] = mine[t]
  PROVE  k = 0 /\ Takes(t) /\ free[t] = i
<1>1. t \in Taker /\ Free!Owns(t) /\ mine[t] \in Out
  BY OwnsKeeps, OutIs DEF Free!User
<1>2. k = 0
  <2>1. SUFFICES ASSUME k # 0 PROVE FALSE
    OBVIOUS
  <2>2. k - 1 \in 0..n - 1 /\ q[k - 1] \in Free!Alive /\ (k - 1) + 1 = k
    BY <2>1 DEF Line
  <2>3. Follows(q[k - 1], mine[t])
    BY <2>2 DEF Line
  <2>4. fNext[q[k - 1]] # mine[t]
    BY <1>1, <2>2 DEF FreeInv, OutAlone, NobodysNext
  <2>5. \A u \in Linking : mine[u] # mine[t]
    BY <1>1 DEF FreeInv, LedToOnce
  <2>6. QED
    BY <2>3, <2>4, <2>5 DEF Follows
<1>3. Front(i, mine[t])
  BY <1>2 DEF Line
<1>4. fHead[i] # mine[t]
  BY <1>1 DEF FreeInv, OutAlone
<1>5. PICK u \in Free!User : Takes(u) /\ free[u] = i /\ mine[u] = mine[t]
  BY <1>3, <1>4 DEF Front
<1>6. Free!Owns(u) /\ u \in Taker
  BY <1>5, OwnsKeeps DEF Takes, Keeps, Free!User
<1>7. u = t
  BY <1>1, <1>5, <1>6 DEF FreeInv, OutAlone
<1>8. QED
  BY <1>2, <1>5, <1>7

(* What a step of t leaves as it was. *)
LEMMA LineKept ==
  ASSUME NEW i \in Free!Lists, NEW n \in Nat, NEW q, Line(i, n, q), Front(i, q[0])',
         fTail'[i] = fTail[i],
         \A k \in 0..n : q[k] \in Free!Alive' /\ owner'[q[k]] = owner[q[k]],
         \A k \in 0..n - 1 : Follows(q[k], q[k + 1])'
  PROVE  Line(i, n, q)'
<1>1. q \in [0..n -> Free!Alive']
  BY DEF Line
<1>2. QED
  BY <1>1 DEF Line

(* A step of a thread not about to link takes no link of an element it does *)
(* not write to.                                                            *)
LEMMA FollowsKept ==
  ASSUME NEW t \in Free!User, OthersSame(t), t \notin Linking,
         NEW x, NEW y, fNext'[x] = fNext[x], Follows(x, y)
  PROVE  Follows(x, y)'
<1>1. \A u \in Linking : u \in Linking' /\ other'[u] = other[u] /\ mine'[u] = mine[u]
  BY DEF OthersSame, Linking
<1>2. QED
  BY <1>1 DEF Follows

(* The front stays unless t is at it.                                       *)
LEMMA FrontKept ==
  ASSUME NEW t \in Free!User, SameUse, OthersSame(t), NEW i \in Free!Lists, NEW x, Front(i, x),
         fHead'[i] = fHead[i],
         Takes(t) /\ free[t] = i => Takes(t)' /\ mine'[t] = mine[t]
  PROVE  Front(i, x)'
<1>1. ASSUME NEW u \in Free!User, Takes(u), free[u] = i, mine[u] = x
      PROVE  Takes(u)' /\ free'[u] = i /\ mine'[u] = x
  BY <1>1 DEF OthersSame, SameUse, Takes, Free!User
<1>2. QED
  BY <1>1, UseFixed DEF Front

(* Steps that leave the line of a list alone.                               *)
LEMMA LineAlone ==
  ASSUME FreeInv, NEW t \in Free!User, SameUse, OthersSame(t), t \notin Linking,
         NEW i \in Free!Lists, NEW n \in Nat, NEW q, Line(i, n, q),
         fHead'[i] = fHead[i], fTail'[i] = fTail[i],
         Takes(t) /\ free[t] = i => Takes(t)' /\ mine'[t] = mine[t],
         \A k \in 0..n : /\ q[k] \in Free!Alive' /\ owner'[q[k]] = owner[q[k]]
                         /\ fNext'[q[k]] = fNext[q[k]]
  PROVE  Line(i, n, q)'
<1>1. Front(i, q[0])'
  <2>1. Front(i, q[0])
    BY DEF Line
  <2>2. QED
    BY <2>1, FrontKept
<1>2. \A k \in 0..n - 1 : Follows(q[k], q[k + 1])'
  <2>1. ASSUME NEW k \in 0..n - 1 PROVE Follows(q[k], q[k + 1])'
    <3>1. k \in 0..n /\ Follows(q[k], q[k + 1])
      BY DEF Line
    <3>2. QED
      BY <3>1, FollowsKept
  <2>2. QED
    BY <2>1
<1>3. QED
  BY <1>1, <1>2, LineKept

(* Steps that write to no element and no end.                               *)
LEMMA LineQuiet ==
  ASSUME FreeInv, NEW t \in Free!User, NEW i \in Free!Lists, NEW n \in Nat, NEW q, Line(i, n, q),
         \/ Free!Get(t) \/ Free!GetSize(t) \/ Free!GetLost(t) \/ Free!GetNext(t) \/ Free!GetLast(t)
         \/ Free!GetCount(t) \/ Free!ReleaseCount(t) \/ Free!Caught(t)
         \/ \E e \in held : Free!Release(t, e)
         \/ Free!ReleaseFits(t) /\ fSize[home[t]] < Free!marks.high
  PROVE  Line(i, n, q)'
<1> USE DEF Free!lists, Free!elements, Free!Goto
<1>1. t \in Taker /\ FreeTypes
  BY DEF Free!User, FreeInv
<1>2. /\ UNCHANGED <<fHead, fTail, fNext, owner>> /\ SameUse /\ OthersSame(t) /\ fPc[t] # "link"
      /\ Takes(t) => Takes(t)' /\ mine'[t] = mine[t]
  <2>1. CASE \/ Free!Get(t) \/ Free!GetSize(t) \/ Free!GetLost(t) \/ Free!GetNext(t)
             \/ Free!GetLast(t) \/ Free!GetCount(t) \/ Free!Caught(t)
    BY <1>1, <2>1 DEF Free!Get, Free!GetSize, Free!GetLost, Free!GetNext, Free!GetLast,
       Free!GetCount, Free!Caught, SameUse, OthersSame, FreeTypes, Takes
  <2>2. CASE Free!ReleaseCount(t) \/ \E e \in held : Free!Release(t, e)
    BY <1>1, <2>2 DEF Free!ReleaseCount, Free!Release, SameUse, OthersSame, FreeTypes, Takes
  <2>3. CASE Free!ReleaseFits(t) /\ fSize[home[t]] < Free!marks.high
    BY <1>1, <2>3 DEF Free!ReleaseFits, SameUse, OthersSame, FreeTypes, Takes
  <2>4. QED
    BY <2>1, <2>2, <2>3
<1>3. t \notin Linking /\ Free!Alive' = Free!Alive
  BY <1>2 DEF Linking, Free!Alive
<1>4. \A k \in 0..n : /\ q[k] \in Free!Alive' /\ owner'[q[k]] = owner[q[k]]
                      /\ fNext'[q[k]] = fNext[q[k]]
  BY <1>2, <1>3 DEF Line
<1>5. QED
  BY <1>2, <1>3, <1>4, LineAlone

(* A new element is in no line.                                             *)
LEMMA LineGiveNew ==
  ASSUME FreeInv, NEW t \in Free!User, NEW i \in Free!Lists, NEW n \in Nat, NEW q, Line(i, n, q),
         Free!GetNew(t)
  PROVE  Line(i, n, q)'
<1>1. t \in Taker /\ FreeTypes
  BY DEF Free!User, FreeInv
<1>2. /\ UNCHANGED <<fHead, fTail>> /\ SameUse /\ OthersSame(t) /\ ~Takes(t) /\ t \notin Linking
      /\ Free!GiveNew(t)
  BY <1>1 DEF Free!GetNew, Free!lists, Free!Goto, SameUse, OthersSame, FreeTypes, Takes, Linking
<1>3. PICK x \in Free!Fresh :
        /\ fNext' = [e \in Free!Alive \cup {x} |-> IF e = x THEN Null ELSE fNext[e]]
        /\ owner' = [e \in Free!Alive \cup {x} |-> IF e = x THEN Free!OwnerFor(t) ELSE owner[e]]
  BY <1>2 DEF Free!GiveNew
<1>4. x \notin Free!Alive /\ Free!Alive' = Free!Alive \cup {x}
  BY <1>3 DEF Free!Fresh, Free!Alive
<1>5. \A e \in Free!Alive : fNext'[e] = fNext[e] /\ owner'[e] = owner[e] /\ e \in Free!Alive'
  BY <1>3, <1>4
<1>6. \A k \in 0..n : q[k] \in Free!Alive
  BY DEF Line
<1>7. \A k \in 0..n : /\ q[k] \in Free!Alive' /\ owner'[q[k]] = owner[q[k]]
                      /\ fNext'[q[k]] = fNext[q[k]]
  BY <1>5, <1>6
<1>8. QED
  BY <1>2, <1>7, LineAlone

(* Nor is one that is deleted.                                              *)
LEMMA LineDelete ==
  ASSUME FreeInv, TakenApart, NEW t \in Free!User, NEW i \in Free!Lists, NEW n \in Nat, NEW q,
         Line(i, n, q), Free!ReleaseFits(t), ~(fSize[home[t]] < Free!marks.high)
  PROVE  Line(i, n, q)'
<1>1. t \in Taker /\ FreeTypes
  BY DEF Free!User, FreeInv
<1>2. /\ UNCHANGED <<fHead, fTail>> /\ SameUse /\ OthersSame(t) /\ ~Takes(t) /\ t \notin Linking
      /\ fPc[t] \in Keeps /\ Free!Delete(mine[t])
  BY <1>1 DEF Free!ReleaseFits, Free!lists, Free!Goto, SameUse, OthersSame, FreeTypes, Takes,
     Linking, Keeps
<1>3. Free!Alive' = Free!Alive \ {mine[t]}
      /\ \A e \in Free!Alive' : fNext'[e] = fNext[e] /\ owner'[e] = owner[e]
  BY <1>2 DEF Free!Delete, Free!Alive
<1>4. \A k \in 0..n : q[k] \in Free!Alive /\ q[k] # mine[t]
  BY <1>2, LineApart DEF Line
<1>5. \A k \in 0..n : /\ q[k] \in Free!Alive' /\ owner'[q[k]] = owner[q[k]]
                      /\ fNext'[q[k]] = fNext[q[k]]
  BY <1>3, <1>4
<1>6. QED
  BY <1>2, <1>5, LineAlone

(* The front goes from the head to the thread, and back.                    *)
LEMMA LineTake ==
  ASSUME FreeInv, TakenApart, NEW t \in Free!User, NEW i \in Free!Lists, NEW n \in Nat, NEW q,
         Line(i, n, q), Free!GetTake(t) \/ Free!GetBack(t)
  PROVE  Line(i, n, q)'
<1>1. t \in Taker /\ FreeTypes
  BY DEF Free!User, FreeInv
<1>2. /\ UNCHANGED <<fTail, fNext, owner>> /\ SameUse /\ OthersSame(t) /\ t \notin Linking
      /\ Free!Alive' = Free!Alive
      /\ \A j \in Free!Lists \ {free[t]} : fHead'[j] = fHead[j]
  BY <1>1 DEF Free!GetTake, Free!GetBack, Free!lists, Free!elements, Free!Goto, SameUse,
     OthersSame, FreeTypes, Linking, Free!Alive
<1>3. \A k \in 0..n : /\ q[k] \in Free!Alive' /\ owner'[q[k]] = owner[q[k]]
                      /\ fNext'[q[k]] = fNext[q[k]]
  BY <1>2 DEF Line
<1>4. CASE i # free[t]
  BY <1>2, <1>3, <1>4, LineAlone
<1>5. CASE i = free[t]
  <2>1. Front(i, q[0]) /\ q[0] # Null
    BY NullNoElement DEF Line
  <2>2. Front(i, q[0])'
    <3>1. CASE Free!GetTake(t)
      <4>1. /\ fHead[i] # Null /\ Takes(t)' /\ mine'[t] = fHead[i]
        BY <1>1, <1>5, <3>1 DEF Free!GetTake, Free!Goto, FreeTypes, Takes
      <4>2. q[0] = fHead[i]
        BY <2>1, <4>1 DEF Front, TakenApart
      <4>3. free'[t] = i /\ t \in Free!User'
        BY <1>2, <1>5, UseFixed DEF SameUse
      <4>4. QED
        BY <4>1, <4>2, <4>3 DEF Front
    <3>2. CASE Free!GetBack(t)
      <4>1. Takes(t) /\ fHead'[i] = mine[t]
        BY <1>1, <1>5, <3>2 DEF Free!GetBack, Free!Goto, FreeTypes, Takes
      <4>2. q[0] = mine[t]
        BY <1>5, <2>1, <4>1 DEF Front, TakenApart
      <4>3. QED
        BY <4>1, <4>2 DEF Front
    <3>3. QED
      BY <3>1, <3>2
  <2>3. \A k \in 0..n - 1 : Follows(q[k], q[k + 1])'
    <3>1. ASSUME NEW k \in 0..n - 1 PROVE Follows(q[k], q[k + 1])'
      <4>1. k \in 0..n /\ Follows(q[k], q[k + 1])
        BY DEF Line
      <4>2. QED
        BY <1>2, <1>3, <4>1, FollowsKept
    <3>2. QED
      BY <3>1
  <2>4. QED
    BY <1>2, <1>3, <2>2, <2>3, LineKept
<1>6. QED
  BY <1>4, <1>5

(* The first element of its list is cut off, the second becomes the head.   *)
LEMMA LineOpen ==
  ASSUME FreeInv, TakenApart, NEW t \in Free!User, NEW i \in Free!Lists, NEW n \in Nat, NEW q,
         Line(i, n, q), Free!GetOpen(t)
  PROVE  /\ free[t] # i => Lined(i, n)'
         /\ free[t] = i => n # 0 /\ Lined(i, n - 1)'
<1>1. t \in Taker /\ FreeTypes
  BY DEF Free!User, FreeInv
<1>2. /\ fPc[t] = "open" /\ fNext' = [fNext EXCEPT ![mine[t]] = Null]
      /\ fHead' = [fHead EXCEPT ![free[t]] = other[t]] /\ fTail' = fTail
      /\ owner' = owner \/ owner' = [owner EXCEPT ![mine[t]] = free[t]]
      /\ SameUse /\ OthersSame(t) /\ ~Takes(t)'
  BY <1>1 DEF Free!GetOpen, Free!Goto, SameUse, OthersSame, FreeTypes, Takes
<1>3. /\ t \notin Linking /\ Free!Alive' = Free!Alive /\ fPc[t] \in Keeps /\ Takes(t)
      /\ \A x \in Free!Alive : x # mine[t] => fNext'[x] = fNext[x] /\ owner'[x] = owner[x]
  BY <1>1, <1>2 DEF Linking, Free!Alive, Keeps, Takes, FreeTypes
<1>4. \A k \in 0..n : q[k] \in Free!Alive
  BY DEF Line
<1>5. ASSUME free[t] # i PROVE Lined(i, n)'
  <2>1. \A k \in 0..n : q[k] # mine[t]
    BY <1>3, <1>5, LineApart
  <2>2. fHead'[i] = fHead[i] /\ fTail'[i] = fTail[i]
    BY <1>1, <1>2, <1>5 DEF FreeTypes
  <2>3. \A k \in 0..n : /\ q[k] \in Free!Alive' /\ owner'[q[k]] = owner[q[k]]
                        /\ fNext'[q[k]] = fNext[q[k]]
    BY <1>3, <1>4, <2>1
  <2>4. Line(i, n, q)'
    BY <1>2, <1>3, <1>5, <2>2, <2>3, LineAlone
  <2>5. QED
    BY <2>4 DEF Lined
<1>6. ASSUME free[t] = i PROVE n # 0 /\ Lined(i, n - 1)'
  <2>1. q[0] = mine[t] /\ \A k \in 0..n : k # 0 => q[k] # mine[t]
    <3>1. q[0] \in Free!Alive /\ q[0] # Null /\ Front(i, q[0])
      BY <1>4, NullNoElement DEF Line
    <3>2. q[0] = mine[t]
      BY <1>3, <1>6, <3>1 DEF Front, TakenApart
    <3>3. QED
      BY <1>3, <3>2, LineApart
  <2>2. fNext[mine[t]] = other[t] /\ other[t] # Null
    BY <1>1, <1>2 DEF FreeInv, LedToOnce
  <2>3. Free!Sync /\ Free!Kind # "dummy"
    BY <1>1, <1>2, BusyIsSync DEF Free!Sync
  <2>4. n # 0
    <3>1. fNext[fTail[i]] = Null
      BY <2>3 DEF FreeInv, LastOnes, Waits
    <3>2. q[n] = fTail[i]
      BY DEF Line
    <3>3. QED
      BY <2>1, <2>2, <3>1, <3>2
  <2>5. PICK p : p = [k \in 0..n - 1 |-> q[k + 1]]
    OBVIOUS
  <2>6. \A k \in 0..n - 1 : /\ k + 1 \in 0..n /\ p[k] = q[k + 1] /\ p[k] \in Free!Alive
                            /\ p[k] # mine[t]
    <3>1. \A k \in 0..n - 1 : k + 1 \in 0..n /\ k + 1 # 0
      OBVIOUS
    <3>2. QED
      BY <1>4, <2>1, <2>5, <3>1
  <2>7. n - 1 \in Nat /\ 0 \in 0..n - 1 /\ n - 1 \in 0..n - 1 /\ 0 \in 0..n
    BY <2>4
  <2>8. q[1] = other[t]
    <3>1. Follows(q[0], q[0 + 1])
      BY <2>7 DEF Line
    <3>2. \A u \in Linking : fNext[other[u]] = Null
      BY DEF FreeInv, LastOnes, Waits
    <3>3. QED
      BY <2>1, <2>2, <3>1, <3>2 DEF Follows
  <2>9. Front(i, p[0])'
    <3>1. fHead'[i] = other[t]
      BY <1>1, <1>2, <1>6 DEF FreeTypes
    <3>2. p[0] = q[0 + 1]
      BY <2>6, <2>7
    <3>3. QED
      BY <2>8, <3>1, <3>2 DEF Front
  <2>10. p[n - 1] = fTail'[i]
    <3>1. p[n - 1] = q[n - 1 + 1]
      BY <2>6, <2>7
    <3>2. QED
      BY <1>2, <3>1 DEF Line
  <2>11. ASSUME NEW k \in 0..n - 1 - 1 PROVE Follows(p[k], p[k + 1])'
    <3>1. k \in 0..n - 1 /\ k + 1 \in 0..n - 1
      BY <2>7
    <3>2. Follows(q[k + 1], q[k + 1 + 1]) /\ p[k] = q[k + 1] /\ p[k + 1] = q[k + 1 + 1]
      BY <2>6, <3>1 DEF Line
    <3>3. fNext'[p[k]] = fNext[p[k]]
      BY <1>3, <2>6, <3>1
    <3>4. QED
      BY <1>2, <1>3, <3>2, <3>3, FollowsKept
  <2>12. \A k \in 0..n - 1 : owner'[p[k]] \in {Null, i}
    <3>1. \A k \in 0..n : owner[q[k]] \in {Null, i}
      BY DEF Line
    <3>2. QED
      BY <1>3, <2>6, <3>1
  <2>13. p \in [0..n - 1 -> Free!Alive']
    BY <1>3, <2>5, <2>6
  <2>14. Line(i, n - 1, p)'
    BY <2>9, <2>10, <2>11, <2>12, <2>13 DEF Line
  <2>15. QED
    BY <2>4, <2>14 DEF Lined
<1>7. QED
  BY <1>5, <1>6

(* An element is put behind the tail: in the line at once, though the old   *)
(* tail gets its next later.                                                *)
LEMMA LineSwap ==
  ASSUME FreeInv, Homes, TakenApart, NEW t \in Free!User, NEW i \in Free!Lists, NEW n \in Nat, NEW q,
         Line(i, n, q), Free!ReleaseSwap(t)
  PROVE  /\ home[t] # i => Lined(i, n)'
         /\ home[t] = i => Lined(i, n + 1)'
<1>1. t \in Taker /\ FreeTypes
  BY DEF Free!User, FreeInv
<1>2. /\ fPc[t] = "swap" /\ fNext' = [fNext EXCEPT ![mine[t]] = Null] /\ fPc'[t] = "link"
      /\ other'[t] = fTail[home[t]] /\ mine'[t] = mine[t]
      /\ fTail' = [fTail EXCEPT ![home[t]] = mine[t]]
      /\ UNCHANGED <<fHead, owner>> /\ SameUse /\ OthersSame(t)
  BY <1>1 DEF Free!ReleaseSwap, Free!Goto, SameUse, OthersSame, FreeTypes
<1>3. /\ t \notin Linking /\ Free!Alive' = Free!Alive /\ fPc[t] \in Keeps /\ ~Takes(t)
      /\ \A x \in Free!Alive : x # mine[t] => fNext'[x] = fNext[x]
      /\ mine[t] \in Free!Alive /\ home[t] \in Free!Lists /\ owner[mine[t]] \in {Null, home[t]}
  BY <1>1, <1>2 DEF Linking, Free!Alive, Keeps, Takes, FreeTypes, Homes
<1>4. \A k \in 0..n : q[k] \in Free!Alive /\ q[k] # mine[t]
  <2>1. \A k \in 0..n : q[k] # mine[t]
    BY <1>3, LineApart
  <2>2. QED
    BY <2>1 DEF Line
<1>5. \A k \in 0..n : /\ q[k] \in Free!Alive' /\ owner'[q[k]] = owner[q[k]]
                      /\ fNext'[q[k]] = fNext[q[k]]
  BY <1>2, <1>3, <1>4
<1>6. ASSUME home[t] # i PROVE Lined(i, n)'
  <2>1. fTail'[i] = fTail[i] /\ fHead'[i] = fHead[i]
    BY <1>1, <1>2, <1>6 DEF FreeTypes
  <2>2. Line(i, n, q)'
    BY <1>2, <1>3, <1>5, <2>1, LineAlone
  <2>3. QED
    BY <2>2 DEF Lined
<1>7. ASSUME home[t] = i PROVE Lined(i, n + 1)'
  <2>1. PICK p : p = [k \in 0..n + 1 |-> IF k = n + 1 THEN mine[t] ELSE q[k]]
    OBVIOUS
  <2>2. /\ p[n + 1] = mine[t] /\ \A k \in 0..n : p[k] = q[k] /\ p[k] \in Free!Alive
        /\ p \in [0..n + 1 -> Free!Alive']
    <3>1. \A k \in 0..n : k \in 0..n + 1 /\ k # n + 1
      OBVIOUS
    <3>2. \A k \in 0..n + 1 : k = n + 1 \/ k \in 0..n
      OBVIOUS
    <3>3. p[n + 1] = mine[t] /\ \A k \in 0..n : p[k] = q[k] /\ p[k] \in Free!Alive
      BY <1>4, <2>1, <3>1
    <3>4. QED
      BY <1>3, <2>1, <3>2, <3>3
  <2>3. Front(i, p[0])'
    <3>1. Front(i, q[0]) /\ p[0] = q[0] /\ fHead'[i] = fHead[i]
      BY <1>2, <2>2 DEF Line
    <3>2. Front(i, q[0])'
      BY <1>2, <1>3, <3>1, FrontKept
    <3>3. QED
      BY <3>1, <3>2
  <2>4. p[n + 1] = fTail'[i]
    BY <1>1, <1>2, <1>7, <2>2 DEF FreeTypes
  <2>5. ASSUME NEW k \in 0..n + 1 - 1 PROVE Follows(p[k], p[k + 1])'
    <3>1. CASE k = n
      <4>1. p[k] = fTail[i] /\ p[k + 1] = mine[t]
        BY <2>2, <3>1 DEF Line
      <4>2. t \in Linking'
        BY <1>1, <1>2 DEF Linking
      <4>3. QED
        BY <1>2, <1>7, <4>1, <4>2 DEF Follows
    <3>2. CASE k # n
      <4>1. k \in 0..n - 1 /\ k \in 0..n /\ k + 1 \in 0..n
        BY <3>2
      <4>2. Follows(p[k], p[k + 1])
        BY <2>2, <4>1 DEF Line
      <4>3. fNext'[p[k]] = fNext[p[k]]
        BY <1>5, <2>2, <4>1
      <4>4. QED
        BY <1>2, <1>3, <4>2, <4>3, FollowsKept
    <3>3. QED
      BY <3>1, <3>2
  <2>6. \A k \in 0..n + 1 : owner'[p[k]] \in {Null, i}
    <3>1. \A k \in 0..n : owner[p[k]] \in {Null, i}
      BY <2>2 DEF Line
    <3>2. \A k \in 0..n + 1 : k = n + 1 \/ k \in 0..n
      OBVIOUS
    <3>3. QED
      BY <1>2, <1>3, <1>7, <2>2, <3>1, <3>2
  <2>7. PICK m \in Nat : m = n + 1
    OBVIOUS
  <2>8. p \in [0..m -> Free!Alive']
    BY <2>2, <2>7
  <2>9. p[m] = fTail'[i] /\ \A k \in 0..m : owner'[p[k]] \in {Null, i}
    BY <2>4, <2>6, <2>7
  <2>10. \A k \in 0..m - 1 : Follows(p[k], p[k + 1])'
    BY <2>5, <2>7
  <2>11. Line(i, m, p)'
    BY <2>3, <2>8, <2>9, <2>10 DEF Line
  <2>12. QED
    BY <2>7, <2>11 DEF Lined
<1>8. QED
  BY <1>6, <1>7

(* What was to follow follows.                                              *)
LEMMA LineLink ==
  ASSUME FreeInv, NEW t \in Free!User, NEW i \in Free!Lists, NEW n \in Nat, NEW q, Line(i, n, q),
         Free!ReleaseLink(t)
  PROVE  Line(i, n, q)'
<1>1. t \in Taker /\ FreeTypes
  BY DEF Free!User, FreeInv
<1>2. /\ fPc[t] = "link" /\ fNext' = [fNext EXCEPT ![other[t]] = mine[t]] /\ ~Takes(t)
      /\ UNCHANGED <<fHead, fTail, owner>> /\ SameUse /\ OthersSame(t)
  BY <1>1 DEF Free!ReleaseLink, Free!lists, Free!Goto, SameUse, OthersSame, FreeTypes, Takes
<1>3. /\ t \in Linking /\ Free!Alive' = Free!Alive
      /\ other[t] \in Free!Alive /\ fNext[other[t]] = Null /\ fNext'[other[t]] = mine[t]
      /\ \A x \in Free!Alive : x # other[t] => fNext'[x] = fNext[x]
  BY <1>1, <1>2 DEF Linking, Free!Alive, FreeTypes, FreeInv, LastOnes, Waits
<1>4. \A k \in 0..n : q[k] \in Free!Alive /\ q[k] # Null
  BY NullNoElement DEF Line
<1>5. ASSUME NEW x \in Free!Alive, NEW y \in Free!Alive, Follows(x, y) PROVE Follows(x, y)'
  <2>1. CASE fNext[x] = y
    <3>1. x # other[t]
      BY <1>3, <2>1, NullNoElement
    <3>2. QED
      BY <1>3, <2>1, <3>1 DEF Follows
  <2>2. CASE \E u \in Linking : other[u] = x /\ mine[u] = y
    <3>1. PICK u \in Linking : other[u] = x /\ mine[u] = y
      BY <2>2
    <3>2. CASE u = t
      BY <1>3, <3>1, <3>2 DEF Follows
    <3>3. CASE u # t
      <4>1. u \in Linking' /\ other'[u] = x /\ mine'[u] = y
        BY <1>2, <3>1, <3>3 DEF OthersSame, Linking
      <4>2. QED
        BY <4>1 DEF Follows
    <3>4. QED
      BY <3>2, <3>3
  <2>3. QED
    BY <1>5, <2>1, <2>2 DEF Follows
<1>6. \A k \in 0..n - 1 : Follows(q[k], q[k + 1])'
  <2>1. ASSUME NEW k \in 0..n - 1 PROVE Follows(q[k], q[k + 1])'
    <3>1. k \in 0..n /\ k + 1 \in 0..n /\ Follows(q[k], q[k + 1])
      BY DEF Line
    <3>2. QED
      BY <1>4, <1>5, <3>1
  <2>2. QED
    BY <2>1
<1>7. Front(i, q[0])'
  <2>1. Front(i, q[0]) /\ fHead'[i] = fHead[i]
    BY <1>2 DEF Line
  <2>2. QED
    BY <1>2, <2>1, FrontKept
<1>8. fTail'[i] = fTail[i] /\ \A k \in 0..n : q[k] \in Free!Alive' /\ owner'[q[k]] = owner[q[k]]
  BY <1>2, <1>3, <1>4
<1>9. QED
  BY <1>6, <1>7, <1>8, LineKept

(* A step changes the line of a list as it says.                            *)
LEMMA StepLine ==
  ASSUME FreeInv, Homes, TakenApart, NEW t \in Free!User, SyncStep(t),
         NEW i \in Free!Lists, NEW n \in Nat, Lined(i, n)
  PROVE  \E m \in Nat : m = n + Gain(t, i) /\ Lined(i, m)'
<1>1. PICK q : Line(i, n, q)
  BY DEF Lined
<1>2. ASSUME Line(i, n, q)', ~(fPc[t] = "open" /\ free[t] = i), ~(fPc[t] = "swap" /\ home[t] = i)
      PROVE  \E m \in Nat : m = n + Gain(t, i) /\ Lined(i, m)'
  <2>1. Gain(t, i) = 0 /\ n + 0 = n
    BY <1>2 DEF Gain
  <2>2. QED
    BY <1>2, <2>1 DEF Lined
<1>3. CASE \/ Free!Get(t) \/ Free!GetSize(t) \/ Free!GetLost(t) \/ Free!GetNext(t) \/ Free!GetLast(t)
           \/ Free!GetCount(t) \/ Free!ReleaseCount(t) \/ Free!Caught(t)
           \/ \E e \in held : Free!Release(t, e)
           \/ Free!ReleaseFits(t) /\ fSize[home[t]] < Free!marks.high
  <2>1. fPc[t] # "open" /\ fPc[t] # "swap"
    BY <1>3 DEF Free!Get, Free!GetSize, Free!GetLost, Free!GetNext, Free!GetLast, Free!GetCount,
       Free!ReleaseCount, Free!Caught, Free!Release, Free!ReleaseFits
  <2>2. QED
    BY <1>1, <1>2, <1>3, <2>1, LineQuiet
<1>4. CASE Free!GetNew(t)
  BY <1>1, <1>2, <1>4, LineGiveNew DEF Free!GetNew
<1>5. CASE Free!ReleaseFits(t) /\ ~(fSize[home[t]] < Free!marks.high)
  BY <1>1, <1>2, <1>5, LineDelete DEF Free!ReleaseFits
<1>6. CASE Free!GetTake(t) \/ Free!GetBack(t)
  <2>1. fPc[t] # "open" /\ fPc[t] # "swap"
    BY <1>6 DEF Free!GetTake, Free!GetBack
  <2>2. QED
    BY <1>1, <1>2, <1>6, <2>1, LineTake
<1>7. CASE Free!ReleaseLink(t)
  BY <1>1, <1>2, <1>7, LineLink DEF Free!ReleaseLink
<1>8. CASE Free!GetOpen(t)
  <2>1. fPc[t] = "open"
    BY <1>8 DEF Free!GetOpen
  <2>2. CASE free[t] = i
    <3>1. Gain(t, i) = -1 /\ n # 0 /\ Lined(i, n - 1)'
      BY <1>1, <1>8, <2>1, <2>2, LineOpen DEF Gain
    <3>2. n - 1 \in Nat /\ n - 1 = n + Gain(t, i)
      BY <3>1
    <3>3. QED
      BY <3>1, <3>2
  <2>3. CASE free[t] # i
    <3>1. Gain(t, i) = 0 /\ Lined(i, n)' /\ n + 0 = n
      BY <1>1, <1>8, <2>1, <2>3, LineOpen DEF Gain
    <3>2. QED
      BY <3>1
  <2>4. QED
    BY <2>2, <2>3
<1>9. CASE Free!ReleaseSwap(t)
  <2>1. fPc[t] = "swap"
    BY <1>9 DEF Free!ReleaseSwap
  <2>2. CASE home[t] = i
    <3>1. Gain(t, i) = 1 /\ Lined(i, n + 1)'
      BY <1>1, <1>9, <2>1, <2>2, LineSwap DEF Gain
    <3>2. n + 1 \in Nat /\ n + 1 = n + Gain(t, i)
      BY <3>1
    <3>3. QED
      BY <3>1, <3>2
  <2>3. CASE home[t] # i
    <3>1. Gain(t, i) = 0 /\ Lined(i, n)' /\ n + 0 = n
      BY <1>1, <1>9, <2>1, <2>3, LineSwap DEF Gain
    <3>2. QED
      BY <3>1
  <2>4. QED
    BY <2>2, <2>3
<1>10. QED
  BY <1>3, <1>4, <1>5, <1>6, <1>7, <1>8, <1>9 DEF SyncStep, Free!Step

(* The line of a synchronised list is as long as its size and the threads   *)
(* that are behind with it say.                                             *)
Lines == Free!Sync => \A i \in Free!Lists :
  \E n \in Nat : Lined(i, n) /\ n = fSize[i] + Cardinality(Owing(i))

(* Line and size stay together in every step.                               *)
LEMMA StepLines ==
  ASSUME IsFiniteSet(Taker)
  PROVE  FreeInv /\ Homes /\ TakenApart /\ SizeBound /\ Lines /\ [Free!Next]_(Free!vars) => Lines'
<1> SUFFICES ASSUME FreeInv, Homes, TakenApart, SizeBound, Lines, [Free!Next]_(Free!vars)
             PROVE  Lines'
  OBVIOUS
<1>1. ASSUME UNCHANGED Free!vars PROVE Lines'
  <2>1. UNCHANGED <<use, free, fHead, fTail, fSize, fNext, owner, fPc, mine, other, home>>
    BY <1>1 DEF Free!vars, Free!lists, Free!elements, Free!thread
  <2>2. SameUse
    BY <2>1 DEF SameUse
  <2>3. \A i : Owing(i)' = Owing(i)
    BY <2>1, <2>2, UseFixed DEF Owing, Owes
  <2>4. /\ \A i, x : Front(i, x)' <=> Front(i, x)
        /\ \A x, y : Follows(x, y)' <=> Follows(x, y)
    BY <2>1, <2>2, UseFixed DEF Front, Follows, Linking, Takes
  <2>5. \A i, n, q : Line(i, n, q) => Line(i, n, q)'
    BY <2>1, <2>4 DEF Line, Free!Alive
  <2>6. QED
    BY <2>1, <2>2, <2>3, <2>5, UseFixed DEF Lines, Lined
<1>2. ASSUME NEW t \in Free!User, SyncStep(t) PROVE Lines'
  <2>1. SameUse
    BY <1>2, StepPlaces
  <2>2. ASSUME Free!Sync, NEW i \in Free!Lists
        PROVE  \E n \in Nat : Lined(i, n)' /\ n = fSize'[i] + Cardinality(Owing(i)')
    <3>1. fSize[i] \in Int
      BY <2>2 DEF SizeBound, Free!Sync
    <3>2. PICK n \in Nat : Lined(i, n) /\ n = fSize[i] + Cardinality(Owing(i))
      BY <2>2 DEF Lines
    <3>3. PICK m \in Nat : m = n + Gain(t, i) /\ Lined(i, m)'
      BY <1>2, <3>2, StepLine
    <3>4. fSize'[i] + Cardinality(Owing(i)') = fSize[i] + Cardinality(Owing(i)) + Gain(t, i)
      BY <1>2, <3>1, Tallies
    <3>5. m = fSize'[i] + Cardinality(Owing(i)')
      BY <3>2, <3>3, <3>4
    <3>6. QED
      BY <3>3, <3>5
  <2>3. QED
    BY <2>1, <2>2, UseFixed DEF Lines
<1>3. ASSUME NEW t \in Free!User,
             \/ Free!GetDummy(t) \/ Free!GetNonSync(t)
             \/ \E e \in held : Free!ReleaseDummy(t, e) \/ Free!ReleaseNonSync(t, e)
      PROVE  Lines'
  <2>1. ~Free!Sync /\ SameUse
    <3> USE DEF SameUse, Free!Sync, Free!lists
    <3>1. CASE Free!GetDummy(t) \/ \E e \in held : Free!ReleaseDummy(t, e)
      BY <3>1 DEF Free!GetDummy, Free!ReleaseDummy
    <3>2. CASE Free!GetNonSync(t)
      BY <3>2 DEF Free!GetNonSync
    <3>3. CASE \E e \in held : Free!ReleaseNonSync(t, e)
      BY <3>3 DEF Free!ReleaseNonSync
    <3>4. QED
      BY <1>3, <3>1, <3>2, <3>3
  <2>2. QED
    BY <2>1, UseFixed DEF Lines
<1>4. QED
  BY <1>1, <1>2, <1>3 DEF Free!Next, Free!Call, SyncStep

(* The chains that were made are lines.                                     *)
LEMMA InitLines == ASSUME IsFiniteSet(Taker), Free!Init PROVE TakenApart /\ SizeBound /\ Lines
<1>1. FreeInv /\ Homes
  BY InitFreeInv, InitHomes
<1>2. \A t \in Free!User : fPc[t] = "idle"
  BY DEF Free!Init, Free!User
<1>3. \A i \in Free!Lists : Fitting(i) = {} /\ Owing(i) = {} /\ fSize[i] = Free!marks.high
  BY <1>2 DEF Fitting, Fits, Owing, Owes, Free!Init
<1>4. IsFiniteSet(Free!User) /\ Cardinality({}) = 0
  BY FS_Subset, FS_EmptySet DEF Free!User
<1>5. TakenApart
  BY <1>2 DEF TakenApart, Takes
<1>6. SizeBound
  <2>1. \A i \in Free!Lists : Free!User # {}
    BY DEF Free!Lists
  <2>2. \A i \in Free!Lists : Cardinality(Free!User) \in Nat \ {0} /\ Cardinality(Fitting(i)) = 0
    BY <1>3, <1>4, <2>1, FS_EmptySet, FS_CardinalityType
  <2>3. Free!marks.high \in Nat
    BY <1>1, MarksAre DEF FreeInv, FreeTypes
  <2>4. QED
    BY <1>3, <2>2, <2>3 DEF SizeBound
<1>7. ASSUME Free!Sync, NEW i \in Free!Lists
      PROVE  \E n \in Nat : Lined(i, n) /\ n = fSize[i] + Cardinality(Owing(i))
  <2>1. PICK h \in Nat, first \in Nat, last \in Nat : h = Free!marks.high /\ Made(h, first, last)
    BY <1>7, InitMade DEF Free!Sync
  <2>2. /\ fHead[i] = <<i, first>> /\ fTail[i] = <<i, last>> /\ last = first + h
        /\ Free!Alive = Free!Lists \X (0..last)
        /\ \A k \in 0..last : fNext[<<i, k>>] = IF k = h \/ k = 2 * h + 1 THEN Null ELSE <<i, k + 1>>
        /\ first = 0 \/ first = h + 1
    BY <2>1 DEF Made
  <2>3. PICK q : q = [k \in 0..h |-> <<i, first + k>>]
    OBVIOUS
  <2>4. \A k \in 0..h : q[k] = <<i, first + k>> /\ first + k \in 0..last /\ q[k] \in Free!Alive
    <3>1. \A k \in 0..h : first + k \in 0..last
      BY <2>2
    <3>2. QED
      BY <2>2, <2>3, <3>1
  <2>5. q \in [0..h -> Free!Alive]
    BY <2>3, <2>4
  <2>6. 0 \in 0..h /\ h \in 0..h /\ first + 0 = first
    OBVIOUS
  <2>7. Front(i, q[0]) /\ q[h] = fTail[i]
    BY <2>2, <2>4, <2>6 DEF Front
  <2>8. ASSUME NEW k \in 0..h - 1 PROVE Follows(q[k], q[k + 1])
    <3>1. k \in 0..h /\ k + 1 \in 0..h /\ first + k # h /\ first + k # 2 * h + 1
      BY <2>2
    <3>2. PICK m \in 0..last : m = first + k /\ q[k] = <<i, m>>
      BY <2>4, <3>1
    <3>3. fNext[<<i, m>>] = <<i, m + 1>>
      BY <2>2, <3>1, <3>2
    <3>4. q[k + 1] = <<i, first + (k + 1)>> /\ m + 1 = first + (k + 1)
      BY <2>4, <3>1, <3>2
    <3>5. QED
      BY <3>2, <3>3, <3>4 DEF Follows
  <2>9. \A k \in 0..h : owner[q[k]] = Null
    BY <2>4 DEF Free!Init, Free!Alive
  <2>10. Line(i, h, q)
    BY <2>5, <2>7, <2>8, <2>9 DEF Line
  <2>11. h = fSize[i] + Cardinality(Owing(i))
    <3>1. Cardinality(Owing(i)) = 0
      BY <1>3, <1>4
    <3>2. QED
      BY <1>3, <2>1, <3>1
  <2>12. QED
    BY <2>10, <2>11 DEF Lined
<1>8. QED
  BY <1>5, <1>6, <1>7 DEF Lines

(* A line of nexts from a head meets no element twice.                      *)
LEMMA LineOfOnes ==
  ASSUME FreeInv, NEW i \in Free!Lists, NEW n \in Nat, NEW q \in [0..n -> Free!Alive],
         q[0] = fHead[i], \A k \in 0..n - 1 : fNext[q[k]] = q[k + 1],
         NEW j \in 0..n, NEW k \in 0..n, q[j] = q[k]
  PROVE  j = k
<1> DEFINE Bad == {a \in 0..n : \E b \in 0..n : a < b /\ q[a] = q[b]}
<1>1. Bad = {}
  <2>1. SUFFICES ASSUME Bad # {} PROVE FALSE
    OBVIOUS
  <2>2. PICK a \in Bad : \A m \in Bad : a <= m
    <3>1. Bad \in SUBSET Nat
      OBVIOUS
    <3>2. QED
      BY <2>1, <3>1, LeastNat
  <2>3. PICK b \in 0..n : a < b /\ q[a] = q[b]
    BY <2>2
  <2>4. /\ a \in 0..n /\ b - 1 \in 0..n - 1 /\ b - 1 \in 0..n
        /\ fNext[q[b - 1]] = q[b] /\ q[b] # Null /\ q[b - 1] \in Free!Alive
    <3>1. a \in 0..n /\ b - 1 \in 0..n - 1 /\ b - 1 \in 0..n /\ b - 1 + 1 = b
      BY <2>2, <2>3
    <3>2. q[b] # Null /\ q[b - 1] \in Free!Alive
      BY <3>1, NullNoElement
    <3>3. QED
      BY <3>1, <3>2
  <2>5. CASE a = 0
    BY <2>3, <2>4, <2>5 DEF FreeInv, LedToOnce, NobodysNext
  <2>6. CASE a # 0
    <3>1. a - 1 \in 0..n - 1 /\ a - 1 \in 0..n /\ a - 1 + 1 = a /\ a - 1 < b - 1
      BY <2>3, <2>4, <2>6
    <3>2. fNext[q[a - 1]] = q[a] /\ q[a - 1] \in Free!Alive
      BY <3>1
    <3>3. q[a - 1] = q[b - 1]
      BY <2>3, <2>4, <3>2 DEF FreeInv, LedToOnce
    <3>4. a - 1 \in Bad
      BY <2>4, <3>1, <3>3
    <3>5. QED
      BY <2>2, <2>4, <3>4
  <2>7. QED
    BY <2>5, <2>6
<1>2. ~(j < k) /\ ~(k < j)
  BY <1>1
<1>3. QED
  BY <1>2

(* The chain from a head is the line that starts there.                     *)
LEMMA ChainIsLine ==
  ASSUME FreeInv, IsFiniteSet(Free!Alive), NEW i \in Free!Lists, NEW n \in Nat,
         NEW q \in [0..n -> Free!Alive],
         q[0] = fHead[i], fNext[q[n]] = Null, \A k \in 0..n - 1 : fNext[q[k]] = q[k + 1]
  PROVE  Free!Chain(i) = {q[k] : k \in 0..n} /\ Cardinality({q[k] : k \in 0..n}) = n + 1
<1>1. \A j, k \in 0..n : q[j] = q[k] => j = k
  BY LineOfOnes
<1>2. Cardinality({q[k] : k \in 0..n}) = n + 1
  <2>1. PICK b : b = [k \in 1..n + 1 |-> q[k - 1]]
    OBVIOUS
  <2>2. \A k \in 1..n + 1 : k - 1 \in 0..n
    OBVIOUS
  <2>3. \A k \in 0..n : k + 1 \in 1..n + 1 /\ k + 1 - 1 = k
    OBVIOUS
  <2>4. b \in [1..n + 1 -> {q[k] : k \in 0..n}]
    BY <2>1, <2>2
  <2>5. \A j, k \in 1..n + 1 : b[j] = b[k] => j = k
    <3>1. ASSUME NEW j \in 1..n + 1, NEW k \in 1..n + 1, b[j] = b[k] PROVE j = k
      <4>1. j - 1 = k - 1
        BY <1>1, <2>1, <2>2, <3>1
      <4>2. QED
        BY <4>1
    <3>2. QED
      BY <3>1
  <2>6. \A x \in {q[k] : k \in 0..n} : \E k \in 1..n + 1 : b[k] = x
    <3>1. ASSUME NEW k \in 0..n PROVE b[k + 1] = q[k]
      BY <2>1, <2>3
    <3>2. QED
      BY <2>3, <3>1
  <2>7. b \in Bijection(1..n + 1, {q[k] : k \in 0..n})
    BY <2>4, <2>5, <2>6 DEF Bijection, Injection, Surjection, IsInjective
  <2>8. ExistsBijection(1..n + 1, {q[k] : k \in 0..n})
    BY <2>7, Zenon DEF ExistsBijection
  <2>9. n + 1 \in Nat
    OBVIOUS
  <2>10. QED
    BY <2>8, <2>9, FS_CountingElements
<1>3. PICK N \in Nat : N = Cardinality(Free!Alive)
  BY FS_CardinalityType
<1>4. n <= N
  <2>1. {q[k] : k \in 0..n} \in SUBSET Free!Alive
    OBVIOUS
  <2>2. Cardinality({q[k] : k \in 0..n}) <= N
    BY <1>3, <2>1, FS_Subset
  <2>3. QED
    BY <1>2, <2>2
<1>5. PICK f : Reaches(N, fHead[i], f) /\ Free!Chain(i) = f[N]
  BY <1>3, FromReaches DEF Free!Chain
<1>6. /\ f[0] = {fHead[i]} \ {Null}
      /\ \A m \in 0..N : m # 0 => f[m] = Then(f[m - 1])
  <2>1. \A m \in 0..N : f[m] = IF m = 0 THEN {fHead[i]} \ {Null} ELSE Then(f[m - 1])
    BY <1>5 DEF Reaches
  <2>2. 0 \in 0..N
    OBVIOUS
  <2>3. QED
    BY <2>1, <2>2
<1>7. \A k \in 0..n : q[k] \in Free!Alive /\ q[k] # Null
  BY NullNoElement
<1> DEFINE Upto(m) == {q[k] : k \in {j \in 0..n : j <= m}}
<1> DEFINE Bad == {m \in 0..N : f[m] # Upto(m)}
<1>8. Bad = {}
  <2>1. SUFFICES ASSUME Bad # {} PROVE FALSE
    OBVIOUS
  <2>2. PICK m \in Bad : \A l \in Bad : m <= l
    <3>1. Bad \in SUBSET Nat
      OBVIOUS
    <3>2. QED
      BY <2>1, <3>1, LeastNat
  <2>3. m \in 0..N /\ f[m] # Upto(m)
    BY <2>2
  <2>4. m # 0
    <3>1. Upto(0) = {q[0]}
      <4>1. {j \in 0..n : j <= 0} = {0}
        OBVIOUS
      <4>2. QED
        BY <4>1
    <3>2. f[0] = {q[0]}
      BY <1>6, <1>7
    <3>3. QED
      BY <2>3, <3>1, <3>2
  <2>5. m - 1 \in 0..N /\ f[m - 1] = Upto(m - 1) /\ f[m] = Then(Upto(m - 1))
    <3>1. m - 1 \in 0..N /\ m - 1 \notin Bad
      BY <2>2, <2>3, <2>4
    <3>2. f[m - 1] = Upto(m - 1)
      BY <3>1
    <3>3. QED
      BY <1>6, <2>3, <2>4, <3>1, <3>2
  <2>6. \A x : x \in Then(Upto(m - 1)) <=>
                 \/ \E j \in 0..n : j <= m - 1 /\ x = q[j]
                 \/ \E j \in 0..n : j <= m - 1 /\ x = fNext[q[j]] /\ x # Null
    BY <1>7 DEF Then
  <2>7. \A x : x \in Upto(m) <=> \E j \in 0..n : j <= m /\ x = q[j]
    OBVIOUS
  <2>8. ASSUME NEW x, x \in Upto(m) PROVE x \in Then(Upto(m - 1))
    <3>1. PICK j \in 0..n : j <= m /\ x = q[j]
      BY <2>7, <2>8
    <3>2. CASE j <= m - 1
      BY <2>6, <3>1, <3>2
    <3>3. CASE ~(j <= m - 1)
      <4>1. j - 1 \in 0..n - 1 /\ j - 1 \in 0..n /\ j - 1 + 1 = j /\ j - 1 <= m - 1
        BY <2>3, <2>4, <3>1, <3>3
      <4>2. fNext[q[j - 1]] = q[j]
        BY <4>1
      <4>3. QED
        BY <1>7, <2>6, <3>1, <4>1, <4>2
    <3>4. QED
      BY <3>2, <3>3
  <2>9. ASSUME NEW x, x \in Then(Upto(m - 1)) PROVE x \in Upto(m)
    <3>1. CASE \E j \in 0..n : j <= m - 1 /\ x = q[j]
      <4>1. PICK j \in 0..n : j <= m - 1 /\ x = q[j]
        BY <3>1
      <4>2. j <= m
        BY <2>3, <4>1
      <4>3. QED
        BY <2>7, <4>1, <4>2
    <3>2. CASE \E j \in 0..n : j <= m - 1 /\ x = fNext[q[j]] /\ x # Null
      <4>1. PICK j \in 0..n : j <= m - 1 /\ x = fNext[q[j]] /\ x # Null
        BY <3>2
      <4>2. j # n
        BY <4>1
      <4>3. j \in 0..n - 1 /\ j + 1 \in 0..n /\ j + 1 <= m
        BY <2>3, <4>1, <4>2
      <4>4. QED
        BY <2>7, <4>1, <4>3
    <3>3. QED
      BY <2>6, <2>9, <3>1, <3>2
  <2>10. f[m] = Upto(m)
    BY <2>5, <2>8, <2>9
  <2>11. QED
    BY <2>3, <2>10
<1>9. f[N] = Upto(N)
  BY <1>8
<1>10. Upto(N) = {q[k] : k \in 0..n}
  <2>1. {j \in 0..n : j <= N} = 0..n
    BY <1>4
  <2>2. QED
    BY <2>1
<1>11. QED
  BY <1>2, <1>5, <1>9, <1>10

(* When no call is under way the lines are chains.                          *)
LEMMA InvQuiet ==
  ASSUME IsFiniteSet(Taker), FreeInv, Homes, SizeBound, Lines, IsFiniteSet(Free!Alive)
  PROVE  Free!QuietListsWhole
<1> SUFFICES ASSUME \A t \in Taker : fPc[t] = "idle", Free!Kind # "dummy", NEW i \in Free!Lists
             PROVE  /\ Free!Chain(i) \subseteq Free!Alive /\ fTail[i] \in Free!Chain(i)
                    /\ fNext[fTail[i]] = Null
                    /\ Free!Cardinality(Free!Chain(i)) = fSize[i] + 1
                    /\ fSize[i] \in 0..(Free!marks.high + Free!Cardinality(Free!User) - 1)
                    /\ \A e \in Free!Chain(i) : owner[e] \in {Null, i}
  BY DEF Free!QuietListsWhole
<1>1. Linking = {} /\ Owing(i) = {} /\ Fitting(i) = {} /\ \A t \in Free!User : ~Takes(t)
  BY DEF Linking, Owing, Owes, Fitting, Fits, Takes, Free!User
<1>2. fSize[i] \in Nat /\ \E q \in [0..fSize[i] -> Free!Alive] :
        /\ q[0] = fHead[i] /\ q[fSize[i]] = fTail[i]
        /\ \A k \in 0..fSize[i] - 1 : fNext[q[k]] = q[k + 1]
        /\ \A k \in 0..fSize[i] : owner[q[k]] \in {Null, i}
  <2>1. CASE Free!Sync
    <3>1. PICK n \in Nat : (\E q : Line(i, n, q)) /\ n = fSize[i] + Cardinality(Owing(i))
      BY <2>1 DEF Lines, Lined
    <3>2. fSize[i] \in Int /\ Cardinality(Owing(i)) = 0
      BY <1>1, FS_EmptySet DEF SizeBound
    <3>3. n = fSize[i]
      BY <3>1, <3>2
    <3>4. PICK q : Line(i, n, q)
      BY <3>1
    <3>5. q[0] = fHead[i] /\ \A k \in 0..n - 1 : fNext[q[k]] = q[k + 1]
      BY <1>1, <3>4 DEF Line, Front, Follows
    <3>6. q \in [0..n -> Free!Alive] /\ q[n] = fTail[i] /\ \A k \in 0..n : owner[q[k]] \in {Null, i}
      BY <3>4 DEF Line
    <3>7. QED
      BY <3>3, <3>5, <3>6
  <2>2. CASE ~Free!Sync
    <3>1. Free!Kind = "nonsync"
      BY <2>2 DEF Free!Kind, Free!Sync
    <3>2. fSize[i] \in Nat /\ Long(i) /\ \A x \in Free!Alive : owner[x] = Null
      BY <3>1 DEF FreeInv, Lengths, Homes
    <3>3. QED
      BY <3>2 DEF Long
  <2>3. QED
    BY <2>1, <2>2
<1>3. PICK n \in Nat : n = fSize[i]
  BY <1>2
<1>4. PICK q \in [0..n -> Free!Alive] :
         /\ q[0] = fHead[i] /\ q[n] = fTail[i]
         /\ \A k \in 0..n - 1 : fNext[q[k]] = q[k + 1]
         /\ \A k \in 0..n : owner[q[k]] \in {Null, i}
  BY <1>2, <1>3
<1>5. fNext[fTail[i]] = Null
  BY DEF FreeInv, LastOnes, Waits
<1>6. Free!Chain(i) = {q[k] : k \in 0..n} /\ Cardinality({q[k] : k \in 0..n}) = n + 1
  BY <1>4, <1>5, ChainIsLine
<1>7. \A S : Free!Cardinality(S) = Cardinality(S)
  BY DEF Free!Cardinality, Cardinality
<1>8. fSize[i] \in 0..(Free!marks.high + Cardinality(Free!User) - 1)
  <2>1. fSize[i] + Cardinality(Fitting(i)) <= Free!marks.high + Cardinality(Free!User) - 1
    BY DEF SizeBound
  <2>2. Cardinality(Fitting(i)) = 0
    BY <1>1, FS_EmptySet
  <2>3. Free!marks.high \in Nat /\ Cardinality(Free!User) \in Nat
    <3>1. IsFiniteSet(Free!User)
      BY FS_Subset DEF Free!User
    <3>2. QED
      BY <3>1, MarksAre, FS_CardinalityType DEF FreeInv, FreeTypes
  <2>4. QED
    BY <1>2, <2>1, <2>2, <2>3
<1>9. n \in 0..n
  OBVIOUS
<1>10. QED
  BY <1>3, <1>4, <1>5, <1>6, <1>7, <1>8, <1>9

(* All of it is kept by every step of a free list.                          *)
ListsInv ==
  /\ FreeInv /\ Homes /\ TakenApart /\ SizeBound /\ Lines /\ IsFiniteSet(Free!Alive)

LEMMA ListsInvAlways ==
  ASSUME IsFiniteSet(Taker) PROVE ContainersSpec => [](tried = "FreeList" => ListsInv)
<1> DEFINE FInv == tried = "FreeList" => ListsInv
<1>1. ContainersInit => FInv
  BY InitFreeInv, InitHomes, InitLines, FiniteAlive DEF ContainersInit, ListsInv
<1>2. FInv /\ [ContainersNext]_<<tried, vars, table, freeLists>> => FInv'
  <2> SUFFICES ASSUME FInv, [ContainersNext]_<<tried, vars, table, freeLists>>,
                      tried' = "FreeList"
               PROVE  ListsInv'
    OBVIOUS
  <2>1. tried = "FreeList" /\ [Free!Next]_(Free!vars)
    BY DEF ContainersNext, freeLists, Free!vars, Free!lists, Free!elements, Free!thread
  <2>2. ListsInv
    BY <2>1
  <2>3. QED
    BY <2>1, <2>2, StepFreeInv, StepHomes, StepTaken, StepSizes, StepLines, FiniteAlive
       DEF ListsInv
<1>3. QED
  BY <1>1, <1>2, PTL DEF ContainersSpec

(* A free list never hands an element to two, nor leaves it in a chain      *)
(* while someone has it, for any number of threads, lists and marks, though *)
(* the chain is read and written without a lock.                            *)
THEOREM OneUserAlways == ASSUME IsFiniteSet(Taker) PROVE ContainersSpec => []OneUser
<1>1. (tried = "FreeList" => ListsInv) => OneUser
  BY InvOneUser DEF OneUser, ListsInv
<1>2. QED
  BY <1>1, ListsInvAlways, PTL

(* Whatever overlapped, once all calls have returned a free list is one     *)
(* chain to its tail, as long as its size says: no element is lost, and the *)
(* high water mark is passed by at most the threads but one.                *)
THEOREM QuietListsAlwaysWhole ==
  ASSUME IsFiniteSet(Taker) PROVE ContainersSpec => []QuietListsWhole
<1>1. (tried = "FreeList" => ListsInv) => QuietListsWhole
  BY InvQuiet DEF QuietListsWhole, ListsInv
<1>2. QED
  BY <1>1, ListsInvAlways, PTL
-----------------------------------------------------------------------------
(* A table of n buckets, and those in use. *)
Buckets(b, n) == n \in Nat \ {0} /\ DOMAIN b = 0..n - 1 /\ b = [idx \in 0..n - 1 |-> b[idx]]
InUse(b) == {idx \in DOMAIN b : b[idx] # Empty}

(* Used and Count of a table, as the provers see them.                      *)
LEMMA TableCounts ==
  /\ \A b : Table!Used(b) = Cardinality(InUse(b))
  /\ \A b, n : Buckets(b, n) => Table!Count(b) = n
<1>1. \A S : Table!Cardinality(S) = Cardinality(S)
  BY DEF Table!Cardinality, Cardinality
<1>2. \A b : Table!Used(b) = Cardinality(InUse(b))
  BY <1>1 DEF Table!Used, InUse
<1>3. ASSUME NEW b, NEW n, Buckets(b, n) PROVE Table!Count(b) = n
  <2>1. n \in Nat \ {0} /\ DOMAIN b = 0..n - 1
    BY <1>3 DEF Buckets
  <2>2. 0 <= n - 1 /\ n - 1 - 0 + 1 = n /\ n - 1 \in Int
    BY <2>1
  <2>3. Cardinality(0..n - 1) = n
    BY <2>1, <2>2, FS_Interval
  <2>4. QED
    BY <1>1, <2>1, <2>3 DEF Table!Count
<1>4. QED
  BY <1>2, <1>3

(* The buckets in use are finitely many.                                    *)
LEMMA InUseFinite ==
  ASSUME NEW b, NEW n, Buckets(b, n)
  PROVE  IsFiniteSet(InUse(b)) /\ Cardinality(InUse(b)) \in Nat
<1>1. IsFiniteSet(0..n - 1)
  <2>1. 0 \in Int /\ n - 1 \in Int
    BY DEF Buckets
  <2>2. QED
    BY <2>1, FS_Interval
<1>2. IsFiniteSet(InUse(b))
  BY <1>1, FS_Subset DEF Buckets, InUse
<1>3. QED
  BY <1>2, FS_CardinalityType

(* More buckets than are in use: one is empty. *)
LEMMA EmptyBucket ==
  ASSUME NEW b, NEW n, Buckets(b, n), Cardinality(InUse(b)) < n
  PROVE  \E idx \in 0..n - 1 : b[idx] = Empty
<1>1. SUFFICES ASSUME \A idx \in 0..n - 1 : b[idx] # Empty PROVE FALSE
  OBVIOUS
<1>2. InUse(b) = 0..n - 1
  BY <1>1 DEF InUse, Buckets
<1>3. n \in Nat \ {0} /\ 0 <= n - 1 /\ n - 1 - 0 + 1 = n /\ n - 1 \in Int
  BY DEF Buckets
<1>4. Cardinality(0..n - 1) = n
  BY <1>3, FS_Interval
<1>5. QED
  BY <1>2, <1>3, <1>4

(* One more bucket is in use at the most. *)
LEMMA StoredUses ==
  ASSUME NEW b, NEW n, Buckets(b, n), NEW k, NEW v
  PROVE  /\ Buckets(Table!Stored(b, k, v), n)
         /\ Cardinality(InUse(Table!Stored(b, k, v))) <= Cardinality(InUse(b)) + 1
<1> DEFINE w == Table!Walk(b, k)
           s == [b EXCEPT ![w] = <<k, v>>]
<1>1. Table!Stored(b, k, v) = s
  BY DEF Table!Stored
<1> HIDE DEF w
<1>2. Buckets(s, n)
  BY DEF Buckets
<1>3. InUse(s) \subseteq InUse(b) \cup {w}
  BY DEF InUse
<1>4. IsFiniteSet(InUse(b)) /\ Cardinality(InUse(b)) \in Nat
  BY InUseFinite
<1>5. /\ IsFiniteSet(InUse(b) \cup {w})
      /\ Cardinality(InUse(b) \cup {w}) <= Cardinality(InUse(b)) + 1
  <2>1. CASE w \in InUse(b)
    <3>1. InUse(b) \cup {w} = InUse(b)
      BY <2>1
    <3>2. QED
      BY <1>4, <3>1
  <2>2. CASE w \notin InUse(b)
    <3>1. IsFiniteSet(InUse(b) \cup {w})
      BY <1>4, FS_AddElement
    <3>2. Cardinality(InUse(b) \cup {w}) = Cardinality(InUse(b)) + 1
      BY <1>4, <2>2, FS_AddElement
    <3>3. QED
      BY <1>4, <3>1, <3>2
  <2>3. QED
    BY <2>1, <2>2
<1>6. Cardinality(InUse(s)) <= Cardinality(InUse(b) \cup {w})
  BY <1>3, <1>5, FS_Subset
<1>7. Cardinality(InUse(s)) \in Nat /\ Cardinality(InUse(b) \cup {w}) \in Nat
  BY <1>2, <1>5, InUseFinite, FS_CardinalityType
<1> HIDE DEF s
<1>8. Cardinality(InUse(s)) <= Cardinality(InUse(b)) + 1
  BY <1>4, <1>5, <1>6, <1>7
<1>9. QED
  BY <1>1, <1>2, <1>8

-----------------------------------------------------------------------------
(* The copy of b into n buckets, entry by entry. *)
Copied(b, idx, s) == IF b[idx] = Empty THEN s ELSE Table!Stored(s, b[idx][1], b[idx][2])
Copies(b, n, m, f) ==
  f = [idx \in 0..m |-> IF idx = 0 THEN Table!Blank(n) ELSE Copied(b, idx - 1, f[idx - 1])]

(* The function that copies entry by entry exists, for any table.           *)
LEMMA CopiesSome == \A b, n : \A m \in Nat : \E f : Copies(b, n, m, f)
<1> SUFFICES ASSUME NEW b, NEW n PROVE \A m \in Nat : \E f : Copies(b, n, m, f)
  OBVIOUS
<1> DEFINE Bad == {m \in Nat : ~\E f : Copies(b, n, m, f)}
<1>1. \E f : Copies(b, n, 0, f)
  <2>1. Copies(b, n, 0, [idx \in 0..0 |-> Table!Blank(n)])
    BY DEF Copies
  <2>2. QED
    BY <2>1
<1>2. ASSUME NEW m \in Nat, NEW f, Copies(b, n, m, f) PROVE \E g : Copies(b, n, m + 1, g)
  <2>1. PICK g : g = [idx \in 0..m + 1 |-> IF idx = 0 THEN Table!Blank(n)
                                          ELSE Copied(b, idx - 1, f[idx - 1])]
    OBVIOUS
  <2>2. \A idx \in 0..m : f[idx] = IF idx = 0 THEN Table!Blank(n)
                                   ELSE Copied(b, idx - 1, f[idx - 1])
    BY <1>2 DEF Copies
  <2>3. ASSUME NEW idx \in 0..m PROVE g[idx] = f[idx]
    <3>1. idx \in 0..m + 1
      OBVIOUS
    <3>2. g[idx] = IF idx = 0 THEN Table!Blank(n) ELSE Copied(b, idx - 1, f[idx - 1])
      BY <2>1, <3>1
    <3>3. QED
      BY <2>2, <3>2
  <2>4. \A idx \in 0..m + 1 : idx # 0 => idx - 1 \in 0..m /\ g[idx - 1] = f[idx - 1]
    BY <2>3
  <2>5. Copies(b, n, m + 1, g)
    BY <2>1, <2>4 DEF Copies
  <2>6. QED
    BY <2>5
<1>3. Bad = {}
  <2>1. SUFFICES ASSUME Bad # {} PROVE FALSE
    OBVIOUS
  <2>2. PICK m \in Bad : \A l \in Bad : m <= l
    BY <2>1, LeastNat
  <2>3. m # 0 /\ m - 1 \in Nat /\ m - 1 \notin Bad
    BY <1>1, <2>2
  <2>4. \E f : Copies(b, n, m - 1 + 1, f)
    BY <1>2, <2>3
  <2>5. QED
    BY <2>2, <2>3, <2>4
<1>4. QED
  BY <1>3

(* The entries of the first idx buckets. *)
Earlier(b, idx) == {i \in 0..idx - 1 : b[i] # Empty}

(* A copy has no more entries than what was copied, whatever collides. *)
LEMMA CopiesUse ==
  ASSUME NEW b, NEW m, Buckets(b, m), NEW n \in Nat \ {0}, NEW f, Copies(b, n, m, f)
  PROVE  \A idx \in 0..m :
           /\ Buckets(f[idx], n)
           /\ Cardinality(InUse(f[idx])) <= Cardinality(Earlier(b, idx))
<1>1. m \in Nat \ {0} /\ DOMAIN b = 0..m - 1
  BY DEF Buckets
<1>2. \A idx \in 0..m : f[idx] = IF idx = 0 THEN Table!Blank(n) ELSE Copied(b, idx - 1, f[idx - 1])
  BY DEF Copies
<1>3. \A idx \in 0..m : IsFiniteSet(Earlier(b, idx)) /\ Cardinality(Earlier(b, idx)) \in Nat
  <2>1. SUFFICES ASSUME NEW idx \in 0..m
                 PROVE  IsFiniteSet(Earlier(b, idx)) /\ Cardinality(Earlier(b, idx)) \in Nat
    OBVIOUS
  <2>2. IsFiniteSet(0..idx - 1)
    BY <1>1, FS_Interval
  <2>3. IsFiniteSet(Earlier(b, idx))
    BY <2>2, FS_Subset DEF Earlier
  <2>4. QED
    BY <2>3, FS_CardinalityType
<1> DEFINE Fine(idx) == Buckets(f[idx], n) /\ Cardinality(InUse(f[idx])) <= Cardinality(Earlier(b, idx))
           Bad == {idx \in 0..m : ~Fine(idx)}
<1>4. Fine(0)
  <2>1. f[0] = Table!Blank(n)
    BY <1>1, <1>2
  <2>2. f[0] = [idx \in 0..n - 1 |-> Empty]
    BY <2>1 DEF Table!Blank
  <2>3. Buckets(f[0], n) /\ InUse(f[0]) = {}
    BY <2>2 DEF Buckets, InUse
  <2>4. Earlier(b, 0) = {}
    BY DEF Earlier
  <2>5. QED
    BY <2>3, <2>4, FS_EmptySet
<1>5. ASSUME NEW idx \in 0..m, idx # 0, Fine(idx - 1) PROVE Fine(idx)
  <2>1. f[idx] = Copied(b, idx - 1, f[idx - 1]) /\ idx - 1 \in 0..m
    <3>1. idx \in 0..m /\ idx # 0
      BY <1>5
    <3>2. QED
      BY <1>1, <1>2, <3>1
  <2>2. CASE b[idx - 1] = Empty
    <3>1. f[idx] = f[idx - 1]
      BY <2>1, <2>2 DEF Copied
    <3>2. Earlier(b, idx) = Earlier(b, idx - 1)
      BY <2>2 DEF Earlier
    <3>3. QED
      BY <1>5, <3>1, <3>2
  <2>3. CASE b[idx - 1] # Empty
    <3>1. f[idx] = Table!Stored(f[idx - 1], b[idx - 1][1], b[idx - 1][2])
      BY <2>1, <2>3 DEF Copied
    <3>2. Earlier(b, idx) = Earlier(b, idx - 1) \cup {idx - 1} /\ idx - 1 \notin Earlier(b, idx - 1)
      BY <1>1, <1>5, <2>3 DEF Earlier
    <3> DEFINE A == Earlier(b, idx - 1)
    <3>3. IsFiniteSet(A) /\ Cardinality(A) \in Nat
      BY <1>3, <2>1
    <3> HIDE DEF A
    <3>4. Cardinality(A \cup {idx - 1}) = Cardinality(A) + 1
      <4>1. idx - 1 \notin A
        BY <3>2 DEF A
      <4>2. QED
        BY <3>3, <4>1, FS_AddElement
    <3>5. Cardinality(Earlier(b, idx)) = Cardinality(A) + 1
      BY <3>2, <3>4 DEF A
    <3>6. Buckets(f[idx - 1], n) /\ Cardinality(InUse(f[idx - 1])) <= Cardinality(A)
      BY <1>5 DEF A
    <3>7. Buckets(f[idx], n) /\ Cardinality(InUse(f[idx])) <= Cardinality(InUse(f[idx - 1])) + 1
      BY <3>1, <3>6, StoredUses
    <3>8. Cardinality(InUse(f[idx - 1])) \in Nat /\ Cardinality(InUse(f[idx])) \in Nat
      BY <3>6, <3>7, InUseFinite
    <3>9. QED
      BY <3>3, <3>5, <3>6, <3>7, <3>8
  <2>4. QED
    BY <2>2, <2>3
<1> HIDE DEF Fine
<1>6. Bad = {}
  <2>1. SUFFICES ASSUME Bad # {} PROVE FALSE
    OBVIOUS
  <2>2. Bad \in SUBSET Nat
    BY <1>1
  <2>3. PICK idx \in Bad : \A i \in Bad : idx <= i
    BY <2>1, <2>2, LeastNat
  <2>4. idx # 0 /\ idx - 1 \in 0..m /\ idx - 1 \notin Bad
    BY <1>1, <1>4, <2>3
  <2>5. QED
    BY <1>5, <2>3, <2>4
<1>7. QED
  BY <1>6 DEF Fine

(* rehash is such a copy, of the whole table. *)
LEMMA RehashedCopies ==
  ASSUME NEW b, NEW m, Buckets(b, m), NEW n
  PROVE  \E f : Copies(b, n, m, f) /\ Table!Rehashed(b, n) = f[m]
<1>1. PICK f : f = CHOOSE g : Copies(b, n, m, g)
  OBVIOUS
<1>2. m \in Nat \ {0}
  BY DEF Buckets
<1>3. Copies(b, n, m, f)
  BY <1>1, <1>2, CopiesSome
<1>4. Table!Count(b) = m
  BY TableCounts
<1>5. Table!Rehashed(b, n) = f[m]
  BY <1>1, <1>4 DEF Table!Rehashed, Copies, Copied
<1>6. QED
  BY <1>3, <1>5

(* It has no more entries than the table.                                   *)
LEMMA RehashedUses ==
  ASSUME NEW b, NEW m, Buckets(b, m), NEW n \in Nat \ {0}
  PROVE  /\ Buckets(Table!Rehashed(b, n), n)
         /\ Cardinality(InUse(Table!Rehashed(b, n))) <= Cardinality(InUse(b))
<1>1. PICK f : Copies(b, n, m, f) /\ Table!Rehashed(b, n) = f[m]
  BY RehashedCopies
<1>2. m \in 0..m /\ Earlier(b, m) = InUse(b)
  BY DEF Buckets, Earlier, InUse
<1>3. Buckets(f[m], n) /\ Cardinality(InUse(f[m])) <= Cardinality(Earlier(b, m))
  BY <1>1, <1>2, CopiesUse
<1>4. QED
  BY <1>1, <1>2, <1>3
-----------------------------------------------------------------------------
LEMMA Wraps ==
  ASSUME NEW n \in Nat \ {0}, NEW i \in 0..n - 1, NEW d \in 0..n - 1
  PROVE  (i + d) % n = IF i + d < n THEN i + d ELSE i + d - n
<1>1. PICK a \in Nat : a = i + d /\ a < n + n
  OBVIOUS
<1>2. CASE a < n
  BY <1>1, <1>2
<1>3. CASE a >= n
  <2>1. a % n = a - n
    BY <1>1, <1>3
  <2>2. QED
    BY <1>1, <1>3, <2>1
<1>4. QED
  BY <1>1, <1>2, <1>3

(* The probes of a walk stay in the table, and come to every bucket.        *)
LEMMA ProbesReach ==
  ASSUME NEW b, NEW n, Buckets(b, n), NEW i \in 0..n - 1
  PROVE  /\ \A d \in 0..n - 1 : Table!Probe(b, i, d) \in 0..n - 1
         /\ \A d \in 1..n - 1 : Table!Probe(b, i, d) # i
         /\ \A idx \in 0..n - 1 :
              \E d \in 0..n - 1 : Table!Probe(b, i, d) = idx /\ (idx # i => d # 0)
<1>1. n \in Nat \ {0}
  BY DEF Buckets
<1>2. \A d \in 0..n - 1 : Table!Probe(b, i, d) = IF i + d < n THEN i + d ELSE i + d - n
  <2>1. Table!Count(b) = n
    BY TableCounts
  <2>2. QED
    BY <1>1, <2>1, Wraps DEF Table!Probe
<1>3. ASSUME NEW idx \in 0..n - 1
      PROVE  \E d \in 0..n - 1 : Table!Probe(b, i, d) = idx /\ (idx # i => d # 0)
  <2>1. CASE idx >= i
    <3>1. idx - i \in 0..n - 1 /\ i + (idx - i) = idx /\ idx < n
      BY <1>1, <2>1
    <3>2. Table!Probe(b, i, idx - i) = idx /\ (idx # i => idx - i # 0)
      BY <1>2, <3>1
    <3>3. QED
      BY <3>1, <3>2
  <2>2. CASE idx < i
    <3> DEFINE d == idx - i + n
    <3>1. d \in 0..n - 1 /\ i + d - n = idx /\ ~(i + d < n) /\ d # 0
      BY <1>1, <2>2
    <3> HIDE DEF d
    <3>2. Table!Probe(b, i, d) = idx
      BY <1>2, <3>1
    <3>3. QED
      BY <3>1, <3>2
  <2>3. QED
    BY <1>1, <2>1, <2>2
<1>4. \A d \in 0..n - 1 : Table!Probe(b, i, d) \in 0..n - 1
  BY <1>1, <1>2
<1>5. \A d \in 1..n - 1 : Table!Probe(b, i, d) # i
  BY <1>1, <1>2
<1>6. QED
  BY <1>3, <1>4, <1>5

(* How many probes it takes from bucket i to bucket x of n buckets.         *)
Dist(n, i, x) == IF i <= x THEN x - i ELSE x - i + n
Home(k, n) == hashOf[k] % n

(* Probing and counting probes are each other's inverse.                     *)
LEMMA Diffs ==
  ASSUME NEW b, NEW n, Buckets(b, n), NEW i \in 0..n - 1
  PROVE  /\ \A x \in 0..n - 1 : Table!Diff(b, x, i) = Dist(n, i, x) /\ Dist(n, i, x) \in 0..n - 1
         /\ \A d \in 0..n - 1 : /\ Table!Probe(b, i, d) \in 0..n - 1
                                /\ Dist(n, i, Table!Probe(b, i, d)) = d
         /\ \A x \in 0..n - 1 : Table!Probe(b, i, Dist(n, i, x)) = x
<1>1. n \in Nat \ {0} /\ Table!Count(b) = n
  BY TableCounts DEF Buckets
<1>2. ASSUME NEW x \in 0..n - 1
      PROVE  Table!Diff(b, x, i) = Dist(n, i, x) /\ Dist(n, i, x) \in 0..n - 1
  <2>1. PICK a \in Nat : a = n + x - i
    BY <1>1
  <2>2. Table!Diff(b, x, i) = a % n
    BY <1>1, <2>1 DEF Table!Diff
  <2>3. CASE a < n
    <3>1. a % n = a
      BY <1>1, <2>3
    <3>2. QED
      BY <1>1, <2>1, <2>2, <2>3, <3>1 DEF Dist
  <2>4. CASE a >= n
    <3>1. a - n \in 0..n - 1
      BY <1>1, <2>1, <2>4
    <3>2. a % n = a - n
      BY <1>1, <2>1, <2>4, <3>1
    <3>3. QED
      BY <1>1, <2>1, <2>2, <2>4, <3>2 DEF Dist
  <2>5. QED
    BY <1>1, <2>1, <2>3, <2>4
<1>3. \A d \in 0..n - 1 : Table!Probe(b, i, d) = IF i + d < n THEN i + d ELSE i + d - n
  BY <1>1, Wraps DEF Table!Probe
<1>4. ASSUME NEW d \in 0..n - 1
      PROVE  Table!Probe(b, i, d) \in 0..n - 1 /\ Dist(n, i, Table!Probe(b, i, d)) = d
  BY <1>1, <1>3 DEF Dist
<1>5. ASSUME NEW x \in 0..n - 1 PROVE Table!Probe(b, i, Dist(n, i, x)) = x
  <2>1. Dist(n, i, x) \in 0..n - 1
    BY <1>2
  <2>2. QED
    BY <1>1, <1>3, <2>1 DEF Dist
<1>6. QED
  BY <1>2, <1>4, <1>5

LEMMA DistSame ==
  ASSUME NEW n \in Nat \ {0}, NEW i \in 0..n - 1, NEW x \in 0..n - 1, NEW y \in 0..n - 1
  PROVE  /\ Dist(n, i, x) \in 0..n - 1
         /\ Dist(n, i, x) = Dist(n, i, y) => x = y
  BY DEF Dist

(* Where a walk ends: at the first bucket that is empty or has the key.     *)
LEMMA WalkEnds ==
  ASSUME NEW b, NEW n, Buckets(b, n), Cardinality(InUse(b)) < n, NEW k, hashOf[k] \in Int
  PROVE  /\ Home(k, n) \in 0..n - 1
         /\ Table!Walk(b, k) \in 0..n - 1
         /\ Table!StopsAt(b, k, Table!Walk(b, k))
         /\ \A x \in 0..n - 1 : Dist(n, Home(k, n), x) < Dist(n, Home(k, n), Table!Walk(b, k))
              => ~Table!StopsAt(b, k, x)
<1>1. n \in Nat \ {0} /\ Table!Count(b) = n
  BY TableCounts DEF Buckets
<1>2. PICK i \in 0..n - 1 : i = Table!Ideal(b, k) /\ i = Home(k, n)
  BY <1>1 DEF Table!Ideal, Home
<1> DEFINE at(d) == Table!Probe(b, i, d)
           Stops == {d \in 0..n - 1 : Table!StopsAt(b, k, at(d))}
           Is(d) == Table!StopsAt(b, k, at(d)) /\ \A c \in 0..d - 1 : ~Table!StopsAt(b, k, at(c))
           steps == CHOOSE d \in 0..n - 1 : Is(d)
<1>3. Table!Walk(b, k) = at(steps)
  BY <1>1, <1>2 DEF Table!Walk
<1>4. Stops # {}
  <2>1. PICK idx \in 0..n - 1 : b[idx] = Empty
    BY EmptyBucket
  <2>2. Dist(n, i, idx) \in 0..n - 1 /\ at(Dist(n, i, idx)) = idx
    BY Diffs
  <2>3. Table!StopsAt(b, k, at(Dist(n, i, idx)))
    BY <2>1, <2>2 DEF Table!StopsAt
  <2>4. QED
    BY <2>2, <2>3
<1>5. PICK d \in Stops : \A c \in Stops : d <= c
  <2>1. Stops \in SUBSET Nat
    BY <1>1
  <2>2. QED
    BY <1>4, <2>1, LeastNat
<1>6. d \in 0..n - 1 /\ Is(d)
  BY <1>1, <1>5
<1>7. steps \in 0..n - 1 /\ Is(steps)
  <2> HIDE DEF Is
  <2>1. QED
    BY <1>6
<1> HIDE DEF steps
<1>8. at(steps) \in 0..n - 1 /\ Dist(n, i, at(steps)) = steps
  BY <1>7, Diffs
<1>9. ASSUME NEW x \in 0..n - 1, Dist(n, i, x) < steps PROVE ~Table!StopsAt(b, k, x)
  <2>1. Dist(n, i, x) \in 0..n - 1 /\ at(Dist(n, i, x)) = x
    BY Diffs
  <2>2. Dist(n, i, x) \in 0..steps - 1
    BY <1>1, <1>7, <1>9, <2>1
  <2>3. QED
    BY <1>7, <2>1, <2>2
<1>10. QED
  BY <1>2, <1>3, <1>7, <1>8, <1>9

-----------------------------------------------------------------------------
(* How the hole moves through a run, bucket by bucket.                      *)
Shift(b, start, d, before) ==
  LET at == Table!Probe(b, start, d)
      ideal == Table!Ideal(b, b[at][1])
  IN  IF Table!Diff(b, before.hole, ideal) < Table!Diff(b, at, ideal)
      THEN [slots |-> [before.slots EXCEPT ![before.hole] = b[at]], hole |-> at]
      ELSE before
Shifts(b, start, r, f) ==
  f = [d \in 0..r - 1 |-> IF d = 0 THEN [slots |-> b, hole |-> start]
                          ELSE Shift(b, start, d, f[d - 1])]

(* The function that shifts entries over the hole of erase exists.          *)
LEMMA ShiftsSome == \A b, start : \A r \in Nat \ {0} : \E f : Shifts(b, start, r, f)
<1> SUFFICES ASSUME NEW b, NEW start PROVE \A r \in Nat \ {0} : \E f : Shifts(b, start, r, f)
  OBVIOUS
<1> DEFINE First == [slots |-> b, hole |-> start]
           Bad == {r \in Nat \ {0} : ~\E f : Shifts(b, start, r, f)}
<1>1. \E f : Shifts(b, start, 1, f)
  <2>1. Shifts(b, start, 1, [d \in 0..1 - 1 |-> First])
    BY DEF Shifts
  <2>2. QED
    BY <2>1
<1>2. ASSUME NEW r \in Nat \ {0}, NEW f, Shifts(b, start, r, f)
      PROVE  \E g : Shifts(b, start, r + 1, g)
  <2> HIDE DEF First
  <2>1. PICK g : g = [d \in 0..r |-> IF d = 0 THEN First ELSE Shift(b, start, d, f[d - 1])]
    OBVIOUS
  <2>2. \A d \in 0..r - 1 : f[d] = IF d = 0 THEN First ELSE Shift(b, start, d, f[d - 1])
    BY <1>2 DEF Shifts, First
  <2>3. ASSUME NEW d \in 0..r - 1 PROVE g[d] = f[d]
    <3>1. d \in 0..r
      OBVIOUS
    <3>2. g[d] = IF d = 0 THEN First ELSE Shift(b, start, d, f[d - 1])
      BY <2>1, <3>1
    <3>3. QED
      BY <2>2, <3>2
  <2>4. \A d \in 0..r : d # 0 => g[d - 1] = f[d - 1]
    BY <2>3
  <2>5. g = [d \in 0..r |-> IF d = 0 THEN First ELSE Shift(b, start, d, g[d - 1])]
    BY <2>1, <2>4
  <2>6. r + 1 - 1 = r
    OBVIOUS
  <2>7. Shifts(b, start, r + 1, g)
    BY <2>5, <2>6 DEF Shifts, First
  <2>8. QED
    BY <2>7
<1>3. Bad = {}
  <2>1. SUFFICES ASSUME Bad # {} PROVE FALSE
    OBVIOUS
  <2>2. PICK r \in Bad : \A l \in Bad : r <= l
    BY <2>1, LeastNat
  <2>3. r # 1 /\ r - 1 \in Nat \ {0} /\ r - 1 \notin Bad
    BY <1>1, <2>2
  <2>4. \E f : Shifts(b, start, r - 1 + 1, f)
    BY <1>2, <2>3
  <2>5. QED
    BY <2>2, <2>3, <2>4
<1>4. QED
  BY <1>3

(* The run of erase, from a bucket to the first empty one behind it.        *)
Run(b, start, n, r) ==
  /\ r \in 1..n - 1 /\ b[Table!Probe(b, start, r)] = Empty
  /\ \A c \in 1..r - 1 : b[Table!Probe(b, start, c)] # Empty

(* It ends, and erase shifts what is in it. *)
LEMMA ErasedShifts ==
  ASSUME NEW b, NEW n, Buckets(b, n), Cardinality(InUse(b)) < n, NEW start \in 0..n - 1,
         b[start] # Empty
  PROVE  \E r, f : /\ Run(b, start, n, r) /\ Shifts(b, start, r, f)
                   /\ Table!Erased(b, start) = [f[r - 1].slots EXCEPT ![f[r - 1].hole] = Empty]
<1> DEFINE at(d) == Table!Probe(b, start, d)
           HoleStops == {d \in 1..n - 1 : b[at(d)] = Empty}
           Is(d) == b[at(d)] = Empty /\ \A c \in 1..d - 1 : b[at(c)] # Empty
           run == CHOOSE d \in 1..n - 1 : Is(d)
<1>1. n \in Nat \ {0} /\ Table!Count(b) = n /\ DOMAIN b = 0..n - 1
  BY TableCounts DEF Buckets
<1>2. HoleStops # {}
  <2>1. PICK idx \in 0..n - 1 : b[idx] = Empty
    BY EmptyBucket
  <2>2. PICK d \in 0..n - 1 : at(d) = idx /\ (idx # start => d # 0)
    <3>1. \A x \in 0..n - 1 :
            \E d \in 0..n - 1 : Table!Probe(b, start, d) = x /\ (x # start => d # 0)
      BY ProbesReach
    <3>2. QED
      BY <2>1, <3>1
  <2>3. d \in 1..n - 1
    BY <1>1, <2>1, <2>2
  <2>4. QED
    BY <2>1, <2>2, <2>3
<1>3. PICK e \in HoleStops : \A c \in HoleStops : e <= c
  <2>1. HoleStops \in SUBSET Nat
    BY <1>1
  <2>2. QED
    BY <1>2, <2>1, LeastNat
<1>4. e \in 1..n - 1 /\ Is(e)
  BY <1>1, <1>3
<1>5. run \in 1..n - 1 /\ Is(run)
  BY <1>4
<1>6. PICK f : f = CHOOSE g : Shifts(b, start, run, g)
  OBVIOUS
<1>7. Shifts(b, start, run, f)
  <2>1. run \in Nat \ {0}
    BY <1>1, <1>5
  <2> HIDE DEF run
  <2>2. QED
    BY <1>6, <2>1, ShiftsSome
<1>8. Table!Erased(b, start) = [f[run - 1].slots EXCEPT ![f[run - 1].hole] = Empty]
  BY <1>1, <1>6 DEF Table!Erased, Shifts, Shift
<1>9. Run(b, start, n, run)
  BY <1>5 DEF Run
<1> HIDE DEF run
<1>10. QED
  BY <1>7, <1>8, <1>9

(* While it shifts, the same buckets are in use.                            *)
LEMMA ShiftsUse ==
  ASSUME NEW b, NEW n, Buckets(b, n), NEW start \in 0..n - 1, b[start] # Empty,
         NEW run, Run(b, start, n, run), NEW f, Shifts(b, start, run, f)
  PROVE  \A d \in 0..run - 1 :
           /\ Buckets(f[d].slots, n) /\ InUse(f[d].slots) = InUse(b)
           /\ f[d].hole \in InUse(b)
<1> DEFINE at(d) == Table!Probe(b, start, d)
           Fine(d) == /\ Buckets(f[d].slots, n) /\ InUse(f[d].slots) = InUse(b)
                      /\ f[d].hole \in InUse(b)
           Bad == {d \in 0..run - 1 : ~Fine(d)}
<1>1. n \in Nat \ {0} /\ DOMAIN b = 0..n - 1
  BY DEF Buckets
<1>2. run \in 1..n - 1 /\ \A c \in 1..run - 1 : b[at(c)] # Empty
  BY DEF Run
<1>3. \A d \in 0..run - 1 : f[d] = IF d = 0 THEN [slots |-> b, hole |-> start]
                                   ELSE Shift(b, start, d, f[d - 1])
  BY DEF Shifts
<1>4. Fine(0)
  <2>1. f[0] = [slots |-> b, hole |-> start]
    BY <1>1, <1>2, <1>3
  <2>2. QED
    BY <1>1, <2>1 DEF InUse
<1>5. ASSUME NEW d \in 0..run - 1, d # 0, Fine(d - 1) PROVE Fine(d)
  <2>1. d \in 1..run - 1 /\ d \in 1..n - 1 /\ d \in 0..n - 1
    BY <1>1, <1>2, <1>5
  <2>2. f[d] = Shift(b, start, d, f[d - 1])
    BY <1>3, <1>5
  <2>3. at(d) \in 0..n - 1 /\ b[at(d)] # Empty
    BY <1>2, <2>1, ProbesReach
  <2>4. CASE f[d] = f[d - 1]
    BY <1>5, <2>4
  <2>5. CASE f[d] # f[d - 1]
    <3> DEFINE s == f[d - 1].slots
               h == f[d - 1].hole
    <3>1. f[d] = [slots |-> [s EXCEPT ![h] = b[at(d)]], hole |-> at(d)]
      BY <2>2, <2>5 DEF Shift
    <3>2. Buckets(s, n) /\ InUse(s) = InUse(b) /\ h \in InUse(b)
      BY <1>5
    <3> HIDE DEF s, h
    <3> DEFINE t == [s EXCEPT ![h] = b[at(d)]]
    <3>3. f[d].slots = t /\ f[d].hole = at(d)
      BY <3>1
    <3>4. at(d) \in InUse(b)
      BY <1>1, <2>3 DEF InUse
    <3> HIDE DEF at
    <3>5. Buckets(t, n)
      BY <3>2 DEF Buckets
    <3>6. \A idx : idx \in InUse(t) <=> idx \in InUse(s)
      BY <2>3, <3>2 DEF InUse
    <3> HIDE DEF t
    <3>7. InUse(t) = InUse(b)
      BY <3>2, <3>6
    <3>8. QED
      BY <3>3, <3>4, <3>5, <3>7
  <2>6. QED
    BY <2>4, <2>5
<1> HIDE DEF Fine
<1>6. Bad = {}
  <2>1. SUFFICES ASSUME Bad # {} PROVE FALSE
    OBVIOUS
  <2>2. Bad \in SUBSET Nat
    BY <1>1, <1>2
  <2>3. PICK d \in Bad : \A c \in Bad : d <= c
    BY <2>1, <2>2, LeastNat
  <2>4. d # 0 /\ d - 1 \in 0..run - 1 /\ d - 1 \notin Bad
    BY <1>1, <1>2, <1>4, <2>3
  <2>5. QED
    BY <1>5, <2>3, <2>4
<1>7. QED
  BY <1>6 DEF Fine

(* An erase leaves one bucket less in use.                                 *)
LEMMA ErasedUses ==
  ASSUME NEW b, NEW n, Buckets(b, n), Cardinality(InUse(b)) < n, NEW start \in 0..n - 1,
         b[start] # Empty
  PROVE  /\ Buckets(Table!Erased(b, start), n)
         /\ Cardinality(InUse(Table!Erased(b, start))) = Cardinality(InUse(b)) - 1
<1>1. PICK run, f : /\ Run(b, start, n, run) /\ Shifts(b, start, run, f)
                    /\ Table!Erased(b, start) = [f[run - 1].slots EXCEPT ![f[run - 1].hole] = Empty]
  BY ErasedShifts
<1>2. run - 1 \in 0..run - 1
  BY <1>1 DEF Run
<1> DEFINE s == f[run - 1].slots
           h == f[run - 1].hole
           t == [s EXCEPT ![h] = Empty]
<1>3. Buckets(s, n) /\ InUse(s) = InUse(b) /\ h \in InUse(b)
  BY <1>1, <1>2, ShiftsUse
<1>4. Table!Erased(b, start) = t
  BY <1>1
<1> HIDE DEF s, h
<1>5. Buckets(t, n)
  BY <1>3 DEF Buckets
<1>6. InUse(t) = InUse(b) \ {h}
  <2>1. \A idx : idx \in InUse(t) <=> idx \in InUse(s) /\ idx # h
    BY <1>3 DEF InUse
  <2>2. QED
    BY <1>3, <2>1
<1>7. Cardinality(InUse(b) \ {h}) = Cardinality(InUse(b)) - 1
  BY <1>3, InUseFinite, FS_RemoveElement
<1>8. QED
  BY <1>4, <1>5, <1>6, <1>7
-----------------------------------------------------------------------------
(* The table is half empty, and so it will be after an emplace.             *)
TableInv ==
  /\ used \in Nat /\ used * 2 <= MaxBuckets
  /\ \E n : Buckets(buckets, n) /\ used * 2 <= n
  /\ Cardinality(InUse(buckets)) <= used
  /\ \A k \in Key : hashOf[k] \in Int

(* The constructor makes an empty table.                                    *)
LEMMA InitTableInv == Table!Init => TableInv
<1> SUFFICES ASSUME Table!Init PROVE TableInv
  OBVIOUS
<1>1. PICK n \in Table!Powers : buckets = Table!Blank(n)
  BY DEF Table!Init
<1>2. n \in Nat \ {0} /\ MaxBuckets \in Nat \ {0}
  BY <1>1, BucketsAssumption DEF Table!Powers
<1>3. buckets = [idx \in 0..n - 1 |-> Empty]
  BY <1>1 DEF Table!Blank
<1>4. Buckets(buckets, n) /\ InUse(buckets) = {}
  BY <1>2, <1>3 DEF Buckets, InUse
<1>5. used = 0 /\ \A k \in Key : hashOf[k] \in Int
  BY <1>2 DEF Table!Init
<1>6. Cardinality(InUse(buckets)) = 0
  BY <1>4, FS_EmptySet
<1>7. used \in Nat /\ used * 2 <= MaxBuckets /\ used * 2 <= n
  BY <1>2, <1>5
<1>8. QED
  BY <1>4, <1>5, <1>6, <1>7 DEF TableInv

(* What a call makes of the table. *)
LEMMA TableMade ==
  ASSUME TableInv, NEW n, Buckets(buckets', n), used' \in Nat, used' * 2 <= n,
         used' * 2 <= MaxBuckets, Cardinality(InUse(buckets')) <= used', hashOf' = hashOf
  PROVE  TableInv'
<1>1. InUse(buckets)' = InUse(buckets')
  BY DEF InUse
<1>2. Cardinality(InUse(buckets))' <= used'
  BY <1>1
<1>3. \E m : Buckets(buckets', m) /\ used' * 2 <= m
  OBVIOUS
<1>4. \A k \in Key : hashOf'[k] \in Int
  BY DEF TableInv
<1>5. QED
  BY <1>2, <1>3, <1>4 DEF TableInv, Buckets

(* emplace grows the table first, and so keeps it half empty.               *)
LEMMA EmplaceHalf ==
  ASSUME TableInv, NEW k \in Key, NEW v, Table!Emplace(k, v)
  PROVE  TableInv'
<1> DEFINE b == Table!Reserved(buckets, used + 1)
           z == Table!SizeIn(b)
<1>1. /\ (used + 1) * 2 <= MaxBuckets /\ hashOf' = hashOf
      /\ \/ buckets' = b /\ used' = z
         \/ buckets' = Table!Stored(b, k, v) /\ used' = z + 1
  BY DEF Table!Emplace
<1>2. PICK n : Buckets(buckets, n) /\ used * 2 <= n
  BY DEF TableInv
<1>3. n \in Nat \ {0} /\ used \in Nat /\ MaxBuckets \in Nat /\ Table!Count(buckets) = n
  BY <1>2, TableCounts, BucketsAssumption DEF Buckets, TableInv, Table!Powers
<1>4. /\ Cardinality(InUse(buckets)) <= used /\ Cardinality(InUse(buckets)) \in Nat
  BY <1>2, InUseFinite DEF TableInv
<1>5. PICK m : /\ Buckets(b, m) /\ z \in Nat /\ z <= used /\ Cardinality(InUse(b)) <= z
               /\ (z + 1) * 2 <= m
  <2>1. CASE (used + 1) * 2 > n
    <3>1. b = Table!Rehashed(buckets, n * 2)
      BY <1>3, <2>1 DEF Table!Reserved
    <3>2. n * 2 \in Nat \ {0} /\ n * 2 # n
      BY <1>3
    <3>3. Buckets(b, n * 2) /\ Cardinality(InUse(b)) <= Cardinality(InUse(buckets))
      BY <1>2, <3>1, <3>2, RehashedUses
    <3>4. Table!Count(b) = n * 2 /\ Table!Used(b) = Cardinality(InUse(b))
      BY <3>3, TableCounts
    <3>5. z = Cardinality(InUse(b))
      BY <1>3, <3>2, <3>4 DEF Table!SizeIn
    <3>6. z \in Nat
      BY <3>3, <3>5, InUseFinite
    <3> HIDE DEF b, z
    <3>7. z <= used /\ (z + 1) * 2 <= n * 2
      BY <1>2, <1>3, <1>4, <3>3, <3>5, <3>6
    <3>8. QED
      BY <3>3, <3>5, <3>6, <3>7
  <2>2. CASE ~((used + 1) * 2 > n)
    <3>1. b = buckets
      BY <1>3, <2>2 DEF Table!Reserved
    <3>2. z = used
      BY <3>1 DEF Table!SizeIn
    <3> HIDE DEF b, z
    <3>3. (z + 1) * 2 <= n
      BY <1>3, <2>2, <3>2
    <3>4. QED
      BY <1>2, <1>3, <1>4, <3>1, <3>2, <3>3
  <2>3. QED
    BY <2>1, <2>2
<1>6. m \in Nat \ {0}
  BY <1>5 DEF Buckets
<1> HIDE DEF b, z
<1>7. CASE buckets' = b /\ used' = z
  <2>1. used' \in Nat /\ used' * 2 <= m /\ used' * 2 <= MaxBuckets
    BY <1>1, <1>3, <1>5, <1>6, <1>7
  <2>2. Buckets(buckets', m) /\ Cardinality(InUse(buckets')) <= used'
    BY <1>5, <1>7
  <2>3. QED
    BY <1>1, <2>1, <2>2, TableMade
<1>8. CASE buckets' = Table!Stored(b, k, v) /\ used' = z + 1
  <2>1. used' \in Nat /\ used' * 2 <= m /\ used' * 2 <= MaxBuckets
    BY <1>1, <1>3, <1>5, <1>6, <1>8
  <2>2. Buckets(buckets', m) /\ Cardinality(InUse(buckets')) <= Cardinality(InUse(b)) + 1
    BY <1>5, <1>8, StoredUses
  <2>3. Cardinality(InUse(b)) \in Nat /\ Cardinality(InUse(buckets')) \in Nat
    BY <1>5, <2>2, InUseFinite
  <2>4. Cardinality(InUse(buckets')) <= used'
    BY <1>5, <1>8, <2>2, <2>3
  <2>5. QED
    BY <1>1, <2>1, <2>2, <2>4, TableMade
<1>9. QED
  BY <1>1, <1>7, <1>8

(* erase takes one entry out and one off size_.                             *)
LEMMA EraseHalf ==
  ASSUME TableInv, NEW k \in Key, Table!Erase(k)
  PROVE  TableInv'
<1> DEFINE w == Table!Walk(buckets, k)
<1>1. /\ buckets[w] # Empty /\ buckets' = Table!Erased(buckets, w)
      /\ used' = used - 1 /\ hashOf' = hashOf
  BY DEF Table!Erase, Table!Found
<1>2. PICK n : Buckets(buckets, n) /\ used * 2 <= n
  BY DEF TableInv
<1>3. n \in Nat \ {0} /\ used \in Nat /\ MaxBuckets \in Nat /\ used * 2 <= MaxBuckets
  BY <1>2, BucketsAssumption DEF Buckets, TableInv, Table!Powers
<1>4. Cardinality(InUse(buckets)) <= used /\ Cardinality(InUse(buckets)) \in Nat
  BY <1>2, InUseFinite DEF TableInv
<1>5. Cardinality(InUse(buckets)) < n
  BY <1>2, <1>3, <1>4
<1>6. w \in 0..n - 1
  BY <1>2, <1>5, WalkEnds DEF TableInv
<1> HIDE DEF w
<1>7. Buckets(buckets', n) /\ Cardinality(InUse(buckets')) = Cardinality(InUse(buckets)) - 1
  BY <1>1, <1>2, <1>5, <1>6, ErasedUses
<1>8. Cardinality(InUse(buckets')) \in Nat
  BY <1>7, InUseFinite
<1>9. /\ used' \in Nat /\ used' * 2 <= n /\ used' * 2 <= MaxBuckets
      /\ Cardinality(InUse(buckets')) <= used'
  BY <1>1, <1>2, <1>3, <1>4, <1>7, <1>8
<1>10. QED
  BY <1>1, <1>7, <1>9, TableMade

(* rehash and reserve make a table that is large enough.                    *)
LEMMA RehashSize ==
  ASSUME TableInv, NEW count \in 1..MaxBuckets, Table!Rehash(count)
  PROVE  \E m \in Nat \ {0} :
           /\ m >= used * 2 /\ hashOf' = hashOf
           /\ buckets' = Table!Rehashed(buckets, m) /\ used' = Cardinality(InUse(buckets))
<1>1. used \in Nat /\ MaxBuckets \in Nat \ {0} /\ used * 2 <= MaxBuckets
  BY BucketsAssumption DEF TableInv, Table!Powers
<1>2. PICK q : q = Table!Max({count, used * 2})
  OBVIOUS
<1>3. q \in Nat /\ q >= used * 2 /\ q <= MaxBuckets
  <2>1. \E x \in {count, used * 2} : \A y \in {count, used * 2} : x >= y
    BY <1>1
  <2>2. q \in {count, used * 2} /\ q >= used * 2
    BY <1>2, <2>1 DEF Table!Max
  <2>3. QED
    BY <1>1, <2>2
<1> DEFINE Enough == {b \in Table!Powers : b >= q}
           Least(b) == b >= q /\ \A c \in Table!Powers : c >= q => b <= c
<1>4. Enough \in SUBSET Nat /\ MaxBuckets \in Enough
  BY <1>1, <1>3, BucketsAssumption DEF Table!Powers
<1>5. \E b \in Table!Powers : Least(b)
  <2>1. PICK b \in Enough : \A c \in Enough : b <= c
    BY <1>4, LeastNat
  <2>2. QED
    BY <2>1
<1>6. PICK m : m = Table!Pow2(q)
  OBVIOUS
<1>7. m \in Table!Powers /\ Least(m)
  BY <1>5, <1>6 DEF Table!Pow2
<1>8. m \in Nat \ {0} /\ m >= used * 2
  BY <1>1, <1>3, <1>7 DEF Table!Powers
<1>9. QED
  BY <1>2, <1>6, <1>8, TableCounts DEF Table!Rehash

LEMMA RehashHalf ==
  ASSUME TableInv, NEW count \in 1..MaxBuckets, Table!Rehash(count)
  PROVE  TableInv'
<1>1. PICK n : Buckets(buckets, n) /\ used * 2 <= n
  BY DEF TableInv
<1>2. used \in Nat /\ used * 2 <= MaxBuckets /\ MaxBuckets \in Nat
  BY BucketsAssumption DEF TableInv, Table!Powers
<1>3. PICK m \in Nat \ {0} :
        /\ m >= used * 2 /\ hashOf' = hashOf
        /\ buckets' = Table!Rehashed(buckets, m) /\ used' = Cardinality(InUse(buckets))
  BY RehashSize
<1>4. Buckets(buckets', m) /\ Cardinality(InUse(buckets')) <= Cardinality(InUse(buckets))
  BY <1>1, <1>3, RehashedUses
<1>5. Cardinality(InUse(buckets)) <= used /\ Cardinality(InUse(buckets)) \in Nat
  BY <1>1, InUseFinite DEF TableInv
<1>6. used' \in Nat /\ used' * 2 <= m /\ used' * 2 <= MaxBuckets
  BY <1>2, <1>3, <1>5
<1>7. QED
  BY <1>3, <1>4, <1>6, TableMade

(* clear empties the buckets and leaves size_.                              *)
LEMMA ClearHalf == ASSUME TableInv, Table!Clear PROVE TableInv'
<1>1. PICK n : Buckets(buckets, n) /\ used * 2 <= n
  BY DEF TableInv
<1>2. n \in Nat \ {0} /\ Table!Count(buckets) = n
  BY <1>1, TableCounts DEF Buckets
<1>3. buckets' = [idx \in 0..n - 1 |-> Empty] /\ used' = used /\ hashOf' = hashOf
  BY <1>2 DEF Table!Clear, Table!Blank
<1>4. Buckets(buckets', n) /\ InUse(buckets') = {}
  BY <1>2, <1>3 DEF Buckets, InUse
<1>5. used' \in Nat /\ used' * 2 <= n /\ used' * 2 <= MaxBuckets
  BY <1>1, <1>3 DEF TableInv
<1>6. Cardinality(InUse(buckets')) <= used'
  BY <1>4, <1>5, FS_EmptySet
<1>7. QED
  BY <1>3, <1>4, <1>5, <1>6, TableMade

(* Every call keeps the table half empty.                                   *)
LEMMA StepTableInv == TableInv /\ [Table!Next]_(Table!vars) => TableInv'
<1>1. ASSUME TableInv, Table!Next PROVE TableInv'
  BY <1>1, EmplaceHalf, EraseHalf, RehashHalf, ClearHalf DEF Table!Next
<1>2. ASSUME TableInv, UNCHANGED Table!vars PROVE TableInv'
  BY <1>2 DEF TableInv, Buckets, InUse, Table!vars
<1>3. QED
  BY <1>1, <1>2

(* For any hash function, any keys and any number of buckets: half of the   *)
(* buckets are empty, so the loops of emplace, find and erase in HashMap.h  *)
(* that have no bound but an empty bucket end, also after a clear, which    *)
(* leaves size_ too large.                                                  *)
THEOREM TableHalfEmpty == ContainersSpec => []HalfEmpty
<1> DEFINE HInv == tried = "HashMap" => TableInv
<1>1. ContainersInit => HInv
  BY InitTableInv DEF ContainersInit
<1>2. HInv /\ [ContainersNext]_<<tried, vars, table, freeLists>> => HInv'
  <2> SUFFICES ASSUME HInv, [ContainersNext]_<<tried, vars, table, freeLists>>,
                      tried' = "HashMap"
               PROVE  TableInv'
    OBVIOUS
  <2>1. tried = "HashMap" /\ [Table!Next]_(Table!vars)
    BY DEF ContainersNext, table, Table!vars
  <2>2. TableInv
    BY <2>1
  <2>3. QED
    BY <2>1, <2>2, StepTableInv
<1>3. HInv => HalfEmpty
  <2> SUFFICES ASSUME HInv, tried = "HashMap" PROVE Table!HalfEmpty
    BY DEF HalfEmpty
  <2>1. PICK n : Buckets(buckets, n) /\ used * 2 <= n
    BY DEF TableInv
  <2>2. Table!Count(buckets) = n /\ Table!Used(buckets) = Cardinality(InUse(buckets))
    BY <2>1, TableCounts
  <2>3. QED
    BY <2>1, <2>2 DEF TableInv, Table!HalfEmpty
<1>4. QED
  BY <1>1, <1>2, <1>3, PTL DEF ContainersSpec
-----------------------------------------------------------------------------
(* A walk from i comes to x before it comes to an empty bucket.             *)
Goes(b, n, i, x) == \A y \in 0..n - 1 : Dist(n, i, y) < Dist(n, i, x) => b[y] # Empty

(* What makes a table a map: each key is in one bucket, and a walk to it    *)
(* meets no empty bucket.                                                   *)
Good(b, n) ==
  /\ Buckets(b, n)
  /\ \A x \in 0..n - 1 : b[x] # Empty => b[x] \in Key \X Value
  /\ \A x, y \in 0..n - 1 : b[x] # Empty /\ b[y] # Empty /\ b[x][1] = b[y][1] => x = y
  /\ \A x \in 0..n - 1 : b[x] # Empty => Goes(b, n, Home(b[x][1], n), x)

(* A walk ends at the bucket of its key, or at an empty one.                *)
LEMMA WalkFinds ==
  ASSUME NEW b, NEW n, Good(b, n), Cardinality(InUse(b)) < n, NEW k, hashOf[k] \in Int
  PROVE  /\ \A x \in 0..n - 1 : b[x] # Empty /\ b[x][1] = k => Table!Walk(b, k) = x
         /\ Table!Found(b, k) <=> \E x \in 0..n - 1 : b[x] # Empty /\ b[x][1] = k
<1> DEFINE w == Table!Walk(b, k)
           i == Home(k, n)
<1>1. Buckets(b, n) /\ n \in Nat \ {0}
  BY DEF Good, Buckets
<1>2. /\ i \in 0..n - 1 /\ w \in 0..n - 1 /\ Table!StopsAt(b, k, w)
      /\ \A x \in 0..n - 1 : Dist(n, i, x) < Dist(n, i, w) => ~Table!StopsAt(b, k, x)
  BY <1>1, WalkEnds
<1> HIDE DEF w, i
<1>3. ASSUME NEW x \in 0..n - 1, b[x] # Empty, b[x][1] = k PROVE w = x
  <2>1. Goes(b, n, i, x)
    BY <1>3 DEF Good, i
  <2>2. ~(Dist(n, i, x) < Dist(n, i, w))
    BY <1>2, <1>3 DEF Table!StopsAt
  <2>3. CASE Dist(n, i, w) < Dist(n, i, x)
    <3>1. b[w] # Empty
      BY <1>2, <2>1, <2>3 DEF Goes
    <3>2. b[w][1] = k
      BY <1>2, <3>1 DEF Table!StopsAt
    <3>3. QED
      BY <1>2, <1>3, <3>1, <3>2 DEF Good
  <2>4. CASE ~(Dist(n, i, w) < Dist(n, i, x))
    <3>1. Dist(n, i, w) \in Int /\ Dist(n, i, x) \in Int
      BY <1>1, <1>2 DEF Dist
    <3>2. Dist(n, i, w) = Dist(n, i, x)
      BY <2>2, <2>4, <3>1
    <3>3. QED
      BY <1>1, <1>2, <3>2, DistSame
  <2>5. QED
    BY <2>3, <2>4
<1>4. Table!Found(b, k) <=> b[w] # Empty
  BY DEF Table!Found, w
<1>5. b[w] # Empty => b[w][1] = k
  BY <1>2 DEF Table!StopsAt
<1>6. QED
  BY <1>2, <1>3, <1>4, <1>5 DEF w

(* An entry of a new key is put where the walk to it ends.                  *)
LEMMA StoredKeeps ==
  ASSUME NEW b, NEW n, Good(b, n), Cardinality(InUse(b)) < n,
         NEW k \in Key, NEW v \in Value, hashOf[k] \in Int,
         \A x \in 0..n - 1 : b[x] # Empty => b[x][1] # k
  PROVE  /\ Good(Table!Stored(b, k, v), n)
         /\ Table!Entries(Table!Stored(b, k, v)) = Table!Entries(b) \cup {<<k, v>>}
<1> DEFINE w == Table!Walk(b, k)
           i == Home(k, n)
           e == <<k, v>>
           s == [b EXCEPT ![w] = e]
<1>1. Buckets(b, n) /\ n \in Nat \ {0} /\ DOMAIN b = 0..n - 1
  BY DEF Good, Buckets
<1>2. Table!Stored(b, k, v) = s
  BY DEF Table!Stored
<1>3. /\ i \in 0..n - 1 /\ w \in 0..n - 1 /\ Table!StopsAt(b, k, w)
      /\ \A x \in 0..n - 1 : Dist(n, i, x) < Dist(n, i, w) => ~Table!StopsAt(b, k, x)
  BY <1>1, WalkEnds
<1>4. e \in Key \X Value /\ e # Empty /\ e[1] = k
  BY EmptyAssumption
<1> HIDE DEF w, e
<1>5. b[w] = Empty
  BY <1>3 DEF Table!StopsAt
<1>6. Buckets(s, n) /\ DOMAIN s = 0..n - 1
  BY <1>1 DEF Buckets
<1>7. s[w] = e /\ \A x \in 0..n - 1 : x # w => s[x] = b[x]
  BY <1>1, <1>3
<1> HIDE DEF s
<1>8. \A x \in 0..n - 1 : b[x] # Empty => s[x] # Empty /\ s[x] = b[x]
  BY <1>5, <1>7
<1>9. \A x \in 0..n - 1 : s[x] # Empty => s[x] \in Key \X Value
  BY <1>4, <1>7 DEF Good
<1>10. \A x, y \in 0..n - 1 : s[x] # Empty /\ s[y] # Empty /\ s[x][1] = s[y][1] => x = y
  BY <1>4, <1>7 DEF Good
<1>11. ASSUME NEW x \in 0..n - 1, s[x] # Empty PROVE Goes(s, n, Home(s[x][1], n), x)
  <2>1. CASE x = w
    <3>1. Home(s[x][1], n) = i
      BY <1>4, <1>7, <2>1
    <3>2. Goes(b, n, i, x)
      BY <1>3, <2>1 DEF Goes, Table!StopsAt
    <3>3. QED
      BY <1>8, <3>1, <3>2 DEF Goes
  <2>2. CASE x # w
    <3>1. s[x] = b[x] /\ b[x] # Empty
      BY <1>7, <1>11, <2>2
    <3>2. Goes(b, n, Home(b[x][1], n), x)
      BY <3>1 DEF Good
    <3>3. QED
      BY <1>8, <3>1, <3>2 DEF Goes
  <2>3. QED
    BY <2>1, <2>2
<1>12. Good(s, n)
  BY <1>6, <1>9, <1>10, <1>11 DEF Good
<1>13. \A z : z \in Table!Entries(s) <=> z \in Table!Entries(b) \cup {e}
  <2>1. \A z : z \in Table!Entries(s) <=> z # Empty /\ \E x \in 0..n - 1 : s[x] = z
    BY <1>6 DEF Table!Entries
  <2>2. \A z : z \in Table!Entries(b) <=> z # Empty /\ \E x \in 0..n - 1 : b[x] = z
    BY <1>1 DEF Table!Entries
  <2>3. QED
    BY <1>3, <1>4, <1>5, <1>7, <2>1, <2>2
<1>14. Table!Entries(s) = Table!Entries(b) \cup {e}
  BY <1>13
<1>15. QED
  BY <1>2, <1>12, <1>14 DEF e

(* A rehash has the same entries, and is a map again.                       *)
LEMMA RehashedKeeps ==
  ASSUME NEW b, NEW m, Good(b, m), NEW n \in Nat \ {0}, Cardinality(InUse(b)) <= n,
         \A k \in Key : hashOf[k] \in Int
  PROVE  /\ Good(Table!Rehashed(b, n), n)
         /\ Table!Entries(Table!Rehashed(b, n)) = Table!Entries(b)
<1>1. Buckets(b, m) /\ m \in Nat \ {0} /\ DOMAIN b = 0..m - 1
  BY DEF Good, Buckets
<1>2. PICK f : Copies(b, n, m, f) /\ Table!Rehashed(b, n) = f[m]
  BY <1>1, RehashedCopies
<1>3. \A idx \in 0..m : f[idx] = IF idx = 0 THEN Table!Blank(n) ELSE Copied(b, idx - 1, f[idx - 1])
  BY <1>2 DEF Copies
<1> DEFINE Same(idx) == \A e : e \in Table!Entries(f[idx]) <=> e # Empty /\ \E x \in 0..idx - 1 : b[x] = e
           Fine(idx) == Good(f[idx], n) /\ Same(idx)
           Bad == {idx \in 0..m : ~Fine(idx)}
<1>4. Fine(0)
  <2>1. f[0] = [idx \in 0..n - 1 |-> Empty]
    BY <1>1, <1>3 DEF Table!Blank
  <2>2. Good(f[0], n)
    BY <2>1 DEF Good, Buckets
  <2>3. Table!Entries(f[0]) = {}
    BY <2>1 DEF Table!Entries
  <2>4. QED
    BY <2>2, <2>3
<1>5. ASSUME NEW idx \in 0..m, idx # 0, Fine(idx - 1) PROVE Fine(idx)
  <2>1. f[idx] = Copied(b, idx - 1, f[idx - 1]) /\ idx - 1 \in 0..m /\ idx - 1 \in 0..m - 1
    <3>1. idx \in 0..m /\ idx # 0
      BY <1>5
    <3>2. QED
      BY <1>1, <1>3, <3>1
  <2>2. Good(f[idx - 1], n) /\ Same(idx - 1)
    BY <1>5
  <2>3. \A x : x \in 0..idx - 1 <=> x \in 0..idx - 1 - 1 \/ x = idx - 1
    BY <1>1, <1>5
  <2>4. CASE b[idx - 1] = Empty
    <3>1. f[idx] = f[idx - 1]
      BY <2>1, <2>4 DEF Copied
    <3>2. Same(idx)
      BY <2>2, <2>3, <2>4, <3>1
    <3>3. QED
      BY <2>2, <3>1, <3>2
  <2>5. CASE b[idx - 1] # Empty
    <3> DEFINE e == b[idx - 1]
               s == f[idx - 1]
    <3>1. f[idx] = Table!Stored(s, e[1], e[2])
      BY <2>1, <2>5 DEF Copied
    <3>2. e \in Key \X Value /\ e[1] \in Key /\ e[2] \in Value /\ e = <<e[1], e[2]>>
      BY <2>1, <2>5 DEF Good
    <3>3. Good(s, n) /\ DOMAIN s = 0..n - 1
      BY <2>2 DEF Good, Buckets
    <3>4. Cardinality(InUse(s)) < n
      <4>1. Cardinality(InUse(s)) <= Cardinality(Earlier(b, idx - 1))
        BY <1>1, <1>2, <2>1, CopiesUse
      <4>2. Earlier(b, idx - 1) \subseteq InUse(b) \ {idx - 1} /\ idx - 1 \in InUse(b)
        BY <1>1, <2>1, <2>5 DEF Earlier, InUse
      <4>3. IsFiniteSet(InUse(b)) /\ Cardinality(InUse(b)) \in Nat
        BY <1>1, InUseFinite
      <4>4. /\ IsFiniteSet(InUse(b) \ {idx - 1})
            /\ Cardinality(InUse(b) \ {idx - 1}) = Cardinality(InUse(b)) - 1
        BY <4>2, <4>3, FS_RemoveElement
      <4>5. /\ IsFiniteSet(Earlier(b, idx - 1))
            /\ Cardinality(Earlier(b, idx - 1)) <= Cardinality(InUse(b) \ {idx - 1})
        BY <4>2, <4>4, FS_Subset
      <4>6. Cardinality(Earlier(b, idx - 1)) \in Nat /\ Cardinality(InUse(s)) \in Nat
        BY <4>5, <3>3, InUseFinite, FS_CardinalityType DEF Good
      <4> HIDE DEF s
      <4>7. QED
        BY <4>1, <4>3, <4>4, <4>5, <4>6
    <3>5. ASSUME NEW x \in 0..n - 1, s[x] # Empty PROVE s[x][1] # e[1]
      <4>1. s[x] \in Table!Entries(s)
        BY <3>3, <3>5 DEF Table!Entries
      <4>2. PICK y \in 0..idx - 1 - 1 : b[y] = s[x]
        BY <2>2, <4>1
      <4>3. y \in 0..m - 1 /\ y # idx - 1
        BY <1>1, <2>1
      <4>4. QED
        BY <2>1, <2>5, <3>5, <4>2, <4>3 DEF Good
    <3> HIDE DEF e, s
    <3>6. /\ Good(f[idx], n)
          /\ Table!Entries(f[idx]) = Table!Entries(s) \cup {<<e[1], e[2]>>}
      <4>1. hashOf[e[1]] \in Int
        BY <3>2
      <4>2. QED
        BY <3>1, <3>2, <3>3, <3>4, <3>5, <4>1, StoredKeeps
    <3>7. Table!Entries(f[idx]) = Table!Entries(s) \cup {e}
      BY <3>2, <3>6
    <3>8. Same(idx)
      BY <2>2, <2>3, <2>5, <3>7 DEF e, s
    <3>9. QED
      BY <3>6, <3>8
  <2>6. QED
    BY <2>4, <2>5
<1> HIDE DEF Fine
<1>6. Bad = {}
  <2>1. SUFFICES ASSUME Bad # {} PROVE FALSE
    OBVIOUS
  <2>2. Bad \in SUBSET Nat
    BY <1>1
  <2>3. PICK idx \in Bad : \A i \in Bad : idx <= i
    BY <2>1, <2>2, LeastNat
  <2>4. idx # 0 /\ idx - 1 \in 0..m /\ idx - 1 \notin Bad
    BY <1>1, <1>4, <2>3
  <2>5. QED
    BY <1>5, <2>3, <2>4
<1>7. Fine(m)
  BY <1>1, <1>6
<1>8. \A e : e \in Table!Entries(b) <=> e # Empty /\ \E x \in 0..m - 1 : b[x] = e
  BY <1>1 DEF Table!Entries
<1>9. Table!Entries(f[m]) = Table!Entries(b)
  BY <1>7, <1>8 DEF Fine
<1>10. QED
  BY <1>2, <1>7, <1>9 DEF Fine

(* Three buckets on a circle: what the walk from i to x passes.             *)
LEMMA Circle ==
  ASSUME NEW n \in Nat \ {0}, NEW a \in 0..n - 1, NEW h \in 0..n - 1, NEW r \in 0..n - 1,
         NEW x \in 0..n - 1, NEW i \in 0..n - 1, x # r,
         Dist(n, a, h) < Dist(n, a, r), Dist(n, i, h) < Dist(n, i, x),
         ~(Dist(n, i, r) < Dist(n, i, x))
  PROVE  Dist(n, a, h) < Dist(n, a, x) /\ Dist(n, a, x) < Dist(n, a, r)
  BY DEF Dist

(* What holds of the table s while the hole is at h, d buckets have been    *)
(* looked at, and the bucket at h is to be read as the hole.                *)
Moving(b, start, n, s, h, d) ==
  /\ h \in 0..n - 1 /\ Dist(n, start, h) <= d
  /\ \A x \in 0..n - 1 : s[x] # Empty => s[x] \in Key \X Value
  /\ \A x, y \in 0..n - 1 : x # h /\ y # h /\ s[x] # Empty /\ s[y] # Empty /\ s[x][1] = s[y][1] => x = y
  /\ \A x \in 0..n - 1 : x # h /\ s[x] # Empty => Goes(s, n, Home(s[x][1], n), x)
  /\ \A x \in 0..n - 1 : d < Dist(n, start, x) => s[x] = b[x]
  /\ \A e : (\E x \in 0..n - 1 : x # h /\ s[x] = e) <=> (\E x \in 0..n - 1 : x # start /\ b[x] = e)
  /\ \A x \in 0..n - 1 : Dist(n, start, h) < Dist(n, start, x) /\ Dist(n, start, x) <= d
       => ~(Dist(n, Home(s[x][1], n), h) < Dist(n, Home(s[x][1], n), x))

(* When an erase begins the hole is the bucket emptied.                      *)
LEMMA MovingStarts ==
  ASSUME NEW b, NEW n, Good(b, n), NEW start \in 0..n - 1
  PROVE  Moving(b, start, n, b, start, 0)
<1>1. n \in Nat \ {0}
  BY DEF Good, Buckets
<1>2. Dist(n, start, start) = 0 /\ \A x \in 0..n - 1 : Dist(n, start, x) \in 0..n - 1
  BY <1>1 DEF Dist
<1>3. \A x \in 0..n - 1 : ~(Dist(n, start, start) < Dist(n, start, x) /\ Dist(n, start, x) <= 0)
  BY <1>2
<1>4. QED
  BY <1>2, <1>3 DEF Moving, Good

(* The bucket behind those looked at stays, and the hole with it.           *)
LEMMA MovingStays ==
  ASSUME NEW b, NEW n \in Nat \ {0}, NEW start \in 0..n - 1, NEW s, NEW h,
         NEW d \in 1..n - 1, Moving(b, start, n, s, h, d - 1),
         NEW a \in 0..n - 1, Dist(n, start, a) = d,
         ~(Dist(n, Home(b[a][1], n), h) < Dist(n, Home(b[a][1], n), a))
  PROVE  Moving(b, start, n, s, h, d)
<1>1. \A x \in 0..n - 1 : Dist(n, start, x) \in 0..n - 1 /\ (Dist(n, start, x) = d => x = a)
  BY DistSame
<1>2. h \in 0..n - 1 /\ Dist(n, start, h) <= d
  BY <1>1 DEF Moving
<1>3. \A x \in 0..n - 1 : d < Dist(n, start, x) => s[x] = b[x]
  BY <1>1 DEF Moving
<1>4. s[a] = b[a]
  <2>1. d - 1 < Dist(n, start, a)
    OBVIOUS
  <2>2. QED
    BY <2>1 DEF Moving
<1>5. ASSUME NEW x \in 0..n - 1, Dist(n, start, h) < Dist(n, start, x), Dist(n, start, x) <= d
      PROVE  ~(Dist(n, Home(s[x][1], n), h) < Dist(n, Home(s[x][1], n), x))
  <2>1. CASE x = a
    BY <1>4, <2>1
  <2>2. CASE x # a
    <3>1. Dist(n, start, x) <= d - 1
      BY <1>1, <1>5, <2>2
    <3>2. QED
      BY <1>5, <3>1 DEF Moving
  <2>3. QED
    BY <2>1, <2>2
<1>6. QED
  BY <1>2, <1>3, <1>5 DEF Moving

(* The bucket behind those looked at moves into the hole.                   *)
LEMMA MovingMoves ==
  ASSUME NEW b, NEW n \in Nat \ {0}, NEW start \in 0..n - 1, NEW s, Buckets(s, n), NEW h,
         s[h] # Empty,
         NEW d \in 1..n - 1, Moving(b, start, n, s, h, d - 1),
         NEW a \in 0..n - 1, Dist(n, start, a) = d, b[a] # Empty, Home(b[a][1], n) \in 0..n - 1,
         Dist(n, Home(b[a][1], n), h) < Dist(n, Home(b[a][1], n), a)
  PROVE  Moving(b, start, n, [s EXCEPT ![h] = b[a]], a, d)
<1> DEFINE t == [s EXCEPT ![h] = b[a]]
<1>1. \A x \in 0..n - 1 : Dist(n, start, x) \in 0..n - 1
  BY DistSame
<1>2. h \in 0..n - 1 /\ Dist(n, start, h) <= d - 1 /\ h # a
  BY <1>1 DEF Moving
<1>3. s[a] = b[a]
  <2>1. d - 1 < Dist(n, start, a)
    OBVIOUS
  <2>2. QED
    BY <2>1 DEF Moving
<1>4. t[h] = s[a] /\ \A x \in 0..n - 1 : x # h => t[x] = s[x]
  BY <1>2, <1>3 DEF Buckets
<1> HIDE DEF t
<1>5. \A x \in 0..n - 1 : s[x] # Empty => t[x] # Empty
  BY <1>3, <1>4
<1>6. \A x \in 0..n - 1 : t[x] # Empty => t[x] \in Key \X Value
  BY <1>3, <1>4 DEF Moving
<1>7. \A x, y \in 0..n - 1 : x # a /\ y # a /\ t[x] # Empty /\ t[y] # Empty /\ t[x][1] = t[y][1] => x = y
  BY <1>2, <1>3, <1>4 DEF Moving
<1>8. ASSUME NEW x \in 0..n - 1, x # a, t[x] # Empty PROVE Goes(t, n, Home(t[x][1], n), x)
  <2>1. CASE x = h
    <3> DEFINE i == Home(b[a][1], n)
    <3>1. Home(t[x][1], n) = i
      BY <1>3, <1>4, <2>1
    <3>2. Goes(s, n, i, a)
      BY <1>2, <1>3 DEF Moving
    <3>3. \A y \in 0..n - 1 : Dist(n, i, y) \in 0..n - 1
      BY DistSame
    <3> HIDE DEF i
    <3>4. ASSUME NEW y \in 0..n - 1, Dist(n, i, y) < Dist(n, i, x) PROVE t[y] # Empty
      <4>1. Dist(n, i, x) < Dist(n, i, a)
        BY <2>1 DEF i
      <4>2. Dist(n, i, y) < Dist(n, i, a)
        BY <3>3, <3>4, <4>1
      <4>3. QED
        BY <1>5, <3>2, <4>2 DEF Goes
    <3>5. QED
      BY <3>1, <3>4 DEF Goes
  <2>2. CASE x # h
    <3>1. t[x] = s[x]
      BY <1>4, <2>2
    <3>2. Goes(s, n, Home(s[x][1], n), x)
      BY <1>8, <2>2, <3>1 DEF Moving
    <3>3. QED
      BY <1>5, <3>1, <3>2 DEF Goes
  <2>3. QED
    BY <2>1, <2>2
<1>9. \A x \in 0..n - 1 : d < Dist(n, start, x) => t[x] = b[x]
  <2> SUFFICES ASSUME NEW x \in 0..n - 1, d < Dist(n, start, x) PROVE t[x] = b[x]
    OBVIOUS
  <2>1. d - 1 < Dist(n, start, x) /\ x # h
    BY <1>1, <1>2
  <2>2. QED
    BY <1>4, <2>1 DEF Moving
<1>10. \A e : (\E x \in 0..n - 1 : x # a /\ t[x] = e) <=> (\E x \in 0..n - 1 : x # start /\ b[x] = e)
  <2>1. \A e : (\E x \in 0..n - 1 : x # a /\ t[x] = e) <=> (\E x \in 0..n - 1 : x # h /\ s[x] = e)
    BY <1>2, <1>4
  <2>2. QED
    BY <2>1 DEF Moving
<1>11. \A x \in 0..n - 1 : ~(Dist(n, start, a) < Dist(n, start, x) /\ Dist(n, start, x) <= d)
  BY <1>1
<1>12. Dist(n, start, a) <= d
  OBVIOUS
<1>13. Moving(b, start, n, t, a, d)
  BY <1>6, <1>7, <1>8, <1>9, <1>10, <1>11, <1>12 DEF Moving
<1>14. QED
  BY <1>13 DEF t

(* An erase takes out one entry, and leaves a map.                          *)
LEMMA ErasedKeeps ==
  ASSUME NEW b, NEW n, Good(b, n), Cardinality(InUse(b)) < n, \A k \in Key : hashOf[k] \in Int,
         NEW start \in 0..n - 1, b[start] # Empty
  PROVE  /\ Good(Table!Erased(b, start), n)
         /\ Table!Entries(Table!Erased(b, start)) = Table!Entries(b) \ {b[start]}
<1>1. Buckets(b, n) /\ n \in Nat \ {0} /\ DOMAIN b = 0..n - 1
  BY DEF Good, Buckets
<1>2. PICK run, f : /\ Run(b, start, n, run) /\ Shifts(b, start, run, f)
                    /\ Table!Erased(b, start) = [f[run - 1].slots EXCEPT ![f[run - 1].hole] = Empty]
  BY <1>1, ErasedShifts
<1> DEFINE at(d) == Table!Probe(b, start, d)
<1>3. run \in 1..n - 1 /\ b[at(run)] = Empty /\ \A c \in 1..run - 1 : b[at(c)] # Empty
  BY <1>2 DEF Run
<1>4. \A d \in 0..run - 1 : f[d] = IF d = 0 THEN [slots |-> b, hole |-> start]
                                   ELSE Shift(b, start, d, f[d - 1])
  BY <1>2 DEF Shifts
<1>5. \A d \in 0..run - 1 :
        /\ Buckets(f[d].slots, n) /\ InUse(f[d].slots) = InUse(b) /\ f[d].hole \in InUse(b)
  BY <1>1, <1>2, ShiftsUse
<1>6. \A k \in Key : Home(k, n) \in 0..n - 1
  BY <1>1 DEF Home
<1>7. \A d \in 0..n - 1 : at(d) \in 0..n - 1 /\ Dist(n, start, at(d)) = d
  BY <1>1, Diffs
<1>8. \A i, x \in 0..n - 1 : Table!Diff(b, x, i) = Dist(n, i, x)
  <2> HIDE DEF at
  <2>1. ASSUME NEW i \in 0..n - 1 PROVE \A x \in 0..n - 1 : Table!Diff(b, x, i) = Dist(n, i, x)
    <3>1. \A x \in 0..n - 1 : Table!Diff(b, x, i) = Dist(n, i, x) /\ Dist(n, i, x) \in 0..n - 1
      BY <1>1, Diffs
    <3>2. QED
      BY <3>1
  <2>2. QED
    BY <2>1
<1> DEFINE Fine(d) == Moving(b, start, n, f[d].slots, f[d].hole, d)
           Bad == {d \in 0..run - 1 : ~Fine(d)}
<1>9. Fine(0)
  <2>1. f[0] = [slots |-> b, hole |-> start]
    BY <1>1, <1>3, <1>4
  <2>2. QED
    BY <2>1, MovingStarts
<1>10. ASSUME NEW d \in 0..run - 1, d # 0, Fine(d - 1) PROVE Fine(d)
  <2>1. d \in 1..run - 1 /\ d \in 1..n - 1 /\ d \in 0..n - 1 /\ d - 1 \in 0..run - 1
    BY <1>1, <1>3, <1>10
  <2> DEFINE s == f[d - 1].slots
             h == f[d - 1].hole
             a == at(d)
             i == Home(b[a][1], n)
  <2>2. f[d] = Shift(b, start, d, f[d - 1])
    BY <1>4, <1>10
  <2>3. a \in 0..n - 1 /\ Dist(n, start, a) = d /\ b[a] # Empty
    BY <1>3, <1>7, <2>1
  <2>4. b[a][1] \in Key /\ i \in 0..n - 1
    BY <1>6, <2>3 DEF Good
  <2>5. Buckets(s, n) /\ h \in 0..n - 1 /\ s[h] # Empty
    <3>1. Buckets(s, n) /\ InUse(s) = InUse(b) /\ h \in InUse(b)
      BY <1>5, <2>1
    <3> HIDE DEF s, h
    <3>2. QED
      BY <3>1 DEF InUse, Buckets
  <2>6. Moving(b, start, n, s, h, d - 1)
    BY <1>10
  <2>7. Table!Ideal(b, b[a][1]) = i
    BY <1>1, TableCounts DEF Table!Ideal, Home
  <2>8. Table!Diff(b, h, i) = Dist(n, i, h) /\ Table!Diff(b, a, i) = Dist(n, i, a)
    BY <1>8, <2>3, <2>4, <2>5
  <2>9. CASE Dist(n, i, h) < Dist(n, i, a)
    <3>1. f[d] = [slots |-> [s EXCEPT ![h] = b[a]], hole |-> a]
      BY <2>2, <2>7, <2>8, <2>9 DEF Shift
    <3> HIDE DEF s, h, a
    <3>2. Moving(b, start, n, [s EXCEPT ![h] = b[a]], a, d)
      BY <1>1, <2>1, <2>3, <2>4, <2>5, <2>6, <2>9, MovingMoves
    <3>3. QED
      BY <3>1, <3>2
  <2>10. CASE ~(Dist(n, i, h) < Dist(n, i, a))
    <3>1. f[d] = f[d - 1]
      BY <2>2, <2>7, <2>8, <2>10 DEF Shift
    <3>2. f[d].slots = s /\ f[d].hole = h
      BY <3>1
    <3> HIDE DEF s, h, a
    <3>3. Moving(b, start, n, s, h, d)
      BY <1>1, <2>1, <2>3, <2>6, <2>10, MovingStays
    <3>4. QED
      BY <3>2, <3>3
  <2>11. QED
    BY <2>9, <2>10
<1> HIDE DEF Fine
<1>11. Bad = {}
  <2>1. SUFFICES ASSUME Bad # {} PROVE FALSE
    OBVIOUS
  <2>2. Bad \in SUBSET Nat
    BY <1>1, <1>3
  <2>3. PICK d \in Bad : \A c \in Bad : d <= c
    BY <2>1, <2>2, LeastNat
  <2>4. d # 0 /\ d - 1 \in 0..run - 1 /\ d - 1 \notin Bad
    BY <1>1, <1>3, <1>9, <2>3
  <2>5. QED
    BY <1>10, <2>3, <2>4
<1> DEFINE s == f[run - 1].slots
           h == f[run - 1].hole
           t == [s EXCEPT ![h] = Empty]
           r == at(run)
<1>12. run - 1 \in 0..run - 1 /\ run - 1 < run
  BY <1>1, <1>3
<1>13. Moving(b, start, n, s, h, run - 1)
  BY <1>11, <1>12 DEF Fine
<1>14. Buckets(s, n) /\ InUse(s) = InUse(b) /\ DOMAIN s = 0..n - 1
  <2>1. Buckets(s, n) /\ InUse(s) = InUse(b)
    BY <1>5, <1>12
  <2>2. QED
    BY <2>1 DEF Buckets
<1>15. Table!Erased(b, start) = t
  BY <1>2
<1>16. r \in 0..n - 1 /\ Dist(n, start, r) = run /\ b[r] = Empty
  BY <1>1, <1>3, <1>7
<1> HIDE DEF s, h, r
<1>17. s[r] = Empty
  <2>1. r \notin InUse(b)
    BY <1>16 DEF InUse
  <2>2. QED
    BY <1>14, <1>16, <2>1 DEF InUse
<1>18. Buckets(t, n) /\ DOMAIN t = 0..n - 1
  BY <1>14 DEF Buckets
<1>19. h \in 0..n - 1 /\ t[h] = Empty /\ \A x \in 0..n - 1 : x # h => t[x] = s[x]
  BY <1>13, <1>14 DEF Moving
<1> HIDE DEF t
<1>20. \A x \in 0..n - 1 : t[x] # Empty => t[x] \in Key \X Value
  BY <1>13, <1>19 DEF Moving
<1>21. \A x, y \in 0..n - 1 : t[x] # Empty /\ t[y] # Empty /\ t[x][1] = t[y][1] => x = y
  BY <1>13, <1>19 DEF Moving
<1>22. ASSUME NEW x \in 0..n - 1, t[x] # Empty PROVE Goes(t, n, Home(t[x][1], n), x)
  <2> DEFINE i == Home(s[x][1], n)
  <2>1. x # h /\ t[x] = s[x] /\ s[x] # Empty
    BY <1>19, <1>22
  <2>2. Goes(s, n, i, x)
    BY <1>13, <2>1 DEF Moving
  <2>3. i \in 0..n - 1
    <3>1. s[x][1] \in Key
      BY <1>13, <2>1 DEF Moving
    <3>2. QED
      BY <1>6, <3>1
  <2>4. ~(Dist(n, i, h) < Dist(n, i, x))
    <3>1. SUFFICES ASSUME Dist(n, i, h) < Dist(n, i, x) PROVE FALSE
      OBVIOUS
    <3>2. ~(Dist(n, i, r) < Dist(n, i, x)) /\ x # r
      BY <1>16, <1>17, <2>1, <2>2 DEF Goes
    <3>3. \A y \in 0..n - 1 : Dist(n, start, y) \in 0..n - 1
      BY <1>1, DistSame
    <3>4. Dist(n, start, h) < Dist(n, start, r)
      <4>1. Dist(n, start, h) <= run - 1
        BY <1>13 DEF Moving
      <4>2. QED
        BY <1>3, <1>16, <1>19, <3>3, <4>1
    <3> HIDE DEF i
    <3>5. Dist(n, start, h) < Dist(n, start, x) /\ Dist(n, start, x) < Dist(n, start, r)
      BY <1>1, <1>16, <1>19, <2>3, <3>1, <3>2, <3>4, Circle
    <3>6. Dist(n, start, x) <= run - 1
      BY <1>3, <1>16, <3>3, <3>5
    <3>7. QED
      BY <1>13, <3>1, <3>5, <3>6 DEF Moving, i
  <2>5. ASSUME NEW y \in 0..n - 1, Dist(n, i, y) < Dist(n, i, x) PROVE t[y] # Empty
    BY <1>19, <2>2, <2>4, <2>5 DEF Goes
  <2>6. QED
    BY <2>1, <2>5 DEF Goes
<1>23. Good(t, n)
  BY <1>18, <1>20, <1>21, <1>22 DEF Good
<1>24. \A e : e \in Table!Entries(t) <=> e \in Table!Entries(b) \ {b[start]}
  <2>1. \A e : e \in Table!Entries(t) <=> e # Empty /\ \E x \in 0..n - 1 : t[x] = e
    BY <1>18 DEF Table!Entries
  <2>2. \A e : e \in Table!Entries(b) <=> e # Empty /\ \E x \in 0..n - 1 : b[x] = e
    BY <1>1 DEF Table!Entries
  <2>3. \A e : e # Empty => ((\E x \in 0..n - 1 : t[x] = e) <=> \E x \in 0..n - 1 : x # h /\ s[x] = e)
    BY <1>19
  <2>4. \A e : (\E x \in 0..n - 1 : x # h /\ s[x] = e) <=> (\E x \in 0..n - 1 : x # start /\ b[x] = e)
    BY <1>13 DEF Moving
  <2>5. \A e : e # Empty => ((\E x \in 0..n - 1 : x # start /\ b[x] = e)
                             <=> (\E x \in 0..n - 1 : b[x] = e) /\ e # b[start])
    BY DEF Good
  <2>6. QED
    BY <2>1, <2>2, <2>3, <2>4, <2>5
<1>25. Table!Entries(t) = Table!Entries(b) \ {b[start]}
  BY <1>24
<1>26. QED
  BY <1>15, <1>23, <1>25
-----------------------------------------------------------------------------
(* The map that a set of entries is. *)
MapIn(E) == [k \in {e[1] : e \in E} |-> (CHOOSE e \in E : e[1] = k)[2]]
KeysApart(E) == E \subseteq Key \X Value /\ \A e, g \in E : e[1] = g[1] => e = g
MapNow == MapIn(Table!Entries(buckets))

(* The entries of a good table have a key each.                              *)
LEMMA GoodEntries ==
  ASSUME NEW b, NEW n, Good(b, n)
  PROVE  /\ KeysApart(Table!Entries(b))
         /\ \A e : e \in Table!Entries(b) <=> e # Empty /\ \E x \in 0..n - 1 : b[x] = e
<1>1. DOMAIN b = 0..n - 1
  BY DEF Good, Buckets
<1>2. \A e : e \in Table!Entries(b) <=> e # Empty /\ \E x \in 0..n - 1 : b[x] = e
  BY <1>1 DEF Table!Entries
<1>3. QED
  BY <1>2 DEF KeysApart, Good

(* Each key has the value of its entry.                                     *)
LEMMA MapInIs ==
  ASSUME NEW E, KeysApart(E)
  PROVE  /\ DOMAIN MapIn(E) = {e[1] : e \in E}
         /\ \A e \in E : MapIn(E)[e[1]] = e[2]
<1>1. ASSUME NEW e \in E PROVE MapIn(E)[e[1]] = e[2]
  <2> DEFINE g == CHOOSE x \in E : x[1] = e[1]
  <2>1. g \in E /\ g[1] = e[1]
    OBVIOUS
  <2>2. g = e
    BY <2>1 DEF KeysApart
  <2>3. MapIn(E)[e[1]] = g[2]
    BY DEF MapIn
  <2>4. QED
    BY <2>2, <2>3
<1>2. QED
  BY <1>1 DEF MapIn

(* A new entry is a new key with its value.                                 *)
LEMMA MapGains ==
  ASSUME NEW E, NEW F, KeysApart(E), KeysApart(F), NEW k \in Key, NEW v \in Value,
         F = E \cup {<<k, v>>}, \A e \in E : e[1] # k
  PROVE  MapIn(F) = [j \in DOMAIN MapIn(E) \cup {k} |-> IF j = k THEN v ELSE MapIn(E)[j]]
         /\ k \notin DOMAIN MapIn(E)
<1> DEFINE A == DOMAIN MapIn(E)
           G == [j \in A \cup {k} |-> IF j = k THEN v ELSE MapIn(E)[j]]
<1>1. A = {e[1] : e \in E} /\ \A e \in E : MapIn(E)[e[1]] = e[2]
  BY MapInIs
<1>2. DOMAIN MapIn(F) = {e[1] : e \in F} /\ \A e \in F : MapIn(F)[e[1]] = e[2]
  BY MapInIs
<1>3. k \notin A
  BY <1>1
<1>4. \A j : j \in DOMAIN MapIn(F) <=> j \in A \cup {k}
  <2>1. \A j : j \in DOMAIN MapIn(F) <=> \E e \in F : e[1] = j
    BY <1>2
  <2>2. \A j : j \in A <=> \E e \in E : e[1] = j
    BY <1>1
  <2>3. \A j : (\E e \in F : e[1] = j) <=> (\E e \in E : e[1] = j) \/ j = <<k, v>>[1]
    OBVIOUS
  <2> HIDE DEF A
  <2>4. QED
    BY <2>1, <2>2, <2>3
<1>5. DOMAIN MapIn(F) = A \cup {k}
  BY <1>4
<1>6. MapIn(F) = [j \in DOMAIN MapIn(F) |-> MapIn(F)[j]]
  BY DEF MapIn
<1>7. ASSUME NEW j \in A \cup {k} PROVE MapIn(F)[j] = G[j]
  <2>1. CASE j = k
    <3>1. <<k, v>> \in F /\ <<k, v>>[1] = k /\ <<k, v>>[2] = v
      OBVIOUS
    <3>2. QED
      BY <1>2, <2>1, <3>1
  <2>2. CASE j # k
    <3>1. PICK e \in E : e[1] = j
      BY <1>1, <2>2
    <3>2. MapIn(F)[j] = e[2] /\ MapIn(E)[j] = e[2]
      BY <1>1, <1>2, <3>1
    <3>3. QED
      BY <2>2, <3>2
  <2>3. QED
    BY <2>1, <2>2
<1> HIDE DEF A
<1>8. MapIn(F) = G
  BY <1>5, <1>6, <1>7
<1>9. QED
  BY <1>3, <1>8 DEF A

(* An entry less is a key less.                                             *)
LEMMA MapLoses ==
  ASSUME NEW E, KeysApart(E), NEW g \in E
  PROVE  MapIn(E \ {g}) = [j \in DOMAIN MapIn(E) \ {g[1]} |-> MapIn(E)[j]]
<1> DEFINE F == E \ {g}
           A == DOMAIN MapIn(E)
           G == [j \in A \ {g[1]} |-> MapIn(E)[j]]
<1>1. A = {e[1] : e \in E} /\ \A e \in E : MapIn(E)[e[1]] = e[2]
  BY MapInIs
<1>2. DOMAIN MapIn(F) = {e[1] : e \in F} /\ \A e \in F : MapIn(F)[e[1]] = e[2]
  <2>1. KeysApart(F)
    BY DEF KeysApart
  <2> HIDE DEF F
  <2>2. QED
    BY <2>1, MapInIs
<1>3. \A e \in E : e \in F <=> e[1] # g[1]
  BY DEF KeysApart
<1>4. \A j : j \in DOMAIN MapIn(F) <=> j \in A \ {g[1]}
  BY <1>1, <1>2, <1>3
<1>5. DOMAIN MapIn(F) = A \ {g[1]}
  BY <1>4
<1>6. MapIn(F) = [j \in DOMAIN MapIn(F) |-> MapIn(F)[j]]
  BY DEF MapIn
<1>7. ASSUME NEW j \in A \ {g[1]} PROVE MapIn(F)[j] = G[j]
  <2>1. PICK e \in E : e[1] = j
    BY <1>1
  <2>2. MapIn(F)[j] = e[2] /\ MapIn(E)[j] = e[2]
    BY <1>1, <1>2, <1>3, <2>1
  <2>3. QED
    BY <2>2
<1> HIDE DEF A
<1>8. QED
  BY <1>5, <1>6, <1>7 DEF A

(* The module's MapOf is this map of the buckets.                           *)
LEMMA MapOfIs == Table!MapOf = MapNow /\ Table!MapOf' = MapNow'
<1>1. \A b : Table!KeysOf(b) = {e[1] : e \in Table!Entries(b)}
  BY DEF Table!KeysOf
<1>2. Table!MapOf = MapNow
  BY <1>1 DEF Table!MapOf, MapNow, MapIn
<1>3. Table!MapOf' = MapNow'
  BY <1>1 DEF Table!MapOf, MapNow, MapIn
<1>4. QED
  BY <1>2, <1>3

(* The table that a map is kept in.                                         *)
MapInv == TableInv /\ \E n : Good(buckets, n)

(* The constructor makes the empty map.                                      *)
LEMMA InitMapInv == Table!Init => MapInv /\ MapNow = [k \in {} |-> k]
<1> SUFFICES ASSUME Table!Init PROVE MapInv /\ MapNow = [k \in {} |-> k]
  OBVIOUS
<1>1. PICK n \in Table!Powers : buckets = Table!Blank(n)
  BY DEF Table!Init
<1>2. buckets = [x \in 0..n - 1 |-> Empty] /\ n \in Nat \ {0}
  BY <1>1 DEF Table!Blank, Table!Powers
<1>3. Good(buckets, n)
  BY <1>2 DEF Good, Buckets
<1>4. Table!Entries(buckets) = {}
  BY <1>2 DEF Table!Entries
<1>5. MapNow = [k \in {} |-> k]
  BY <1>4 DEF MapNow, MapIn
<1>6. QED
  BY <1>3, <1>5, InitTableInv DEF MapInv

(* The number of buckets is the one of TableInv.                            *)
LEMMA TableIs ==
  ASSUME MapInv
  PROVE  \E n \in Nat \ {0} :
           /\ Good(buckets, n) /\ Buckets(buckets, n) /\ Table!Count(buckets) = n
           /\ used \in Nat /\ used * 2 <= n
           /\ Cardinality(InUse(buckets)) <= used /\ Cardinality(InUse(buckets)) \in Nat
           /\ Cardinality(InUse(buckets)) < n
<1>1. PICK n : Good(buckets, n)
  BY DEF MapInv
<1>2. PICK m : Buckets(buckets, m) /\ used * 2 <= m
  BY DEF MapInv, TableInv
<1>3. Buckets(buckets, n) /\ Table!Count(buckets) = n /\ Table!Count(buckets) = m /\ n \in Nat \ {0}
  BY <1>1, <1>2, TableCounts DEF Good, Buckets
<1>4. used \in Nat /\ Cardinality(InUse(buckets)) <= used
  BY DEF MapInv, TableInv
<1>5. Cardinality(InUse(buckets)) \in Nat
  BY <1>2, InUseFinite
<1>6. QED
  BY <1>1, <1>2, <1>3, <1>4, <1>5

(* What a call may do to the map.                                           *)
MapStep ==
  \/ MapNow' = MapNow
  \/ \E k \in Key, v \in Value :
       /\ k \notin DOMAIN MapNow
       /\ MapNow' = [j \in DOMAIN MapNow \cup {k} |-> IF j = k THEN v ELSE MapNow[j]]
  \/ \E k \in Key : MapNow' = [j \in DOMAIN MapNow \ {k} |-> MapNow[j]]
  \/ MapNow' = [k \in {} |-> k]

(* What a call leaves is the table of a map.                                 *)
LEMMA MapMade ==
  ASSUME TableInv', hashOf' = hashOf, NEW n, Good(buckets', n)
  PROVE  MapInv' /\ MapNow' = MapIn(Table!Entries(buckets'))
<1>1. Good(buckets, n)'
  BY DEF Good, Goes, Home, Buckets
<1>2. MapNow' = MapIn(Table!Entries(buckets'))
  BY DEF MapNow, MapIn, Table!Entries
<1>3. QED
  BY <1>1, <1>2 DEF MapInv

(* reserve changes nothing but the place of the entries.                    *)
LEMMA ReservedKeeps ==
  ASSUME MapInv, (used + 1) * 2 <= MaxBuckets
  PROVE  \E n : /\ Good(Table!Reserved(buckets, used + 1), n)
                /\ Cardinality(InUse(Table!Reserved(buckets, used + 1))) < n
                /\ Table!Entries(Table!Reserved(buckets, used + 1)) = Table!Entries(buckets)
<1>1. PICK n \in Nat \ {0} :
        /\ Good(buckets, n) /\ Buckets(buckets, n) /\ Table!Count(buckets) = n
        /\ used \in Nat /\ used * 2 <= n
        /\ Cardinality(InUse(buckets)) <= used /\ Cardinality(InUse(buckets)) \in Nat
        /\ Cardinality(InUse(buckets)) < n
  BY TableIs
<1> DEFINE b == Table!Reserved(buckets, used + 1)
<1>2. CASE (used + 1) * 2 > n
  <2>1. b = Table!Rehashed(buckets, n * 2)
    BY <1>1, <1>2 DEF Table!Reserved
  <2>2. n * 2 \in Nat \ {0} /\ Cardinality(InUse(buckets)) <= n * 2 /\ n < n * 2
    BY <1>1
  <2>3. \A k \in Key : hashOf[k] \in Int
    BY DEF MapInv, TableInv
  <2>4. Good(b, n * 2) /\ Table!Entries(b) = Table!Entries(buckets)
    BY <1>1, <2>1, <2>2, <2>3, RehashedKeeps
  <2>5. Cardinality(InUse(b)) <= Cardinality(InUse(buckets))
    BY <1>1, <2>1, <2>2, RehashedUses
  <2>6. Cardinality(InUse(b)) \in Nat
    BY <2>4, InUseFinite DEF Good
  <2> HIDE DEF b
  <2>7. Cardinality(InUse(b)) < n * 2
    BY <1>1, <2>2, <2>5, <2>6
  <2>8. QED
    BY <2>4, <2>7 DEF b
<1>3. CASE ~((used + 1) * 2 > n)
  <2>1. b = buckets
    BY <1>1, <1>3 DEF Table!Reserved
  <2>2. QED
    BY <1>1, <2>1
<1>4. QED
  BY <1>2, <1>3

(* emplace adds a new key, and overwrites none.                             *)
LEMMA EmplaceMaps ==
  ASSUME MapInv, NEW k \in Key, NEW v \in Value, Table!Emplace(k, v)
  PROVE  MapInv' /\ MapStep
<1> DEFINE b == Table!Reserved(buckets, used + 1)
<1>1. /\ (used + 1) * 2 <= MaxBuckets /\ hashOf' = hashOf
      /\ buckets' = IF Table!Found(b, k) THEN b ELSE Table!Stored(b, k, v)
  BY DEF Table!Emplace
<1>2. TableInv'
  BY EmplaceHalf DEF MapInv
<1>3. PICK n : /\ Good(b, n) /\ Cardinality(InUse(b)) < n
               /\ Table!Entries(b) = Table!Entries(buckets)
  BY <1>1, ReservedKeeps
<1> HIDE DEF b
<1>4. hashOf[k] \in Int
  BY DEF MapInv, TableInv
<1>5. CASE Table!Found(b, k)
  <2>1. buckets' = b
    BY <1>1, <1>5
  <2>2. MapInv' /\ MapNow' = MapIn(Table!Entries(b))
    BY <1>1, <1>2, <1>3, <2>1, MapMade
  <2>3. QED
    BY <1>3, <2>2 DEF MapStep, MapNow
<1>6. CASE ~Table!Found(b, k)
  <2> DEFINE s == Table!Stored(b, k, v)
  <2>1. buckets' = s
    BY <1>1, <1>6
  <2>2. \A x \in 0..n - 1 : b[x] # Empty => b[x][1] # k
    BY <1>3, <1>4, <1>6, WalkFinds
  <2>3. Good(s, n) /\ Table!Entries(s) = Table!Entries(b) \cup {<<k, v>>}
    BY <1>3, <1>4, <2>2, StoredKeeps
  <2> HIDE DEF s
  <2>4. MapInv' /\ MapNow' = MapIn(Table!Entries(s))
    BY <1>1, <1>2, <2>1, <2>3, MapMade
  <2>5. KeysApart(Table!Entries(b)) /\ KeysApart(Table!Entries(s))
    BY <1>3, <2>3, GoodEntries
  <2>6. \A e \in Table!Entries(b) : e[1] # k
    <3>1. \A e : e \in Table!Entries(b) <=> e # Empty /\ \E x \in 0..n - 1 : b[x] = e
      BY <1>3, GoodEntries
    <3>2. QED
      BY <2>2, <3>1
  <2>7. /\ MapIn(Table!Entries(s)) = [j \in DOMAIN MapIn(Table!Entries(b)) \cup {k} |->
                                       IF j = k THEN v ELSE MapIn(Table!Entries(b))[j]]
        /\ k \notin DOMAIN MapIn(Table!Entries(b))
    BY <2>3, <2>5, <2>6, MapGains
  <2>8. QED
    BY <1>3, <2>4, <2>7 DEF MapStep, MapNow
<1>7. QED
  BY <1>5, <1>6

(* erase takes out the key it is called for, and no other.                  *)
LEMMA EraseMaps ==
  ASSUME MapInv, NEW k \in Key, Table!Erase(k)
  PROVE  MapInv' /\ MapStep
<1>1. PICK n \in Nat \ {0} :
        /\ Good(buckets, n) /\ Buckets(buckets, n) /\ Table!Count(buckets) = n
        /\ used \in Nat /\ used * 2 <= n
        /\ Cardinality(InUse(buckets)) <= used /\ Cardinality(InUse(buckets)) \in Nat
        /\ Cardinality(InUse(buckets)) < n
  BY TableIs
<1>2. \A j \in Key : hashOf[j] \in Int
  BY DEF MapInv, TableInv
<1>3. TableInv'
  BY EraseHalf DEF MapInv
<1>4. PICK x \in 0..n - 1 : buckets[x] # Empty /\ buckets[x][1] = k
  BY <1>1, <1>2, WalkFinds DEF Table!Erase
<1>5. Table!Walk(buckets, k) = x
  BY <1>1, <1>2, <1>4, WalkFinds
<1> DEFINE t == Table!Erased(buckets, x)
<1>6. buckets' = t /\ hashOf' = hashOf
  BY <1>5 DEF Table!Erase
<1>7. Good(t, n) /\ Table!Entries(t) = Table!Entries(buckets) \ {buckets[x]}
  BY <1>1, <1>2, <1>4, ErasedKeeps
<1> HIDE DEF t
<1>8. MapInv' /\ MapNow' = MapIn(Table!Entries(t))
  BY <1>3, <1>6, <1>7, MapMade
<1>9. KeysApart(Table!Entries(buckets)) /\ KeysApart(Table!Entries(t))
  BY <1>1, <1>7, GoodEntries
<1>10. buckets[x] \in Table!Entries(buckets)
  BY <1>1, <1>4, GoodEntries
<1>11. PICK E, g : E = Table!Entries(buckets) /\ g = buckets[x]
  OBVIOUS
<1>12. KeysApart(E) /\ g \in E /\ g[1] = k /\ Table!Entries(t) = E \ {g}
  BY <1>4, <1>7, <1>9, <1>10, <1>11
<1>13. MapIn(E \ {g}) = [j \in DOMAIN MapIn(E) \ {g[1]} |-> MapIn(E)[j]]
  BY <1>12, MapLoses
<1>14. MapNow' = [j \in DOMAIN MapNow \ {k} |-> MapNow[j]]
  BY <1>8, <1>11, <1>12, <1>13 DEF MapNow
<1>15. QED
  BY <1>8, <1>14 DEF MapStep

(* rehash changes nothing but the place of the entries.                     *)
LEMMA RehashMaps ==
  ASSUME MapInv, NEW count \in 1..MaxBuckets, Table!Rehash(count)
  PROVE  MapInv' /\ MapStep
<1>1. PICK n \in Nat \ {0} :
        /\ Good(buckets, n) /\ Buckets(buckets, n) /\ Table!Count(buckets) = n
        /\ used \in Nat /\ used * 2 <= n
        /\ Cardinality(InUse(buckets)) <= used /\ Cardinality(InUse(buckets)) \in Nat
        /\ Cardinality(InUse(buckets)) < n
  BY TableIs
<1>2. TableInv'
  BY RehashHalf DEF MapInv
<1>3. PICK m \in Nat \ {0} : m >= used * 2 /\ buckets' = Table!Rehashed(buckets, m) /\ hashOf' = hashOf
  BY RehashSize DEF MapInv
<1>4. Cardinality(InUse(buckets)) <= m
  BY <1>1, <1>3
<1>5. Good(buckets', m) /\ Table!Entries(buckets') = Table!Entries(buckets)
  BY <1>1, <1>3, <1>4, RehashedKeeps DEF MapInv, TableInv
<1>6. MapInv' /\ MapNow' = MapIn(Table!Entries(buckets'))
  BY <1>2, <1>3, <1>5, MapMade
<1>7. QED
  BY <1>5, <1>6 DEF MapStep, MapNow

(* clear makes the empty map.                                                *)
LEMMA ClearMaps ==
  ASSUME MapInv, Table!Clear
  PROVE  MapInv' /\ MapStep
<1>1. PICK n \in Nat \ {0} : Table!Count(buckets) = n
  BY TableIs
<1>2. buckets' = [x \in 0..n - 1 |-> Empty] /\ hashOf' = hashOf
  BY <1>1 DEF Table!Clear, Table!Blank
<1>3. Good(buckets', n) /\ Table!Entries(buckets') = {}
  BY <1>2 DEF Good, Buckets, Table!Entries
<1>4. TableInv'
  BY ClearHalf DEF MapInv
<1>5. MapInv' /\ MapNow' = MapIn(Table!Entries(buckets'))
  BY <1>2, <1>3, <1>4, MapMade
<1>6. MapIn({}) = [k \in {} |-> k]
  BY DEF MapIn
<1>7. QED
  BY <1>3, <1>5, <1>6 DEF MapStep

(* Every call of the table does one thing to the map.                        *)
LEMMA StepMaps ==
  ASSUME MapInv, [Table!Next]_(Table!vars)
  PROVE  MapInv' /\ MapStep
<1>1. CASE Table!Next
  BY <1>1, EmplaceMaps, EraseMaps, RehashMaps, ClearMaps DEF Table!Next
<1>2. CASE UNCHANGED Table!vars
  <2>1. buckets' = buckets /\ used' = used /\ hashOf' = hashOf
    BY <1>2 DEF Table!vars
  <2>2. TableInv'
    BY <2>1 DEF MapInv, TableInv, Buckets, InUse
  <2>3. PICK n : Good(buckets', n)
    BY <2>1 DEF MapInv
  <2>4. MapInv' /\ MapNow' = MapIn(Table!Entries(buckets'))
    BY <2>1, <2>2, <2>3, MapMade
  <2>5. QED
    BY <2>1, <2>4 DEF MapStep, MapNow
<1>3. QED
  BY <1>1, <1>2

(* For every hash function, any keys, values and number of buckets: each    *)
(* call of the hash map does to its entries what it does to a map, also     *)
(* when it rehashes, and when an erase shifts other entries (HashMap.h).    *)
THEOREM TableIsMap == ContainersSpec => ImplementsMap
<1> DEFINE MInv == tried = "HashMap" => MapInv
           now == IF tried = "HashMap" THEN Table!MapOf ELSE [k \in {} |-> k]
<1>1. ContainersInit => MInv /\ Map!Init
  <2> SUFFICES ASSUME ContainersInit PROVE MInv /\ now = [k \in {} |-> k]
    BY DEF Map!Init
  <2>1. CASE tried = "HashMap"
    <3>1. Table!Init
      BY <2>1 DEF ContainersInit
    <3>2. QED
      BY <2>1, <3>1, InitMapInv, MapOfIs
  <2>2. CASE tried # "HashMap"
    BY <2>2
  <2>3. QED
    BY <2>1, <2>2
<1>2. MInv /\ [ContainersNext]_<<tried, vars, table, freeLists>> => MInv' /\ [Map!Next]_now
  <2> SUFFICES ASSUME MInv, [ContainersNext]_<<tried, vars, table, freeLists>>
               PROVE  MInv' /\ [Map!Next]_now
    OBVIOUS
  <2>1. tried' = tried
    BY DEF ContainersNext
  <2>2. CASE tried = "HashMap"
    <3>1. [Table!Next]_(Table!vars) /\ MapInv
      BY <2>2 DEF ContainersNext, table, Table!vars
    <3>2. MapInv' /\ MapStep
      BY <3>1, StepMaps
    <3>3. Table!MapOf = MapNow /\ Table!MapOf' = MapNow'
      BY MapOfIs
    <3>4. now = MapNow /\ now' = MapNow'
      BY <2>1, <2>2, <3>3
    <3>5. ASSUME MapNow' = MapNow PROVE [Map!Next]_now
      BY <3>4, <3>5
    <3>6. ASSUME \E k \in Key, v \in Value :
                 /\ k \notin DOMAIN MapNow
                 /\ MapNow' = [j \in DOMAIN MapNow \cup {k} |-> IF j = k THEN v ELSE MapNow[j]]
          PROVE  [Map!Next]_now
      <4>1. PICK k \in Key, v \in Value :
              /\ k \notin DOMAIN MapNow
              /\ MapNow' = [j \in DOMAIN MapNow \cup {k} |-> IF j = k THEN v ELSE MapNow[j]]
        BY <3>6
      <4>2. Map!Emplace(k, v)
        BY <3>4, <4>1 DEF Map!Emplace
      <4>3. QED
        BY <4>2 DEF Map!Next
    <3>7. ASSUME \E k \in Key : MapNow' = [j \in DOMAIN MapNow \ {k} |-> MapNow[j]]
          PROVE  [Map!Next]_now
      <4>1. PICK k \in Key : MapNow' = [j \in DOMAIN MapNow \ {k} |-> MapNow[j]]
        BY <3>7
      <4>2. Map!Erase(k)
        BY <3>4, <4>1 DEF Map!Erase
      <4>3. QED
        BY <4>2 DEF Map!Next
    <3>8. ASSUME MapNow' = [k \in {} |-> k] PROVE [Map!Next]_now
      <4>1. Map!Clear
        BY <3>4, <3>8 DEF Map!Clear
      <4>2. QED
        BY <4>1 DEF Map!Next
    <3>9. QED
      BY <3>2, <3>5, <3>6, <3>7, <3>8 DEF MapStep
  <2>3. CASE tried # "HashMap"
    BY <2>1, <2>3
  <2>4. QED
    BY <2>2, <2>3
<1>3. QED
  BY <1>1, <1>2, PTL DEF ContainersSpec, ImplementsMap, Map!Spec
-----------------------------------------------------------------------------
(* The k nodes q are the chain from h to the end of the list, and no other  *)
(* node has a next.                                                         *)
Chain(nxt, h, k, q) ==
  /\ k \in Nat \ {0} /\ q \in [1..k -> DOMAIN nxt] /\ q[1] = h
  /\ \A i, j \in 1..k : q[i] = q[j] => i = j
  /\ \A i \in 1..k - 1 : nxt[q[i]] = q[i + 1]
  /\ nxt[q[k]] = Null
  /\ \A x \in DOMAIN nxt : nxt[x] # Null => \E i \in 1..k : x = q[i]

(* The values behind the i-th node of the chain.                            *)
Behind(val, k, q, i) == [j \in 1..k - i |-> val[q[i + j]]]

(* The recursive function that Linked reads a list with.                    *)
Reads(nxt, val, f) ==
  f = [n \in DOMAIN nxt |-> IF nxt[n] = Null THEN <<>> ELSE <<val[nxt[n]]>> \o f[nxt[n]]]

(* They are a sequence.                                                      *)
LEMMA BehindSeq ==
  ASSUME NEW val, NEW k \in Nat, NEW q, NEW i \in 1..k
  PROVE  /\ Behind(val, k, q, i) \in Seq({val[q[j]] : j \in 1..k})
         /\ Len(Behind(val, k, q, i)) = k - i
<1> DEFINE V == {val[q[j]] : j \in 1..k}
<1>1. \A j \in 1..k - i : i + j \in 1..k
  OBVIOUS
<1>2. Behind(val, k, q, i) \in [1..k - i -> V]
  BY <1>1 DEF Behind
<1>3. k - i \in Nat
  OBVIOUS
<1>4. QED
  BY <1>2, <1>3

(* The values behind a node: that of the next one, and those behind it.      *)
LEMMA BehindNext ==
  ASSUME NEW val, NEW k \in Nat, NEW q, NEW i \in 1..k, i < k
  PROVE  Behind(val, k, q, i) = <<val[q[i + 1]]>> \o Behind(val, k, q, i + 1)
<1> DEFINE V == {val[q[j]] : j \in 1..k}
<1> DEFINE s == <<val[q[i + 1]]>>
<1> DEFINE t == Behind(val, k, q, i + 1)
<1> DEFINE r == Behind(val, k, q, i)
<1>1. i + 1 \in 1..k
  OBVIOUS
<1>2. s \in Seq(V) /\ Len(s) = 1 /\ s[1] = val[q[i + 1]]
  BY <1>1
<1>3. t \in Seq(V) /\ Len(t) = k - (i + 1)
  BY <1>1, BehindSeq
<1>4. r \in Seq(V) /\ Len(r) = k - i
  BY BehindSeq
<1>5. \A j \in 1..k - (i + 1) : t[j] = val[q[i + 1 + j]]
  BY DEF Behind
<1>6. \A j \in 1..k - i : r[j] = val[q[i + j]]
  BY DEF Behind
<1>7. /\ s \o t \in Seq(V) /\ Len(s \o t) = k - i
      /\ \A j \in 1..k - i : (s \o t)[j] = IF j <= 1 THEN s[j] ELSE t[j - 1]
  <2> HIDE DEF s, t, V
  <2>1. /\ s \o t \in Seq(V) /\ Len(s \o t) = Len(s) + Len(t)
        /\ \A j \in 1..Len(s) + Len(t) :
             (s \o t)[j] = IF j <= Len(s) THEN s[j] ELSE t[j - Len(s)]
    BY <1>2, <1>3, ConcatProperties
  <2>2. Len(s) + Len(t) = k - i
    BY <1>2, <1>3
  <2>3. QED
    BY <1>2, <2>1, <2>2
<1>8. \A j \in 1..k - i : (s \o t)[j] = r[j]
  <2> SUFFICES ASSUME NEW j \in 1..k - i PROVE (s \o t)[j] = r[j]
    OBVIOUS
  <2>1. CASE j = 1
    <3> HIDE DEF s, t, r
    <3>1. QED
      BY <2>1, <1>2, <1>7, <1>6
  <2>2. CASE j # 1
    <3>1. j - 1 \in 1..k - (i + 1) /\ i + 1 + (j - 1) = i + j
      BY <2>2
    <3>2. t[j - 1] = r[j]
      BY <3>1, <1>5, <1>6
    <3> HIDE DEF s, t, r
    <3>3. QED
      BY <2>2, <3>1, <3>2, <1>7
  <2>3. QED
    BY <2>1, <2>2
<1>9. QED
  <2> HIDE DEF s, t, r
  <2>1. r = s \o t
    BY <1>4, <1>7, <1>8, SeqEqual
  <2>2. QED
    BY <2>1 DEF r, s, t

(* A function that reads a chain exists, and reads the values on it.        *)
LEMMA ReadsSome ==
  ASSUME NEW nxt, NEW val, NEW h, NEW k, NEW q, Chain(nxt, h, k, q), Null \notin DOMAIN nxt
  PROVE  \E f : Reads(nxt, val, f)
<1> DEFINE at(x) == CHOOSE i \in 1..k : x = q[i]
<1> DEFINE f == [x \in DOMAIN nxt |-> IF \E i \in 1..k : x = q[i]
                                       THEN Behind(val, k, q, at(x)) ELSE <<>>]
<1>1. k \in Nat \ {0} /\ \A i \in 1..k : q[i] \in DOMAIN nxt
  BY DEF Chain
<1>2. ASSUME NEW i \in 1..k PROVE f[q[i]] = Behind(val, k, q, i)
  <2>1. \E j \in 1..k : q[i] = q[j]
    OBVIOUS
  <2>2. at(q[i]) \in 1..k /\ q[i] = q[at(q[i])]
    BY <2>1
  <2>3. at(q[i]) = i
    BY <2>2 DEF Chain
  <2>4. QED
    BY <1>1, <2>1, <2>3
<1>3. ASSUME NEW x \in DOMAIN nxt
      PROVE  f[x] = IF nxt[x] = Null THEN <<>> ELSE <<val[nxt[x]]>> \o f[nxt[x]]
  <2>1. CASE nxt[x] = Null
    <3>1. CASE \E i \in 1..k : x = q[i]
      <4>1. PICK i \in 1..k : x = q[i]
        BY <3>1
      <4>2. i = k
        <5>1. i # k => nxt[q[i]] = q[i + 1] /\ i + 1 \in 1..k
          BY <1>1 DEF Chain
        <5>2. QED
          BY <5>1, <4>1, <2>1, <1>1
      <4>3. f[x] = Behind(val, k, q, k)
        BY <1>2, <4>1, <4>2
      <4>4. Behind(val, k, q, k) = <<>>
        BY <1>1 DEF Behind
      <4>5. QED
        BY <2>1, <4>3, <4>4
    <3>2. QED
      BY <2>1, <3>1
  <2>2. CASE nxt[x] # Null
    <3>1. PICK i \in 1..k : x = q[i]
      BY <2>2 DEF Chain
    <3>2. i < k /\ i + 1 \in 1..k /\ nxt[x] = q[i + 1]
      BY <2>2, <3>1, <1>1 DEF Chain
    <3>3. f[x] = Behind(val, k, q, i) /\ f[nxt[x]] = Behind(val, k, q, i + 1)
      BY <1>2, <3>1, <3>2
    <3> HIDE DEF f
    <3>4. Behind(val, k, q, i) = <<val[q[i + 1]]>> \o Behind(val, k, q, i + 1)
      BY <1>1, <3>2, BehindNext
    <3>5. QED
      BY <2>2, <3>2, <3>3, <3>4
  <2>3. QED
    BY <2>1, <2>2
<1>4. f = [x \in DOMAIN nxt |-> f[x]]
  OBVIOUS
<1>5. Reads(nxt, val, f)
  <2> HIDE DEF f
  <2>1. QED
    BY <1>3, <1>4 DEF Reads
<1>6. QED
  BY <1>5

(* Read from its first node, a chain gives the values behind that.           *)
LEMMA ReadsChain ==
  ASSUME NEW nxt, NEW val, NEW h, NEW k, NEW q, Chain(nxt, h, k, q), Null \notin DOMAIN nxt,
         NEW f, Reads(nxt, val, f)
  PROVE  f[h] = Behind(val, k, q, 1)
<1>1. k \in Nat \ {0} /\ \A i \in 1..k : q[i] \in DOMAIN nxt
  BY DEF Chain
<1> DEFINE Bad == {d \in 0..k - 1 : f[q[k - d]] # Behind(val, k, q, k - d)}
<1>2. Bad = {}
  <2> SUFFICES ASSUME Bad # {} PROVE FALSE
    OBVIOUS
  <2>0. Bad \in SUBSET Nat
    BY <1>1
  <2>1. PICK d \in Bad : \A e \in Bad : d <= e
    <3> HIDE DEF Bad
    <3>1. QED
      BY <2>0, LeastNat
  <2>2. d \in 0..k - 1 /\ k - d \in 1..k
    BY <1>1
  <2>3. CASE d = 0
    <3>1. f[q[k]] = <<>>
      BY <1>1 DEF Chain, Reads
    <3>2. Behind(val, k, q, k) = <<>>
      BY <1>1 DEF Behind
    <3>3. k - 0 = k
      BY <1>1
    <3>4. QED
      BY <2>3, <3>1, <3>2, <3>3
  <2>4. CASE d # 0
    <3>1. d - 1 \in 0..k - 1 /\ d - 1 \notin Bad /\ k - (d - 1) = k - d + 1
      BY <1>1, <2>1, <2>2, <2>4
    <3>2. f[q[k - d + 1]] = Behind(val, k, q, k - d + 1)
      BY <3>1
    <3>0. k - d \in 1..k - 1 /\ k - d + 1 \in 1..k
      BY <1>1, <2>2, <2>4
    <3>3. nxt[q[k - d]] = q[k - d + 1] /\ q[k - d + 1] \in DOMAIN nxt
      <4> DEFINE i == k - d
      <4>1. i \in 1..k - 1
        BY <3>0
      <4> HIDE DEF i
      <4>2. nxt[q[i]] = q[i + 1]
        BY <4>1 DEF Chain
      <4>3. QED
        BY <1>1, <3>0, <4>2 DEF i
    <3>4. f[q[k - d]] = <<val[q[k - d + 1]]>> \o f[q[k - d + 1]]
      BY <1>1, <2>2, <3>3 DEF Reads
    <3>5. Behind(val, k, q, k - d) = <<val[q[k - d + 1]]>> \o Behind(val, k, q, k - d + 1)
      <4> DEFINE i == k - d
      <4>1. i \in 1..k /\ i < k /\ k \in Nat
        BY <1>1, <3>0
      <4> HIDE DEF i
      <4>2. Behind(val, k, q, i) = <<val[q[i + 1]]>> \o Behind(val, k, q, i + 1)
        BY <4>1, BehindNext
      <4>3. QED
        BY <4>2 DEF i
    <3>6. QED
      BY <3>2, <3>4, <3>5
  <2>5. QED
    BY <2>3, <2>4
<1>3. k - 1 \in 0..k - 1 /\ k - (k - 1) = 1
  BY <1>1
<1>4. f[q[1]] = Behind(val, k, q, 1)
  BY <1>2, <1>3
<1>5. QED
  BY <1>4 DEF Chain

(* A node that is not in the chain does not change it.                      *)
LEMMA ChainBeside ==
  ASSUME NEW nxt, NEW h, NEW k, NEW q, Chain(nxt, h, k, q), NEW n, n \notin DOMAIN nxt,
         NEW new, new = [x \in DOMAIN nxt \cup {n} |-> IF x = n THEN Null ELSE nxt[x]]
  PROVE  Chain(new, h, k, q)
<1>1. k \in Nat \ {0} /\ q \in [1..k -> DOMAIN nxt] /\ \A i \in 1..k : q[i] \in DOMAIN nxt
  BY DEF Chain
<1>2. DOMAIN new = DOMAIN nxt \cup {n} /\ new[n] = Null /\ \A x \in DOMAIN nxt : new[x] = nxt[x]
  OBVIOUS
<1>3. q \in [1..k -> DOMAIN new] /\ k \in 1..k
  BY <1>1, <1>2
<1>4. \A i \in 1..k - 1 : new[q[i]] = q[i + 1]
  <2>1. \A i \in 1..k - 1 : i \in 1..k
    BY <1>1
  <2>2. QED
    BY <1>1, <1>2, <2>1 DEF Chain
<1>5. QED
  BY <1>1, <1>2, <1>3, <1>4 DEF Chain

(* A node is linked behind the last one.                                    *)
LEMMA ChainGrows ==
  ASSUME NEW nxt, NEW h, NEW k, NEW q, Chain(nxt, h, k, q), Null \notin DOMAIN nxt,
         NEW n \in DOMAIN nxt, nxt[n] = Null, n # q[k],
         NEW new, DOMAIN new = DOMAIN nxt, new[q[k]] = n,
         \A x \in DOMAIN nxt : x # q[k] => new[x] = nxt[x]
  PROVE  Chain(new, h, k + 1, [i \in 1..k + 1 |-> IF i = k + 1 THEN n ELSE q[i]])
<1> DEFINE r == [i \in 1..k + 1 |-> IF i = k + 1 THEN n ELSE q[i]]
<1>1. k \in Nat \ {0} /\ \A i \in 1..k : q[i] \in DOMAIN nxt
  BY DEF Chain
<1>2. k \in 1..k /\ q[k] \in DOMAIN nxt /\ n # Null
  BY <1>1
<1>3. DOMAIN new = DOMAIN nxt /\ new[q[k]] = n /\ \A x \in DOMAIN nxt : x # q[k] => new[x] = nxt[x]
  OBVIOUS
<1>4. r[k + 1] = n /\ \A i \in 1..k : r[i] = q[i]
  BY <1>1
<1>5. \A i \in 1..k + 1 : i \in 1..k \/ i = k + 1
  BY <1>1
<1>6. k + 1 \in Nat \ {0} /\ r \in [1..k + 1 -> DOMAIN new] /\ r[1] = h
  BY <1>1, <1>3, <1>4, <1>5 DEF Chain
<1>7. \A i \in 1..k : q[i] # n
  <2> SUFFICES ASSUME NEW i \in 1..k, q[i] = n PROVE FALSE
    OBVIOUS
  <2>1. i # k
    BY <1>1
  <2>2. nxt[q[i]] = q[i + 1] /\ i + 1 \in 1..k
    BY <1>1, <2>1 DEF Chain
  <2>3. QED
    BY <1>1, <2>2
<1>8. ASSUME NEW i \in 1..k + 1, NEW j \in 1..k + 1, r[i] = r[j] PROVE i = j
  BY <1>4, <1>5, <1>7, <1>8 DEF Chain
<1>9. ASSUME NEW i \in 1..k PROVE new[r[i]] = r[i + 1]
  <2>1. CASE i = k
    BY <1>2, <1>3, <1>4, <2>1
  <2>2. CASE i # k
    <3>1. i \in 1..k - 1 /\ i + 1 \in 1..k
      BY <1>1, <2>2
    <3>2. nxt[q[i]] = q[i + 1] /\ q[i] # q[k]
      BY <1>2, <2>2, <3>1 DEF Chain
    <3>3. QED
      BY <1>1, <1>3, <1>4, <3>1, <3>2
  <2>3. QED
    BY <2>1, <2>2
<1>10. new[r[k + 1]] = Null
  BY <1>2, <1>3, <1>4
<1>11. ASSUME NEW x \in DOMAIN new, new[x] # Null PROVE \E i \in 1..k + 1 : x = r[i]
  <2>1. CASE x = q[k]
    BY <1>1, <1>2, <1>4, <2>1
  <2>2. CASE x # q[k]
    <3>1. PICK i \in 1..k : x = q[i]
      BY <1>3, <1>11, <2>2 DEF Chain
    <3>2. i \in 1..k + 1 /\ r[i] = x
      BY <1>1, <1>4, <3>1
    <3>3. QED
      BY <3>2
  <2>3. QED
    BY <2>1, <2>2
<1>12. k + 1 - 1 = k
  BY <1>1
<1>13. QED
  <2> HIDE DEF r
  <2>1. Chain(new, h, k + 1, r)
    BY <1>6, <1>8, <1>9, <1>10, <1>11, <1>12 DEF Chain
  <2>2. QED
    BY <2>1 DEF r

(* The first node goes, the second is the first.                            *)
LEMMA ChainShrinks ==
  ASSUME NEW nxt, NEW h, NEW k, NEW q, Chain(nxt, h, k, q), Null \notin DOMAIN nxt,
         nxt[h] # Null, NEW new, new = [x \in DOMAIN nxt \ {h} |-> nxt[x]]
  PROVE  k > 1 /\ Chain(new, nxt[h], k - 1, [i \in 1..k - 1 |-> q[i + 1]])
<1> DEFINE r == [i \in 1..k - 1 |-> q[i + 1]]
<1>1. k \in Nat \ {0} /\ q[1] = h /\ \A i \in 1..k : q[i] \in DOMAIN nxt
  BY DEF Chain
<1>2. k > 1
  BY <1>1 DEF Chain
<1>3. \A i \in 1..k - 1 : i + 1 \in 1..k /\ i \in 1..k /\ r[i] = q[i + 1]
  BY <1>1
<1>4. \A i \in 1..k - 1 : r[i] \in DOMAIN nxt \ {h}
  <2> SUFFICES ASSUME NEW i \in 1..k - 1 PROVE r[i] \in DOMAIN nxt /\ r[i] # q[1]
    BY <1>1
  <2>1. i + 1 # 1 /\ 1 \in 1..k
    BY <1>1
  <2>2. QED
    BY <1>1, <1>3, <2>1 DEF Chain
<1>5. DOMAIN new = DOMAIN nxt \ {h} /\ \A x \in DOMAIN new : new[x] = nxt[x]
  OBVIOUS
<1>6. k - 1 \in Nat \ {0} /\ r \in [1..k - 1 -> DOMAIN new]
  BY <1>1, <1>2, <1>4, <1>5
<1>7. r[1] = nxt[h]
  BY <1>1, <1>2 DEF Chain
<1>8. ASSUME NEW i \in 1..k - 1, NEW j \in 1..k - 1, r[i] = r[j] PROVE i = j
  <2>1. q[i + 1] = q[j + 1] /\ i + 1 \in 1..k /\ j + 1 \in 1..k
    BY <1>3, <1>8
  <2>2. i + 1 = j + 1
    BY <2>1 DEF Chain
  <2>3. QED
    BY <2>2
<1>9. ASSUME NEW i \in 1..(k - 1) - 1 PROVE new[r[i]] = r[i + 1]
  <2>1. i \in 1..k - 1 /\ i + 1 \in 1..k - 1
    BY <1>1
  <2>2. nxt[q[i + 1]] = q[i + 1 + 1]
    BY <2>1 DEF Chain
  <2>3. QED
    BY <1>3, <1>4, <1>5, <2>1, <2>2
<1>10. new[r[k - 1]] = Null
  <2>1. k - 1 \in 1..k - 1 /\ k - 1 + 1 = k
    BY <1>1, <1>2
  <2>2. r[k - 1] = q[k] /\ nxt[q[k]] = Null
    BY <1>3, <2>1 DEF Chain
  <2>3. QED
    BY <1>4, <1>5, <2>1, <2>2
<1>11. ASSUME NEW x \in DOMAIN new, new[x] # Null PROVE \E i \in 1..k - 1 : x = r[i]
  <2>1. nxt[x] # Null /\ x \in DOMAIN nxt /\ x # h
    BY <1>5, <1>11
  <2>2. PICK i \in 1..k : x = q[i]
    BY <2>1 DEF Chain
  <2>3. i # 1
    BY <1>1, <2>1, <2>2
  <2>4. i - 1 \in 1..k - 1 /\ i - 1 + 1 = i
    BY <1>1, <2>3
  <2>5. x = r[i - 1]
    BY <1>3, <2>2, <2>4
  <2>6. QED
    BY <2>4, <2>5
<1>12. QED
  <2> HIDE DEF r
  <2>1. Chain(new, nxt[h], k - 1, r)
    BY <1>6, <1>7, <1>8, <1>9, <1>10, <1>11 DEF Chain
  <2>2. QED
    BY <1>2, <2>1 DEF r

(* The values of a chain that has grown, and of one that has shrunk.        *)
LEMMA BehindGrows ==
  ASSUME NEW val, NEW k \in Nat \ {0}, NEW q, NEW n
  PROVE  Behind(val, k + 1, [i \in 1..k + 1 |-> IF i = k + 1 THEN n ELSE q[i]], 1)
           = Append(Behind(val, k, q, 1), val[n])
<1> DEFINE r == [i \in 1..k + 1 |-> IF i = k + 1 THEN n ELSE q[i]]
<1> DEFINE s == Behind(val, k, q, 1)
<1> DEFINE t == Behind(val, k + 1, r, 1)
<1> DEFINE V == {val[q[j]] : j \in 1..k} \cup {val[r[j]] : j \in 1..k + 1}
<1> DEFINE v == val[n]
<1>1. r[k + 1] = n /\ \A i \in 1..k : r[i] = q[i]
  OBVIOUS
<1>2. s \in Seq({val[q[j]] : j \in 1..k}) /\ Len(s) = k - 1
  <2>1. k \in Nat /\ 1 \in 1..k
    OBVIOUS
  <2>2. QED
    BY <2>1, BehindSeq
<1>3. t \in Seq({val[r[j]] : j \in 1..k + 1}) /\ Len(t) = k
  <2> HIDE DEF r
  <2>1. k + 1 \in Nat /\ 1 \in 1..k + 1 /\ k + 1 - 1 = k
    OBVIOUS
  <2>2. QED
    BY <2>1, BehindSeq
<1>4. s \in Seq(V) /\ t \in Seq(V) /\ v \in V
  <2>1. v \in V
    BY <1>1
  <2>2. {val[q[j]] : j \in 1..k} \subseteq V /\ {val[r[j]] : j \in 1..k + 1} \subseteq V
    OBVIOUS
  <2> HIDE DEF s, t, V, r
  <2>3. QED
    BY <1>2, <1>3, <2>1, <2>2, SeqMonotonic
<1>5. \A j \in 1..k - 1 : s[j] = val[q[1 + j]]
  BY DEF Behind
<1>6. \A j \in 1..k : t[j] = val[r[1 + j]]
  BY DEF Behind
<1>7. ASSUME NEW j \in 1..k PROVE t[j] = IF j = k THEN v ELSE s[j]
  BY <1>1, <1>5, <1>6
<1>8. QED
  <2> HIDE DEF s, t, V, r, v
  <2>1. /\ Append(s, v) \in Seq(V) /\ Len(Append(s, v)) = Len(s) + 1
        /\ \A j \in 1..Len(s) : Append(s, v)[j] = s[j]
        /\ Append(s, v)[Len(s) + 1] = v
    BY <1>4, AppendProperties
  <2>2. Len(s) + 1 = k
    BY <1>2
  <2>3. \A j \in 1..k : t[j] = Append(s, v)[j]
    BY <1>2, <1>7, <2>1, <2>2
  <2>4. t = Append(s, v)
    BY <1>3, <1>4, <2>1, <2>2, <2>3, SeqEqual
  <2>5. QED
    BY <2>4 DEF s, t, r, v

(* Without its first value.                                                  *)
LEMMA BehindShrinks ==
  ASSUME NEW val, NEW k \in Nat, k > 1, NEW q
  PROVE  /\ Behind(val, k, q, 1) # <<>>
         /\ Behind(val, k - 1, [i \in 1..k - 1 |-> q[i + 1]], 1) = Tail(Behind(val, k, q, 1))
<1> DEFINE r == [i \in 1..k - 1 |-> q[i + 1]]
<1> DEFINE s == Behind(val, k, q, 1)
<1> DEFINE t == Behind(val, k - 1, r, 1)
<1> DEFINE V == {val[q[j]] : j \in 1..k} \cup {val[r[j]] : j \in 1..k - 1}
<1>1. \A i \in 1..k - 1 : r[i] = q[i + 1]
  OBVIOUS
<1>2. s \in Seq({val[q[j]] : j \in 1..k}) /\ Len(s) = k - 1
  <2>1. k \in Nat /\ 1 \in 1..k
    OBVIOUS
  <2>2. QED
    BY <2>1, BehindSeq
<1>3. t \in Seq({val[r[j]] : j \in 1..k - 1}) /\ Len(t) = (k - 1) - 1
  <2> HIDE DEF r
  <2>1. k - 1 \in Nat /\ 1 \in 1..k - 1
    OBVIOUS
  <2>2. QED
    BY <2>1, BehindSeq
<1>4. s \in Seq(V) /\ t \in Seq(V)
  <2>2. {val[q[j]] : j \in 1..k} \subseteq V /\ {val[r[j]] : j \in 1..k - 1} \subseteq V
    OBVIOUS
  <2> HIDE DEF s, t, V, r
  <2>3. QED
    BY <1>2, <1>3, <2>2, SeqMonotonic
<1>5. \A j \in 1..k - 1 : s[j] = val[q[1 + j]]
  BY DEF Behind
<1>6. \A j \in 1..(k - 1) - 1 : t[j] = val[r[1 + j]]
  BY DEF Behind
<1>7. ASSUME NEW j \in 1..(k - 1) - 1 PROVE t[j] = s[j + 1]
  <2>1. j + 1 \in 1..k - 1 /\ 1 + j = j + 1
    OBVIOUS
  <2>2. QED
    BY <1>1, <1>5, <1>6, <2>1
<1>8. QED
  <2> HIDE DEF s, t, V, r
  <2>1. s # <<>>
    BY <1>2
  <2>2. /\ Tail(s) \in Seq(V) /\ Len(Tail(s)) = Len(s) - 1
        /\ \A j \in 1..Len(Tail(s)) : Tail(s)[j] = s[j + 1]
    BY <1>4, <2>1, HeadTailProperties
  <2>3. t = Tail(s)
    BY <1>2, <1>3, <1>4, <1>7, <2>2, SeqEqual
  <2>4. QED
    BY <2>1, <2>3 DEF s, t, r

(* The module's Linked are the values behind the head.                      *)
LEMMA LinkedIs ==
  ASSUME NEW k, NEW q, Chain(next, head, k, q), Null \notin Alive
  PROVE  Linked = Behind(value, k, q, 1)
<1> DEFINE f == CHOOSE f : Reads(next, value, f)
<1>1. Reads(next, value, f)
  BY ReadsSome DEF Alive
<1>2. Linked = f[head]
  BY DEF Linked, Reads, Alive
<1> HIDE DEF f
<1>3. QED
  BY <1>1, <1>2, ReadsChain DEF Alive

(* The same after a step.                                                    *)
LEMMA LinkedIsNext ==
  ASSUME NEW k, NEW q, Chain(next', head', k, q), Null \notin Alive'
  PROVE  Linked' = Behind(value', k, q, 1)
<1> DEFINE f == CHOOSE f : Reads(next', value', f)
<1>1. Reads(next', value', f)
  BY ReadsSome DEF Alive
<1>2. Linked' = f[head']
  BY DEF Linked, Reads, Alive
<1> HIDE DEF f
<1>3. QED
  BY <1>1, <1>2, ReadsChain DEF Alive

(* The list of MsgList is a chain, and a node about to be linked has its    *)
(* message.                                                                 *)
Filled == \A p \in Producer : pc[p] = "link" => value[node[p]] \in Msg
FifoInv == ListInv /\ Filled /\ \E k, q : Chain(next, head, k, q)

NullIsNoNode == Null \notin Alive

(* The null pointer is no node.                                              *)
LEMMA NoNullNode == ListInv => NullIsNoNode
  BY NullAssumption DEF ListInv, ListShape, NullIsNoNode

(* The empty list.                                                           *)
LEMMA InitFifo == Init => FifoInv /\ Linked = <<>>
<1> SUFFICES ASSUME Init PROVE FifoInv /\ Linked = <<>>
  OBVIOUS
<1>1. PICK n \in Lowest(Node) : next = [x \in {n} |-> Null] /\ head = n
  BY DEF Init
<1>2. n \in Node /\ n # Null
  BY NullAssumption DEF Lowest
<1> DEFINE q == [i \in 1..1 |-> n]
<1>3. Chain(next, head, 1, q)
  <2>1. 1 \in Nat \ {0} /\ q \in [1..1 -> DOMAIN next] /\ q[1] = head
    BY <1>1
  <2>2. \A i, j \in 1..1 : q[i] = q[j] => i = j
    OBVIOUS
  <2>3. \A i \in 1..1 - 1 : next[q[i]] = q[i + 1]
    OBVIOUS
  <2>4. next[q[1]] = Null /\ \A x \in DOMAIN next : next[x] = Null
    BY <1>1
  <2>5. QED
    BY <2>1, <2>2, <2>3, <2>4 DEF Chain
<1>4. ListInv /\ NullIsNoNode
  BY InitListInv, NoNullNode
<1>5. Linked = Behind(value, 1, q, 1)
  <2> HIDE DEF q
  <2>1. QED
    BY <1>3, <1>4, LinkedIs DEF NullIsNoNode
<1>6. Behind(value, 1, q, 1) = <<>>
  BY DEF Behind
<1>7. Filled
  BY DEF Init, Filled, Thread
<1>8. QED
  BY <1>3, <1>4, <1>5, <1>6, <1>7 DEF FifoInv

(* The node a put() has filled is not in the list yet.                      *)
LEMMA PutLockFifo ==
  ASSUME FifoInv, NEW p \in Producer, NEW m \in Msg, PutLock(p, m)
  PROVE  FifoInv' /\ Linked' = Linked
<1>1. PICK n \in Node \ Alive :
        /\ next' = [x \in Alive \cup {n} |-> IF x = n THEN Null ELSE next[x]]
        /\ value' = [x \in Alive \cup {n} |-> IF x = n THEN m ELSE value[x]]
        /\ node' = [node EXCEPT ![p] = n]
  BY DEF PutLock, Fresh, Lowest
<1>2. /\ pc[p] = "idle" /\ lockT = Null /\ pc' = [pc EXCEPT ![p] = "link"] /\ head' = head
  BY DEF PutLock, Goto
<1>3. PICK k, q : Chain(next, head, k, q)
  BY DEF FifoInv
<1>4. ListInv /\ ListInv' /\ NullIsNoNode /\ NullIsNoNode'
  <2>1. ListInv /\ ListInv'
    BY PutLockInv DEF FifoInv
  <2>2. QED
    BY <2>1, NoNullNode, NullAssumption DEF ListInv, ListShape, NullIsNoNode
<1>5. Chain(next', head', k, q)
  BY <1>1, <1>2, <1>3, ChainBeside DEF Alive
<1>6. Linked = Behind(value, k, q, 1) /\ Linked' = Behind(value', k, q, 1)
  BY <1>3, <1>4, <1>5, LinkedIs, LinkedIsNext DEF NullIsNoNode
<1>7. Behind(value', k, q, 1) = Behind(value, k, q, 1)
  <2>1. k \in Nat /\ \A i \in 1..k : q[i] \in Alive
    BY <1>3 DEF Chain, Alive
  <2>2. \A x \in Alive : value'[x] = value[x]
    BY <1>1
  <2>3. \A j \in 1..k - 1 : 1 + j \in 1..k
    BY <2>1
  <2>4. QED
    BY <2>1, <2>2, <2>3 DEF Behind
<1>8. Filled'
  <2>1. \A t \in Producer : t # p => pc'[t] # "link"
    BY <1>2, NullAssumption, <1>4 DEF ListInv, Locks, Thread
  <2>2. value'[node'[p]] = m
    BY <1>1, <1>4 DEF ListInv, Locks, Thread
  <2>3. QED
    BY <2>1, <2>2 DEF Filled
<1>9. QED
  BY <1>4, <1>5, <1>6, <1>7, <1>8 DEF FifoInv

(* put() takes effect when its node is linked.                              *)
LEMMA PutLinkFifo ==
  ASSUME FifoInv, NEW p \in Producer, PutLink(p)
  PROVE  FifoInv' /\ \E m \in Msg : Linked' = Append(Linked, m)
<1>0. PICK n : n = node[p]
  OBVIOUS
<1>1. /\ pc[p] = "link" /\ next' = [next EXCEPT ![tail] = n]
      /\ pc' = [pc EXCEPT ![p] = "tail"]
      /\ UNCHANGED <<head, tail, value, node>>
  BY <1>0 DEF PutLink, Goto
<1>2. PICK k, q : Chain(next, head, k, q)
  BY DEF FifoInv
<1>3. ListInv /\ ListInv' /\ NullIsNoNode /\ NullIsNoNode'
  <2>1. ListInv /\ ListInv'
    BY PutLinkInv DEF FifoInv
  <2>2. QED
    BY <2>1, NoNullNode, NullAssumption DEF ListInv, ListShape, NullIsNoNode
<1>4. /\ tail \in Alive /\ n \in Alive /\ next[n] = Null /\ NoNextIs(n)
      /\ n # head /\ OnlyEnds({tail, n})
  BY <1>0, <1>1, <1>3 DEF ListInv, Ends
<1>5. k \in Nat \ {0} /\ q[1] = head /\ \A i \in 1..k : q[i] \in Alive
  BY <1>2 DEF Chain, Alive
<1>6. q[k] # n
  <2>1. CASE k = 1
    BY <1>4, <1>5, <2>1
  <2>2. CASE k # 1
    <3>1. k - 1 \in 1..k - 1 /\ k - 1 \in 1..k /\ k - 1 + 1 = k
      BY <1>5, <2>2
    <3>2. next[q[k - 1]] = q[k]
      BY <1>2, <3>1 DEF Chain
    <3>3. QED
      BY <1>4, <1>5, <3>1, <3>2 DEF NoNextIs
  <2>3. QED
    BY <2>1, <2>2
<1>7. q[k] = tail
  <2>1. q[k] \in Alive /\ next[q[k]] = Null
    BY <1>2, <1>5 DEF Chain
  <2>2. QED
    BY <1>4, <1>6, <2>1 DEF OnlyEnds
<1> DEFINE r == [i \in 1..k + 1 |-> IF i = k + 1 THEN n ELSE q[i]]
<1>8. Chain(next', head', k + 1, r)
  <2>1. /\ Null \notin DOMAIN next /\ n \in DOMAIN next /\ next[n] = Null /\ n # q[k]
        /\ q[k] \in DOMAIN next
    BY <1>3, <1>4, <1>6, <1>7 DEF Alive, NullIsNoNode
  <2>2. /\ DOMAIN next' = DOMAIN next /\ next'[q[k]] = n
        /\ \A x \in DOMAIN next : x # q[k] => next'[x] = next[x]
    BY <1>1, <1>3, <1>7, <2>1 DEF ListInv, ListShape, Alive
  <2>3. Chain(next', head, k + 1, r)
    BY <1>2, <2>1, <2>2, ChainGrows
  <2>4. QED
    BY <1>1, <2>3
<1>9. Linked = Behind(value, k, q, 1) /\ Linked' = Behind(value', k + 1, r, 1)
  <2> HIDE DEF r
  <2>1. QED
    BY <1>2, <1>3, <1>8, LinkedIs, LinkedIsNext DEF NullIsNoNode
<1>10. Behind(value, k + 1, r, 1) = Append(Behind(value, k, q, 1), value[n])
  BY <1>5, BehindGrows
<1>11. value[n] \in Msg
  BY <1>0, <1>1 DEF FifoInv, Filled
<1>12. Filled'
  BY <1>1, <1>3 DEF FifoInv, Filled, ListInv, Locks, Thread
<1> HIDE DEF r
<1>13. QED
  BY <1>1, <1>3, <1>8, <1>9, <1>10, <1>11, <1>12 DEF FifoInv

(* get() takes effect when the head moves.                                  *)
LEMMA GetAdvanceFifo ==
  ASSUME FifoInv, NEW c \in Consumer, GetAdvance(c)
  PROVE  FifoInv' /\ Linked # <<>> /\ Linked' = Tail(Linked)
<1>1. /\ pc[c] = "advance" /\ head' = next[head]
      /\ next' = [x \in Alive \ {head} |-> next[x]]
      /\ value' = [x \in Alive \ {head} |-> value[x]]
      /\ pc' = [pc EXCEPT ![c] = "idle"] /\ node' = node
  BY DEF GetAdvance, Goto
<1>2. PICK k, q : Chain(next, head, k, q)
  BY DEF FifoInv
<1>3. ListInv /\ ListInv' /\ NullIsNoNode /\ NullIsNoNode'
  <2>1. ListInv /\ ListInv'
    BY GetAdvanceInv DEF FifoInv
  <2>2. QED
    BY <2>1, NoNullNode, NullAssumption DEF ListInv, ListShape, NullIsNoNode
<1>4. next[head] # Null
  BY <1>1, <1>3 DEF ListInv, Ends
<1> DEFINE r == [i \in 1..k - 1 |-> q[i + 1]]
<1>5. k > 1 /\ Chain(next', head', k - 1, r)
  BY <1>1, <1>2, <1>3, <1>4, ChainShrinks DEF Alive, NullIsNoNode
<1>6. k \in Nat
  BY <1>2 DEF Chain
<1>7. Linked = Behind(value, k, q, 1) /\ Linked' = Behind(value', k - 1, r, 1)
  <2> HIDE DEF r
  <2>1. QED
    BY <1>2, <1>3, <1>5, LinkedIs, LinkedIsNext DEF NullIsNoNode
<1>8. Behind(value', k - 1, r, 1) = Behind(value, k - 1, r, 1)
  <2>1. \A i \in 1..k - 1 : r[i] \in Alive'
    <3> HIDE DEF r
    <3>1. QED
      BY <1>5 DEF Chain, Alive
  <2>2. \A x \in Alive' : value'[x] = value[x]
    BY <1>1 DEF Alive
  <2>3. \A j \in 1..(k - 1) - 1 : 1 + j \in 1..k - 1
    BY <1>6
  <2> HIDE DEF r
  <2>4. QED
    BY <2>1, <2>2, <2>3 DEF Behind
<1>9. Behind(value, k, q, 1) # <<>> /\ Behind(value, k - 1, r, 1) = Tail(Behind(value, k, q, 1))
  BY <1>5, <1>6, BehindShrinks
<1>10. Filled'
  <2> SUFFICES ASSUME NEW p \in Producer, pc'[p] = "link" PROVE value'[node'[p]] \in Msg
    BY DEF Filled
  <2>1. pc[p] = "link"
    BY <1>1, <1>3, DisjointAssumption DEF ListInv, Locks, Thread
  <2>2. node[p] \in Alive \ {head}
    BY <1>3, <2>1 DEF ListInv, Ends
  <2>3. QED
    BY <1>1, <2>1, <2>2 DEF FifoInv, Filled
<1> HIDE DEF r
<1>11. QED
  BY <1>3, <1>5, <1>7, <1>8, <1>9, <1>10 DEF FifoInv

(* The other steps leave the list, and no node about to be linked changes.  *)
SameFifo ==
  /\ UNCHANGED <<next, value, head>>
  /\ \A p \in Producer : pc'[p] = "link" => pc[p] = "link" /\ node'[p] = node[p]

(* They leave the queue.                                                     *)
LEMMA SameFifoInv ==
  ASSUME FifoInv, SameFifo, ListInv' PROVE FifoInv' /\ Linked' = Linked
<1>1. Linked' = Linked
  BY DEF SameFifo, Linked, Alive
<1>2. Filled'
  BY DEF SameFifo, Filled, FifoInv
<1>3. \E k, q : Chain(next', head', k, q)
  BY DEF SameFifo, FifoInv
<1>4. QED
  BY <1>1, <1>2, <1>3 DEF FifoInv

(* Which these are.                                                          *)
LEMMA OthersSameFifo ==
  ASSUME FifoInv, NEW t \in Thread,
         \/ t \in Producer /\ (PutTail(t) \/ PutLoad(t) \/ PutStore(t))
         \/ t \in Consumer /\ (GetLock(t) \/ GetLoad(t) \/ GetStore(t) \/ Peek(t))
  PROVE  SameFifo
<1>1. /\ UNCHANGED <<next, value, head>>
      /\ \E s \in {"idle", "load", "store", "advance", "peek"} : pc' = [pc EXCEPT ![t] = s]
      /\ node' = node \/ \E n : node' = [node EXCEPT ![t] = n]
  BY DEF PutTail, PutLoad, PutStore, GetLock, GetLoad, GetStore, Peek, PeekHead, PeekNext,
         Load, Goto, list
<1>2. pc'[t] # "link" /\ \A s \in Thread : s # t => pc'[s] = pc[s] /\ node'[s] = node[s]
  BY <1>1 DEF FifoInv, ListInv, Locks
<1>3. QED
  BY <1>1, <1>2 DEF SameFifo, Thread

(* Every step leaves the messages, adds one at the end or takes the first.   *)
LEMMA StepFifo ==
  FifoInv /\ [Next]_vars =>
    FifoInv' /\ \/ Linked' = Linked
                \/ \E m \in Msg : Linked' = Append(Linked, m)
                \/ Linked # <<>> /\ Linked' = Tail(Linked)
<1> SUFFICES ASSUME FifoInv, [Next]_vars
             PROVE  FifoInv' /\ \/ Linked' = Linked
                                \/ \E m \in Msg : Linked' = Append(Linked, m)
                                \/ Linked # <<>> /\ Linked' = Tail(Linked)
  OBVIOUS
<1>1. ListInv'
  BY StepListInv DEF FifoInv
<1>2. CASE UNCHANGED vars
  <2>1. SameFifo
    BY <1>2 DEF vars, list, SameFifo
  <2>2. QED
    BY <1>1, <2>1, SameFifoInv
<1>3. ASSUME NEW p \in Producer, Put(p)
      PROVE  FifoInv' /\ \/ Linked' = Linked
                         \/ \E m \in Msg : Linked' = Append(Linked, m)
  <2>1. CASE \E m \in Msg : PutLock(p, m)
    BY <2>1, PutLockFifo
  <2>2. CASE PutLink(p)
    BY <2>2, PutLinkFifo
  <2>3. CASE PutTail(p) \/ PutLoad(p) \/ PutStore(p)
    <3>1. SameFifo
      BY <2>3, OthersSameFifo DEF Thread
    <3>2. QED
      BY <1>1, <3>1, SameFifoInv
  <2>4. QED
    BY <1>3, <2>1, <2>2, <2>3 DEF Put
<1>4. ASSUME NEW c \in Consumer, Get(c) \/ Peek(c)
      PROVE  FifoInv' /\ \/ Linked' = Linked
                         \/ Linked # <<>> /\ Linked' = Tail(Linked)
  <2>1. CASE GetEmpty(c)
    <3>1. SameFifo
      BY <2>1 DEF GetEmpty, vars, list, SameFifo
    <3>2. QED
      BY <1>1, <3>1, SameFifoInv
  <2>2. CASE GetAdvance(c)
    BY <2>2, GetAdvanceFifo
  <2>3. CASE GetLock(c) \/ GetLoad(c) \/ GetStore(c) \/ Peek(c)
    <3>1. SameFifo
      BY <2>3, OthersSameFifo DEF Thread
    <3>2. QED
      BY <1>1, <3>1, SameFifoInv
  <2>4. QED
    BY <1>4, <2>1, <2>2, <2>3 DEF Get
<1>5. QED
  BY <1>2, <1>3, <1>4 DEF Next

(* For any producers, consumers, messages and nodes: whatever the           *)
(* interleaving of put() and get(), and whatever happens to _size, the list *)
(* is a queue that loses, doubles and reorders nothing (MsgList.h).         *)
THEOREM ListIsFifo == Spec => ImplementsFifo
<1>1. Init => FifoInv /\ Fifo!Init
  BY InitFifo DEF Fifo!Init
<1>2. FifoInv /\ [Next]_vars => FifoInv' /\ [Fifo!Next]_Linked
  BY StepFifo DEF Fifo!Next, Fifo!Put, Fifo!Take
<1>3. QED
  BY <1>1, <1>2, PTL DEF Spec, ImplementsFifo, Fifo!Spec

(* And so it is next to the other containers (MsgList.h).                  *)
THEOREM ContainersFifo == ContainersSpec => ImplementsFifo
<1>1. ContainersInit => Init
  BY DEF ContainersInit
<1>2. [ContainersNext]_<<tried, vars, table, freeLists>> => [Next]_vars
  BY DEF ContainersNext
<1>3. QED
  BY <1>1, <1>2, ListIsFifo, PTL DEF ContainersSpec, Spec
===============================================================================
