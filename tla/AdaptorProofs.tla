---------------------------- MODULE AdaptorProofs ----------------------------
(* The pools of the order managers do not mix, and a loop in one is never   *)
(* opened again, for any number of clients, managers and orders.            *)
EXTENDS Adaptor, FiniteSets, FiniteSetTheorems, SequenceTheorems, TLAPS

(* The type of what the pools are made of.                                  *)
PoolType ==
  /\ made \in Nat
  /\ orderList \in Seq(Nat \cup {Null}) /\ Len(orderList) = made
  /\ next \in Seq(Nat \cup {Null})
  /\ home \in Seq(Nat) /\ Len(home) = Len(next)
  /\ DOMAIN pc = Client
  /\ mine = [c \in Client |-> [manager |-> mine[c].manager, order |-> mine[c].order]]

(* The head of a pool, and every chain, is of orders of one manager; so is  *)
(* the order a client is about to give back.                                *)
HeadsAtHome ==
  \A m \in Manager : orderList[m] # Null => orderList[m] \in Order /\ home[orderList[m]] = m
ChainsAtHome == \A o \in Order : next[o] # Null => next[o] \in Order /\ home[next[o]] = home[o]
UsedAtHome ==
  \A c \in Client : pc[c] \in {"send", "drop"} =>
    /\ Pool(c) \in Manager
    /\ mine[c].order \in Order /\ home[mine[c].order] = Pool(c)

AtHome == PoolType /\ HeadsAtHome /\ ChainsAtHome /\ UsedAtHome

LEMMA InitAtHome == Init => AtHome
  BY DEF Init, AtHome, PoolType, HeadsAtHome, ChainsAtHome, UsedAtHome, Manager, Order, NoOrder

(* What a call of registerSymbol() adds is a chain of its own.              *)
LEMMA RegisterKeepsAtHome ==
  ASSUME AtHome, NEW c \in Client, NEW n \in 0..MaxPool, Register(c, n)
  PROVE  /\ AtHome'
         /\ \A o \in Order : o \in Order' /\ next'[o] = next[o]
         /\ \A m \in Manager : orderList'[m] = orderList[m]
<1> DEFINE chain == [i \in 1..n |-> IF i = 1 THEN Null ELSE Len(next) + i - 1]
           homes == [i \in 1..n |-> made + 1]
           first == IF n = 0 THEN Null ELSE Len(next) + n
<1>1. /\ made' = made + 1 /\ next' = next \o chain /\ home' = home \o homes
      /\ orderList' = Append(orderList, first)
      /\ pc' = [pc EXCEPT ![c] = "push"] /\ mine' = mine
  BY DEF Register, InitOrderPool, Goto
<1>2. n \in Nat /\ Null \notin Nat
  BY BoundAssumption
<1>3. chain \in Seq(Nat \cup {Null}) /\ Len(chain) = n /\ homes \in Seq(Nat) /\ Len(homes) = n
  <2>1. /\ next \in Seq(Nat \cup {Null}) /\ made \in Nat
    BY DEF AtHome, PoolType
  <2>2. Len(next) \in Nat
    BY <2>1
  <2>3. chain \in [1..n -> Nat \cup {Null}] /\ homes \in [1..n -> Nat]
    BY <1>2, <2>1, <2>2
  <2>4. QED
    BY <1>2, <2>3
<1> HIDE DEF chain, homes
<1>4. /\ next \in Seq(Nat \cup {Null}) /\ home \in Seq(Nat) /\ Len(home) = Len(next)
      /\ orderList \in Seq(Nat \cup {Null}) /\ Len(orderList) = made /\ made \in Nat
      /\ Len(next) \in Nat
  BY DEF AtHome, PoolType
<1>5. /\ next' \in Seq(Nat \cup {Null}) /\ Len(next') = Len(next) + n
      /\ home' \in Seq(Nat) /\ Len(home') = Len(next')
      /\ \A i \in 1..Len(next) : next'[i] = next[i] /\ home'[i] = home[i]
      /\ \A i \in 1..n : next'[Len(next) + i] = chain[i] /\ home'[Len(next) + i] = homes[i]
  <2>1. /\ next' \in Seq(Nat \cup {Null}) /\ Len(next') = Len(next) + Len(chain)
        /\ \A i \in 1..Len(next) : next'[i] = next[i]
        /\ \A i \in 1..Len(chain) : next'[Len(next) + i] = chain[i]
    <3>1. /\ next' = next \o chain
          /\ next \in Seq(Nat \cup {Null}) /\ chain \in Seq(Nat \cup {Null})
      BY <1>1, <1>3, <1>4
    <3>2. QED
      BY <3>1
  <2>2. /\ home' \in Seq(Nat) /\ Len(home') = Len(home) + Len(homes)
        /\ \A i \in 1..Len(home) : home'[i] = home[i]
        /\ \A i \in 1..Len(homes) : home'[Len(home) + i] = homes[i]
    <3>1. home' = home \o homes /\ home \in Seq(Nat) /\ homes \in Seq(Nat)
      BY <1>1, <1>3, <1>4
    <3>2. QED
      BY <3>1
  <2>3. QED
    BY <2>1, <2>2, <1>3, <1>4
<1>6. /\ orderList' \in Seq(Nat \cup {Null}) /\ Len(orderList') = made'
      /\ \A m \in 1..made : orderList'[m] = orderList[m]
      /\ orderList'[made + 1] = first
  <2>1. first \in Nat \cup {Null}
    BY <1>2, <1>4
  <2> HIDE DEF first
  <2>2. /\ orderList' = Append(orderList, first)
        /\ orderList \in Seq(Nat \cup {Null}) /\ Len(orderList) = made
    BY <1>1, <1>4
  <2>3. made' = made + 1
    BY <1>1
  <2>4. QED
    BY <2>1, <2>2, <2>3
<1>7. Order = 1..Len(next) /\ Order' = 1..(Len(next) + n) /\ Manager' = 1..(made + 1)
  BY <1>1, <1>4, <1>5 DEF Order, Manager
<1>8. PoolType'
  BY <1>1, <1>2, <1>4, <1>5, <1>6 DEF AtHome, PoolType
<1>9. \A i \in 1..n : home'[Len(next) + i] = made + 1
                      /\ next'[Len(next) + i] = IF i = 1 THEN Null ELSE Len(next) + i - 1
  BY <1>5 DEF chain, homes
<1>10. \A i \in 1..Len(next) : i \in Order'
  BY <1>2, <1>4, <1>7
<1>11. HeadsAtHome'
  <2> SUFFICES ASSUME NEW m \in Manager', orderList'[m] # Null
               PROVE  orderList'[m] \in Order' /\ home'[orderList'[m]] = m
    BY DEF HeadsAtHome
  <2>1. CASE m \in 1..made
    <3>1. orderList[m] \in 1..Len(next) /\ home[orderList[m]] = m /\ orderList'[m] = orderList[m]
      BY <2>1, <1>6, <1>7 DEF AtHome, HeadsAtHome, Manager
    <3>2. home'[orderList[m]] = home[orderList[m]]
      BY <3>1, <1>5, Zenon
    <3>3. QED
      BY <3>1, <3>2, <1>10, Zenon
  <2>2. CASE m = made + 1
    BY <2>2, <1>2, <1>4, <1>6, <1>7, <1>9
  <2>3. QED
    BY <2>1, <2>2, <1>4, <1>7
<1>12. ChainsAtHome'
  <2> SUFFICES ASSUME NEW o \in Order', next'[o] # Null
               PROVE  next'[o] \in Order' /\ home'[next'[o]] = home'[o]
    BY DEF ChainsAtHome
  <2>1. CASE o \in Order
    <3>1. o \in 1..Len(next) /\ next'[o] = next[o] /\ home'[o] = home[o]
      BY <2>1, <1>5, <1>7
    <3>2. next[o] \in 1..Len(next) /\ home[next[o]] = home[o]
      BY <2>1, <3>1, <1>7 DEF AtHome, ChainsAtHome
    <3>3. home'[next[o]] = home[next[o]]
      BY <3>2, <1>5, Zenon
    <3>4. QED
      BY <3>1, <3>2, <3>3, <1>10, Zenon
  <2>2. CASE o \notin Order
    <3>1. PICK i \in 1..n : o = Len(next) + i
      <4>1. o - Len(next) \in 1..n
        BY <2>2, <1>2, <1>4, <1>7
      <4>2. o = Len(next) + (o - Len(next))
        BY <1>2, <1>4, <1>7
      <4>3. QED
        BY <4>1, <4>2
    <3>2. i # 1 /\ next'[o] = Len(next) + (i - 1) /\ i - 1 \in 1..n
      BY <3>1, <1>2, <1>4, <1>9
    <3>3. home'[Len(next) + (i - 1)] = made + 1 /\ home'[o] = made + 1
      BY <3>1, <3>2, <1>9
    <3>4. Len(next) + (i - 1) \in Order'
      BY <3>2, <1>2, <1>4, <1>7
    <3>5. QED
      BY <3>2, <3>3, <3>4
  <2>3. QED
    BY <2>1, <2>2
<1>13. UsedAtHome'
  BY <1>1, <1>2, <1>4, <1>5, <1>7 DEF AtHome, PoolType, UsedAtHome, Pool, Manager
<1>14. QED
  BY <1>2, <1>4, <1>5, <1>6, <1>7, <1>8, <1>11, <1>12, <1>13 DEF AtHome, Manager

(* Neither clone() nor a put-back of an order leads out of a pool.          *)
LEMMA CloneKeepsAtHome ==
  ASSUME AtHome, NEW c \in Client, GetOrder(c), Clone(c, orderList[Pool(c)])
  PROVE  AtHome' /\ \A o \in Order : o \in Order' /\ next'[o] = next[o]
<1> DEFINE first == orderList[Pool(c)]
<1>1. /\ first \in Order /\ home[first] = Pool(c) /\ Pool(c) \in Manager /\ pc[c] = "take"
  BY DEF GetOrder, HasPool, AtHome, HeadsAtHome
<1>2. /\ next \in Seq(Nat \cup {Null}) /\ home \in Seq(Nat) /\ Len(home) = Len(next)
      /\ Len(next) \in Nat /\ Null \notin Nat
  BY BoundAssumption DEF AtHome, PoolType
<1>3. /\ next' = Append(next, Null) /\ home' = Append(home, home[first])
      /\ mine' = [mine EXCEPT ![c] = [manager |-> Pool(c), order |-> Len(next) + 1]]
      /\ orderList' = orderList /\ made' = made /\ pc' = [pc EXCEPT ![c] = "send"]
  BY DEF GetOrder, Clone, Goto, registry
<1> HIDE DEF first
<1>4. Order = 1..Len(next) /\ home[first] \in Nat
  BY <1>1, <1>2 DEF Order
<1>5. /\ next' \in Seq(Nat \cup {Null}) /\ Len(next') = Len(next) + 1
      /\ home' \in Seq(Nat) /\ Len(home') = Len(next')
      /\ \A o \in Order : next'[o] = next[o] /\ home'[o] = home[o]
      /\ next'[Len(next) + 1] = Null /\ home'[Len(next) + 1] = Pool(c)
  <2>1. /\ next' \in Seq(Nat \cup {Null}) /\ Len(next') = Len(next) + 1
        /\ \A i \in 1..Len(next) : next'[i] = next[i]
        /\ next'[Len(next) + 1] = Null
    <3>1. next' = Append(next, Null) /\ next \in Seq(Nat \cup {Null})
      BY <1>2, <1>3
    <3>2. QED
      BY <3>1
  <2>2. /\ home' \in Seq(Nat) /\ Len(home') = Len(home) + 1
        /\ \A i \in 1..Len(home) : home'[i] = home[i]
        /\ home'[Len(home) + 1] = home[first]
    <3>1. home' = Append(home, home[first]) /\ home \in Seq(Nat) /\ home[first] \in Nat
      BY <1>2, <1>3, <1>4
    <3>2. QED
      BY <3>1
  <2>3. QED
    BY <2>1, <2>2, <1>1, <1>2, <1>4
<1>6. Order' = 1..(Len(next) + 1) /\ Manager' = Manager
  BY <1>2, <1>3, <1>5 DEF Order, Manager
<1>7. PoolType'
  BY <1>2, <1>3, <1>5 DEF AtHome, PoolType
<1>8. HeadsAtHome' /\ ChainsAtHome'
  BY <1>2, <1>3, <1>4, <1>5, <1>6 DEF AtHome, HeadsAtHome, ChainsAtHome
<1>9. UsedAtHome'
  <2> SUFFICES ASSUME NEW d \in Client, pc'[d] \in {"send", "drop"}
               PROVE  /\ mine'[d].manager \in Manager
                      /\ mine'[d].order \in Order' /\ home'[mine'[d].order] = mine'[d].manager
    BY <1>6 DEF UsedAtHome, Pool
  <2>1. CASE d = c
    <3>1. mine'[c].order = Len(next) + 1 /\ mine'[c].manager = Pool(c)
      BY <1>3 DEF AtHome, PoolType, Pool
    <3>2. QED
      BY <2>1, <3>1, <1>1, <1>2, <1>5, <1>6
  <2>2. CASE d # c
    <3>1. mine'[d] = mine[d] /\ pc'[d] = pc[d]
      BY <2>2, <1>3 DEF AtHome, PoolType
    <3>2. QED
      BY <3>1, <1>2, <1>4, <1>5, <1>6 DEF AtHome, UsedAtHome, Pool
  <2>3. QED
    BY <2>1, <2>2
<1>10. QED
  BY <1>2, <1>4, <1>5, <1>6, <1>7, <1>8, <1>9 DEF AtHome

LEMMA PutKeepsAtHome ==
  ASSUME AtHome, NEW c \in Client, SendReturns(c) \/ Drop(c)
  PROVE  AtHome' /\ Order' = Order
<1> DEFINE p == Pool(c)
           o == mine[c].order
<1>1. /\ p \in Manager /\ o \in Order /\ home[o] = p /\ pc[c] \in {"send", "drop"}
  BY DEF SendReturns, Drop, AtHome, UsedAtHome
<1>2. /\ next' = [next EXCEPT ![o] = orderList[p]] /\ orderList' = [orderList EXCEPT ![p] = o]
      /\ home' = home /\ made' = made
      /\ \/ pc' = [pc EXCEPT ![c] = "drop"] /\ mine' = mine
         \/ pc' = [pc EXCEPT ![c] = "idle"] /\ mine' = [mine EXCEPT ![c] = NoOrder]
  BY DEF SendReturns, Drop, PutOrder, Goto, registry
<1> HIDE DEF p, o
<1>3. /\ next \in Seq(Nat \cup {Null}) /\ orderList \in Seq(Nat \cup {Null})
      /\ Len(orderList) = made /\ made \in Nat /\ Null \notin Nat /\ Len(next) \in Nat
      /\ Order = 1..Len(next) /\ Manager = 1..made
  BY BoundAssumption DEF AtHome, PoolType, Order, Manager
<1>4. /\ next' \in Seq(Nat \cup {Null}) /\ Len(next') = Len(next)
      /\ orderList' \in Seq(Nat \cup {Null}) /\ Len(orderList') = made
  BY <1>1, <1>2, <1>3
<1>5. Order' = Order /\ Manager' = Manager
  BY <1>2, <1>3, <1>4 DEF Order, Manager
<1>6. /\ \A x \in Order : next'[x] = IF x = o THEN orderList[p] ELSE next[x]
      /\ \A m \in Manager : orderList'[m] = IF m = p THEN o ELSE orderList[m]
  BY <1>2, <1>3
<1>7. PoolType'
  BY <1>2, <1>4 DEF AtHome, PoolType, NoOrder
<1>8. HeadsAtHome' /\ ChainsAtHome'
  BY <1>1, <1>2, <1>5, <1>6 DEF AtHome, HeadsAtHome, ChainsAtHome
<1>9. UsedAtHome'
  <2> SUFFICES ASSUME NEW d \in Client, pc'[d] \in {"send", "drop"}
               PROVE  /\ mine'[d].manager \in Manager
                      /\ mine'[d].order \in Order /\ home[mine'[d].order] = mine'[d].manager
    BY <1>2, <1>5 DEF UsedAtHome, Pool
  <2>1. mine'[d] = mine[d] /\ pc[d] \in {"send", "drop"}
    BY <1>1, <1>2 DEF AtHome, PoolType
  <2>2. QED
    BY <2>1 DEF AtHome, UsedAtHome, Pool
<1>10. QED
  BY <1>5, <1>7, <1>8, <1>9 DEF AtHome

LEMMA TakeKeepsAtHome ==
  ASSUME AtHome, NEW c \in Client, GetOrder(c), Take(c, orderList[Pool(c)])
  PROVE  AtHome'
<1> DEFINE p == Pool(c)
           first == orderList[p]
<1>1. /\ first \in Order /\ home[first] = p /\ p \in Manager /\ pc[c] = "take"
      /\ next[first] \in Order /\ home[next[first]] = p
  BY DEF GetOrder, HasPool, Take, AtHome, HeadsAtHome, ChainsAtHome
<1>2. /\ orderList' = [orderList EXCEPT ![p] = next[first]]
      /\ mine' = [mine EXCEPT ![c] = [manager |-> p, order |-> first]]
      /\ next' = next /\ home' = home /\ made' = made /\ pc' = [pc EXCEPT ![c] = "send"]
      /\ mine[c].manager = p
  BY DEF GetOrder, Take, Goto, registry, Pool
<1> HIDE DEF p, first
<1>3. /\ orderList \in Seq(Nat \cup {Null}) /\ Len(orderList) = made /\ made \in Nat
      /\ next \in Seq(Nat \cup {Null}) /\ Manager = 1..made /\ Order' = Order /\ Manager' = Manager
      /\ Order = 1..Len(next)
  BY <1>2 DEF AtHome, PoolType, Order, Manager
<1>4. /\ orderList' \in Seq(Nat \cup {Null}) /\ Len(orderList') = made
      /\ \A m \in Manager : orderList'[m] = IF m = p THEN next[first] ELSE orderList[m]
  BY <1>1, <1>2, <1>3
<1>5. PoolType'
  BY <1>2, <1>4 DEF AtHome, PoolType
<1>6. HeadsAtHome' /\ ChainsAtHome'
  BY <1>1, <1>2, <1>3, <1>4 DEF AtHome, HeadsAtHome, ChainsAtHome
<1>7. UsedAtHome'
  BY <1>1, <1>2, <1>3 DEF AtHome, PoolType, UsedAtHome, Pool
<1>8. QED
  BY <1>5, <1>6, <1>7 DEF AtHome

(* The steps that leave the pools alone. *)
Elsewhere ==
  /\ UNCHANGED <<made, orderList, next, home>>
  /\ \/ UNCHANGED <<pc, mine>>
     \/ \E c \in Client :
          /\ pc' \in {[pc EXCEPT ![c] = step] : step \in {"index", "get", "idle"}} /\ mine' = mine
     \/ \E c \in Client, m \in messages :
          /\ pc' = [pc EXCEPT ![c] = "take"]
          /\ mine' = [mine EXCEPT ![c] = [manager |-> m, order |-> Null]]

LEMMA ElsewhereKeepsAtHome == ASSUME AtHome, Elsewhere PROVE AtHome'
<1>1. Order' = Order /\ Manager' = Manager
  BY DEF Elsewhere, Order, Manager
<1>2. PoolType'
  BY DEF AtHome, Elsewhere, PoolType
<1>3. HeadsAtHome' /\ ChainsAtHome'
  BY <1>1 DEF AtHome, Elsewhere, HeadsAtHome, ChainsAtHome
<1>4. UsedAtHome'
  <2> SUFFICES ASSUME NEW d \in Client, pc'[d] \in {"send", "drop"}
               PROVE  mine'[d] = mine[d] /\ pc[d] \in {"send", "drop"}
    BY <1>1 DEF AtHome, Elsewhere, UsedAtHome, Pool
  <2>1. QED
    BY DEF AtHome, Elsewhere, PoolType
<1>5. QED
  BY <1>2, <1>3, <1>4 DEF AtHome

LEMMA StepCases ==
  ASSUME [Next]_vars
  PROVE  \/ Elsewhere
         \/ \E c \in Client :
              \/ \E n \in 0..MaxPool : Register(c, n)
              \/ GetOrder(c) /\ (Take(c, orderList[Pool(c)]) \/ Clone(c, orderList[Pool(c)]))
              \/ SendReturns(c) \/ Drop(c)
<1>1. CASE UNCHANGED vars
  BY <1>1 DEF vars, registry, pool, Elsewhere
<1>2. CASE Logon \/ Disconnect \/ Worker
  BY <1>2 DEF Logon, Disconnect, Worker, Tell, Notify, registry, pool, Elsewhere
<1>3. ASSUME NEW c \in Client, Push(c) \/ Index(c) \/ GetManager(c) PROVE Elsewhere
  BY <1>3 DEF Push, Index, GetManager, Goto, pool, Elsewhere
<1>4. ASSUME NEW c \in Client, SendRefused(c) \/ GetOrderCrashes(c) PROVE Elsewhere
  BY <1>4 DEF SendRefused, GetOrderCrashes, vars, registry, pool, Elsewhere
<1>5. ASSUME NEW c \in Client, NEW m \in messages, Send(c, m) PROVE Elsewhere
  BY <1>5 DEF Send, Goto, registry, Elsewhere
<1>6. ASSUME NEW c \in Client, GetOrder(c)
      PROVE  Take(c, orderList[Pool(c)]) \/ Clone(c, orderList[Pool(c)])
  BY <1>6 DEF GetOrder
<1>7. QED
  BY <1>1, <1>2, <1>3, <1>4, <1>5, <1>6 DEF Next, ClientStep

LEMMA StepKeepsAtHome == AtHome /\ [Next]_vars => AtHome'
  BY StepCases, ElsewhereKeepsAtHome, RegisterKeepsAtHome, TakeKeepsAtHome, CloneKeepsAtHome,
     PutKeepsAtHome

(* The pools do not mix: an order is only ever in, or given back to, the    *)
(* pool of the manager it was made by or cloned for, and no order that is   *)
(* not there is followed.                                                   *)
THEOREM PoolsApart == Spec => []AtHome
  BY InitAtHome, StepKeepsAtHome, PTL DEF Spec
-----------------------------------------------------------------------------
(* The loop a step is to leave closed is S, or S and the order put back.    *)
LEMMA StepKeepsLoop ==
  ASSUME AtHome, [Next]_vars, NEW m \in Manager, Looped(m)
  PROVE  Looped(m)'
<1>1. PICK S \in SUBSET Order : orderList[m] \in S /\ \A o \in S : next[o] \in S
  BY DEF Looped
<1>2. CASE Elsewhere
  BY <1>1, <1>2 DEF Elsewhere, Looped, Order
<1>3. ASSUME NEW c \in Client, NEW n \in 0..MaxPool, Register(c, n) PROVE Looped(m)'
  BY <1>1, <1>3, RegisterKeepsAtHome DEF Looped
<1>4. ASSUME NEW c \in Client, GetOrder(c), Clone(c, orderList[Pool(c)]) PROVE Looped(m)'
  <2>1. orderList' = orderList
    BY <1>4 DEF Clone
  <2>2. \A o \in Order : o \in Order' /\ next'[o] = next[o]
    BY <1>4, CloneKeepsAtHome
  <2>3. QED
    BY <1>1, <2>1, <2>2 DEF Looped
<1>5. ASSUME NEW c \in Client, GetOrder(c), Take(c, orderList[Pool(c)]) PROVE Looped(m)'
  <2>1. /\ next' = next /\ Order' = Order
        /\ orderList' = [orderList EXCEPT ![Pool(c)] = next[orderList[Pool(c)]]]
    BY <1>5 DEF Take, Order
  <2>2. orderList'[m] \in S
    BY <1>1, <2>1 DEF AtHome, PoolType, Manager
  <2>3. QED
    BY <1>1, <2>1, <2>2 DEF Looped
<1>6. ASSUME NEW c \in Client, SendReturns(c) \/ Drop(c) PROVE Looped(m)'
  <2> DEFINE p == Pool(c)
             o == mine[c].order
  <2>1. /\ p \in Manager /\ o \in Order /\ home[o] = p
        /\ next' = [next EXCEPT ![o] = orderList[p]] /\ orderList' = [orderList EXCEPT ![p] = o]
    BY <1>6 DEF SendReturns, Drop, PutOrder, AtHome, UsedAtHome
  <2>2. Order' = Order
    BY <1>6, PutKeepsAtHome
  <2>3. /\ Order = DOMAIN next /\ DOMAIN orderList = Manager
        /\ \A x \in Order : next[x] # Null => home[next[x]] = home[x]
        /\ orderList[m] # Null => home[orderList[m]] = m
        /\ Null \notin Order
    BY BoundAssumption DEF AtHome, PoolType, HeadsAtHome, ChainsAtHome, Order, Manager
  <2> HIDE DEF p, o
  <2>4. CASE m = p
    <3>1. orderList'[m] = o
      BY <2>1, <2>3, <2>4
    <3>2. \A x \in S \cup {o} : next'[x] \in S \cup {o}
      BY <1>1, <2>1, <2>3, <2>4
    <3>3. S \cup {o} \in SUBSET Order'
      BY <2>1, <2>2
    <3>4. QED
      BY <3>1, <3>2, <3>3 DEF Looped
  <2>5. CASE m # p
    <3> DEFINE R == {x \in S : home[x] = m}
    <3>1. orderList'[m] \in R
      BY <1>1, <2>1, <2>3, <2>5
    <3>2. \A x \in R : next'[x] \in R
      BY <1>1, <2>1, <2>3, <2>5
    <3>3. R \in SUBSET Order'
      BY <2>2
    <3>4. QED
      BY <3>1, <3>2, <3>3 DEF Looped
  <2>6. QED
    BY <2>4, <2>5
<1>7. QED
  BY <1>2, <1>3, <1>4, <1>5, <1>6, StepCases

(* An order put back twice closes a loop in the pool for as long as the     *)
(* program runs.                                                            *)
THEOREM LoopsStay == Spec => LoopIsForGood
<1>1. AtHome /\ [Next]_vars => [\A m \in Manager : Looped(m) => Looped(m)']_vars
  BY StepKeepsLoop
<1>2. QED
  BY <1>1, PoolsApart, PTL DEF Spec, LoopIsForGood
-----------------------------------------------------------------------------
(* The registration of products, on the deque of the managers. Every client *)
(* about to move the end of the deque has room for it: below the managers    *)
(* made there is a slot for each of them.                                    *)
Pushing == {c \in Client : pc[c] = "push"}
Room ==
  /\ IsFiniteSet(Pushing)
  /\ finish + Cardinality(Pushing) <= made
  /\ \A c \in Pushing : slot[c] \in Nat /\ slot[c] + Cardinality(Pushing) <= made
  /\ \A c \in Client : /\ pc[c] = "index" => finish >= 1
                       /\ pc[c] = "get" => slot[c] \in 0..MaxManagers - 1

(* The manager a client that registers alone has made is where the client   *)
(* will look for it.                                                        *)
OwnInDeque ==
  \A c \in alone :
    /\ Registering \subseteq {c}
    /\ pc[c] = "push" => slot[c] = finish /\ managers[finish] = own[c]
    /\ pc[c] = "index" => slot[c] \in Nat /\ finish = slot[c] + 1 /\ managers[slot[c]] = own[c]
    /\ pc[c] = "get" => managers[slot[c]] = own[c]

(* Registrations change the set of the clients that push by one.            *)
LEMMA PushingChanges ==
  ASSUME IsFiniteSet(Pushing), TypeOK, NEW c \in Client
  PROVE  /\ Cardinality(Pushing) \in Nat
         /\ pc[c] # "push" /\ pc' = [pc EXCEPT ![c] = "push"] =>
              IsFiniteSet(Pushing') /\ Cardinality(Pushing') = Cardinality(Pushing) + 1
         /\ \A step \in {"idle", "index", "get", "take", "send", "drop"} :
              pc[c] = "push" /\ pc' = [pc EXCEPT ![c] = step] =>
                /\ IsFiniteSet(Pushing') /\ Cardinality(Pushing') = Cardinality(Pushing) - 1
                /\ Pushing' \subseteq Pushing
         /\ \A step \in {"idle", "index", "get", "take", "send", "drop"} :
              pc[c] # "push" /\ pc' = [pc EXCEPT ![c] = step] => Pushing' = Pushing
<1>1. pc \in [Client -> {"idle", "push", "index", "get", "take", "send", "drop"}]
  BY DEF TypeOK
<1>2. Cardinality(Pushing) \in Nat
  BY FS_CardinalityType
<1>3. ASSUME pc[c] # "push", pc' = [pc EXCEPT ![c] = "push"]
      PROVE  IsFiniteSet(Pushing') /\ Cardinality(Pushing') = Cardinality(Pushing) + 1
  <2>1. Pushing' = Pushing \cup {c} /\ c \notin Pushing
    BY <1>1, <1>3 DEF Pushing
  <2>2. QED
    BY <2>1, FS_AddElement
<1>4. ASSUME NEW step \in {"idle", "index", "get", "take", "send", "drop"},
             pc[c] = "push", pc' = [pc EXCEPT ![c] = step]
      PROVE  /\ IsFiniteSet(Pushing') /\ Cardinality(Pushing') = Cardinality(Pushing) - 1
             /\ Pushing' \subseteq Pushing
  <2>1. Pushing' = Pushing \ {c} /\ c \in Pushing
    BY <1>1, <1>4 DEF Pushing
  <2>2. QED
    BY <2>1, FS_RemoveElement
<1>5. ASSUME NEW step \in {"idle", "index", "get", "take", "send", "drop"},
             pc[c] # "push", pc' = [pc EXCEPT ![c] = step]
      PROVE  Pushing' = Pushing
  BY <1>1, <1>5 DEF Pushing
<1>6. QED
  BY <1>2, <1>3, <1>4, <1>5

LEMMA InitRegistry == Init => TypeOK /\ Room /\ OwnInDeque
<1> SUFFICES ASSUME Init PROVE TypeOK /\ Room /\ OwnInDeque
  OBVIOUS
<1>1. Pushing = {} /\ IsFiniteSet(Pushing) /\ Cardinality(Pushing) = 0
  BY FS_EmptySet DEF Init, Pushing
<1>2. TypeOK
  <2>1. /\ notices \in Seq(BOOLEAN) /\ next \in Seq(Nat \cup {Null}) /\ home \in Seq(Nat)
        /\ orderList \in Seq(Nat \cup {Null})
    BY DEF Init
  <2>2. /\ made \in 0..MaxManagers /\ finish \in 0..MaxManagers
        /\ managers \in [0..MaxManagers - 1 -> Manager \cup {Null}]
    BY BoundAssumption DEF Init
  <2>3. /\ own \in [Client -> Manager \cup {Null}] /\ slot \in [Client -> 0..MaxManagers \cup {Null}]
        /\ mine \in [Client -> [manager : Manager \cup {Null}, order : Order \cup {Null}]]
        /\ pc \in [Client -> {"idle", "push", "index", "get", "take", "send", "drop"}]
    BY DEF Init, NoOrder
  <2>4. QED
    BY <2>1, <2>2, <2>3 DEF Init, TypeOK
<1>3. Room
  <2>1. finish = 0 /\ made = 0 /\ \A c \in Client : pc[c] = "idle"
    BY DEF Init
  <2>2. QED
    BY <1>1, <2>1 DEF Room
<1>4. QED
  BY <1>2, <1>3 DEF Init, OwnInDeque

LEMMA RegisterKeepsRegistry ==
  ASSUME TypeOK, Room, OwnInDeque, NEW c \in Client, NEW n \in 0..MaxPool, Register(c, n)
  PROVE  Room' /\ OwnInDeque'
<1>1. /\ made \in 0..MaxManagers /\ finish \in Nat /\ MaxManagers \in Nat /\ made < MaxManagers
      /\ DOMAIN managers = 0..MaxManagers - 1
      /\ pc \in [Client -> {"idle", "push", "index", "get", "take", "send", "drop"}]
      /\ DOMAIN own = Client /\ DOMAIN slot = Client
  BY BoundAssumption DEF TypeOK, Register
<1>2. /\ made' = made + 1 /\ finish' = finish /\ managers' = [managers EXCEPT ![finish] = made + 1]
      /\ own' = [own EXCEPT ![c] = made + 1] /\ slot' = [slot EXCEPT ![c] = finish]
      /\ alone' = IF Registering = {} THEN {c} ELSE {}
      /\ pc[c] = "idle" /\ pc' = [pc EXCEPT ![c] = "push"]
  BY DEF Register, Goto, Idle
<1>3. /\ Cardinality(Pushing) \in Nat /\ IsFiniteSet(Pushing')
      /\ Cardinality(Pushing') = Cardinality(Pushing) + 1
  BY <1>2, PushingChanges DEF Room
<1>4. \A d \in Client \ {c} : pc'[d] = pc[d] /\ slot'[d] = slot[d]
  BY <1>1, <1>2
<1>5. Room'
  <2>1. finish' + Cardinality(Pushing') <= made'
    BY <1>1, <1>2, <1>3 DEF Room
  <2>2. ASSUME NEW d \in Pushing'
        PROVE  slot'[d] \in Nat /\ slot'[d] + Cardinality(Pushing') <= made'
    <3>1. d \in Client /\ (d # c => d \in Pushing)
      BY <1>4, <2>2 DEF Pushing
    <3>2. CASE d = c
      BY <1>1, <1>2, <2>1, <3>2
    <3>3. CASE d # c
      BY <1>1, <1>2, <1>3, <1>4, <3>1, <3>3 DEF Room
    <3>4. QED
      BY <3>2, <3>3
  <2>3. ASSUME NEW d \in Client
        PROVE  /\ pc'[d] = "index" => finish' >= 1
               /\ pc'[d] = "get" => slot'[d] \in 0..MaxManagers - 1
    BY <1>1, <1>2, <1>4 DEF Room
  <2>4. QED
    BY <1>3, <2>1, <2>2, <2>3 DEF Room
<1>6. OwnInDeque'
  <2> SUFFICES ASSUME Registering = {}
               PROVE  /\ Registering' \subseteq {c} /\ slot'[c] = finish' /\ pc'[c] = "push"
                      /\ managers'[finish'] = own'[c]
    BY <1>2 DEF OwnInDeque
  <2>1. Registering' \subseteq {c}
    BY <1>1, <1>2 DEF Registering
  <2>2. finish \in 0..MaxManagers - 1
    BY <1>1, <1>3 DEF Room
  <2>3. QED
    BY <1>1, <1>2, <2>1, <2>2
<1>7. QED
  BY <1>5, <1>6

LEMMA PushKeepsRegistry ==
  ASSUME TypeOK, Room, OwnInDeque, NEW c \in Client, Push(c)
  PROVE  Room' /\ OwnInDeque'
<1>1. /\ made \in Nat /\ finish \in Nat
      /\ pc \in [Client -> {"idle", "push", "index", "get", "take", "send", "drop"}]
  BY BoundAssumption DEF TypeOK
<1>2. /\ finish' \in {finish + 1, slot[c] + 1} /\ pc[c] = "push" /\ pc' = [pc EXCEPT ![c] = "index"]
      /\ made' = made /\ managers' = managers /\ own' = own /\ slot' = slot /\ alone' = alone
  BY DEF Push, Goto
<1>3. /\ Cardinality(Pushing) \in Nat /\ IsFiniteSet(Pushing') /\ Pushing' \subseteq Pushing
      /\ Cardinality(Pushing') = Cardinality(Pushing) - 1
  BY <1>2, PushingChanges DEF Room
<1>4. /\ finish + Cardinality(Pushing) <= made
      /\ slot[c] \in Nat /\ slot[c] + Cardinality(Pushing) <= made
  BY <1>2 DEF Room, Pushing
<1>5. finish' \in Nat /\ finish' >= 1 /\ finish' + Cardinality(Pushing') <= made
  BY <1>1, <1>2, <1>3, <1>4
<1>6. Room'
  <2>1. \A d \in Pushing' : slot[d] \in Nat /\ slot[d] + Cardinality(Pushing') <= made
    BY <1>1, <1>3 DEF Room
  <2>2. \A d \in Client : pc'[d] = "get" => slot[d] \in 0..MaxManagers - 1
    BY <1>1, <1>2 DEF Room
  <2>3. QED
    BY <1>2, <1>3, <1>5, <2>1, <2>2 DEF Room
<1>7. OwnInDeque'
  <2> SUFFICES ASSUME NEW d \in alone
               PROVE  /\ Registering' \subseteq {d}
                      /\ d = c /\ pc'[c] = "index" /\ slot[c] \in Nat /\ finish' = slot[c] + 1
                      /\ managers[slot[c]] = own[c]
    BY <1>2 DEF OwnInDeque
  <2>1. c \in Registering /\ Registering' \subseteq Registering
    BY <1>1, <1>2 DEF Registering
  <2>2. Registering \subseteq {d} /\ d = c /\ slot[c] = finish /\ managers[finish] = own[c]
    BY <1>2, <2>1 DEF OwnInDeque
  <2>3. QED
    BY <1>1, <1>2, <1>4, <2>1, <2>2
<1>8. QED
  BY <1>6, <1>7

LEMMA IndexKeepsRegistry ==
  ASSUME TypeOK, Room, OwnInDeque, NEW c \in Client, Index(c) \/ GetManager(c)
  PROVE  Room' /\ OwnInDeque'
<1>1. /\ made \in 0..MaxManagers /\ finish \in Nat /\ MaxManagers \in Nat
      /\ pc \in [Client -> {"idle", "push", "index", "get", "take", "send", "drop"}]
      /\ DOMAIN own = Client /\ DOMAIN slot = Client
  BY BoundAssumption DEF TypeOK
<1>2. made' = made /\ managers' = managers /\ finish' = finish /\ alone' \subseteq alone
  BY DEF Index, GetManager
<1>3. /\ pc[c] \in {"index", "get"}
      /\ \/ pc[c] = "index" /\ pc' = [pc EXCEPT ![c] = "get"] /\ slot'[c] = finish - 1 /\ own'[c] = own[c]
         \/ pc[c] = "get" /\ pc' = [pc EXCEPT ![c] = "idle"] /\ alone' = alone \ {c}
      /\ \A d \in Client \ {c} : pc'[d] = pc[d] /\ slot'[d] = slot[d] /\ own'[d] = own[d]
  BY <1>1 DEF Index, GetManager, Goto
<1>4. Pushing' = Pushing /\ Cardinality(Pushing) \in Nat
  BY <1>3, PushingChanges DEF Room
<1>5. Room'
  <2>1. \A d \in Pushing : slot'[d] = slot[d]
    BY <1>3 DEF Pushing
  <2>2. ASSUME NEW d \in Client
        PROVE  /\ pc'[d] = "index" => finish' >= 1
               /\ pc'[d] = "get" => slot'[d] \in 0..MaxManagers - 1
    <3>1. CASE d = c
      <4>1. finish <= made /\ made <= MaxManagers /\ (pc[c] = "index" => finish >= 1)
        BY <1>1, <1>4 DEF Room
      <4>2. QED
        BY <1>1, <1>3, <3>1, <4>1
    <3>2. CASE d # c
      BY <1>2, <1>3, <3>2 DEF Room
    <3>3. QED
      BY <3>1, <3>2
  <2>3. QED
    BY <1>2, <1>4, <2>1, <2>2 DEF Room
<1>6. OwnInDeque'
  <2> SUFFICES ASSUME NEW d \in alone'
               PROVE  /\ Registering' \subseteq {d}
                      /\ pc'[d] = "push" => slot'[d] = finish /\ managers[finish] = own'[d]
                      /\ pc'[d] = "index" => /\ slot'[d] \in Nat /\ finish = slot'[d] + 1
                                             /\ managers[slot'[d]] = own'[d]
                      /\ pc'[d] = "get" => managers[slot'[d]] = own'[d]
    BY <1>2 DEF OwnInDeque
  <2>1. c \in Registering /\ Registering' \subseteq Registering
    BY <1>1, <1>3 DEF Registering
  <2>2. d = c
    BY <1>2, <2>1 DEF OwnInDeque
  <2>3. pc[c] = "index" /\ slot[c] \in Nat /\ finish = slot[c] + 1 /\ managers[slot[c]] = own[c]
    BY <1>2, <1>3, <2>2 DEF OwnInDeque
  <2>4. slot'[c] = slot[c] /\ own'[c] = own[c] /\ pc'[c] = "get"
    BY <1>1, <1>3, <2>3
  <2>5. QED
    BY <1>2, <2>1, <2>2, <2>3, <2>4 DEF OwnInDeque
<1>7. QED
  BY <1>5, <1>6

(* The steps that leave the registration of products alone. *)
Unregistering ==
  /\ UNCHANGED <<made, managers, finish, own, slot, alone>>
  /\ \/ UNCHANGED pc
     \/ \E c \in Client : /\ pc[c] \notin {"push", "index", "get"}
                          /\ pc' \in {[pc EXCEPT ![c] = step] : step \in {"idle", "take", "send", "drop"}}

LEMMA UnregisteringKeepsRegistry ==
  ASSUME TypeOK, Room, OwnInDeque, Unregistering
  PROVE  Room' /\ OwnInDeque'
<1>1. pc \in [Client -> {"idle", "push", "index", "get", "take", "send", "drop"}]
  BY DEF TypeOK
<1>2. \A d \in Client : pc[d] \in {"push", "index", "get"} \/ pc'[d] \in {"push", "index", "get"}
                          => pc'[d] = pc[d]
  BY <1>1 DEF Unregistering
<1>3. Pushing' = Pushing /\ Registering' = Registering
  BY <1>2 DEF Pushing, Registering
<1>4. Room'
  BY <1>2, <1>3 DEF Room, Unregistering
<1>5. OwnInDeque'
  BY <1>2, <1>3 DEF OwnInDeque, Unregistering, TypeOK
<1>6. QED
  BY <1>4, <1>5

LEMMA RegistryCases ==
  ASSUME [Next]_vars
  PROVE  \/ Unregistering
         \/ \E c \in Client : (\E n \in 0..MaxPool : Register(c, n)) \/ Push(c) \/ Index(c) \/ GetManager(c)
<1>1. CASE UNCHANGED vars
  BY <1>1 DEF vars, registry, Unregistering
<1>2. CASE Logon \/ Disconnect \/ Worker
  BY <1>2 DEF Logon, Disconnect, Worker, Tell, Notify, registry, Unregistering
<1>3. ASSUME NEW c \in Client, GetOrder(c) \/ GetOrderCrashes(c) \/ SendReturns(c) \/ Drop(c)
      PROVE  Unregistering
  BY <1>3 DEF GetOrder, GetOrderCrashes, SendReturns, Drop, PutOrder, Goto, registry, Unregistering
<1>4. ASSUME NEW c \in Client, SendRefused(c) \/ (\E m \in messages : Send(c, m))
      PROVE  Unregistering
  BY <1>4 DEF SendRefused, Send, Idle, Goto, vars, registry, Unregistering
<1>5. QED
  BY <1>1, <1>2, <1>3, <1>4 DEF Next, ClientStep

LEMMA StepKeepsRegistry ==
  TypeOK /\ Room /\ OwnInDeque /\ [Next]_vars => Room' /\ OwnInDeque'
  BY RegistryCases, RegisterKeepsRegistry, PushKeepsRegistry, IndexKeepsRegistry,
     UnregisteringKeepsRegistry
-----------------------------------------------------------------------------
(* What a pool is made of is typed by PoolType, which every step keeps; the  *)
(* rest of TypeOK is of the session, the registration and the clients.       *)
LEMMA SessionTyped ==
  ASSUME TypeOK, [Next]_vars
  PROVE  /\ connected' \in BOOLEAN /\ notices' \in Seq(BOOLEAN)
         /\ isUp' \in BOOLEAN /\ isOpen' \in BOOLEAN
<1> DEFINE Typed == /\ connected \in BOOLEAN /\ notices \in Seq(BOOLEAN)
                    /\ isUp \in BOOLEAN /\ isOpen \in BOOLEAN
<1> SUFFICES Typed'
  OBVIOUS
<1>0. Typed
  BY DEF TypeOK
<1>1. CASE UNCHANGED session
  BY <1>0, <1>1, Zenon DEF session
<1>2. CASE Logon \/ Disconnect
  <2>1. \A b \in BOOLEAN : Append(notices, b) \in Seq(BOOLEAN)
    BY <1>0
  <2>2. QED
    BY <1>0, <1>2, <2>1, Zenon DEF Logon, Disconnect
<1>3. CASE Worker
  <2>1. notices # <<>> => Head(notices) \in BOOLEAN /\ Tail(notices) \in Seq(BOOLEAN)
    BY <1>0
  <2>2. QED
    BY <1>0, <1>3, <2>1, Zenon DEF Worker, Tell, Notify
<1>4. ASSUME NEW c \in Client, ClientStep(c)
      PROVE  UNCHANGED session
  BY <1>4 DEF ClientStep, Register, Push, Index, GetManager, SendRefused, Send, GetOrder,
              GetOrderCrashes, SendReturns, Drop, PutOrder, vars
<1>5. QED
  BY <1>1, <1>2, <1>3, <1>4 DEF Next, vars

ClientsTyped ==
  /\ pc \in [Client -> {"idle", "push", "index", "get", "take", "send", "drop"}]
  /\ own \in [Client -> Manager \cup {Null}] /\ slot \in [Client -> 0..MaxManagers \cup {Null}]
  /\ alone \subseteq Client /\ crashed \in BOOLEAN
  /\ messages \subseteq Manager \cup {Null}
  /\ managers \in [0..MaxManagers - 1 -> Manager \cup {Null}]
  /\ made \in 0..MaxManagers
  /\ mine \in [Client -> [manager : Manager \cup {Null}, order : Order \cup {Null}]]

LEMMA RegisterTyped ==
  ASSUME TypeOK, AtHome, NEW c \in Client, NEW n \in 0..MaxPool, Register(c, n)
  PROVE  ClientsTyped'
<1>1. /\ made \in 0..MaxManagers /\ finish \in 0..MaxManagers /\ MaxManagers \in Nat
      /\ made < MaxManagers /\ made' = made + 1
  BY BoundAssumption DEF TypeOK, Register
<1>2. Manager' = Manager \cup {made + 1}
  BY <1>1 DEF Manager
<1>3. Order \subseteq Order'
  BY RegisterKeepsAtHome
<1>4. /\ managers' = [managers EXCEPT ![finish] = made + 1]
      /\ own' = [own EXCEPT ![c] = made + 1] /\ slot' = [slot EXCEPT ![c] = finish]
      /\ alone' \in {{c}, {}} /\ pc' = [pc EXCEPT ![c] = "push"]
      /\ messages' = messages /\ mine' = mine
  BY DEF Register, Goto
<1>5. crashed' \in BOOLEAN
  <2>1. crashed' \in {FALSE, n > 0}
    BY DEF Register
  <2>2. (n > 0) \in BOOLEAN
    BY BoundAssumption, SMT
  <2>3. QED
    BY <2>1, <2>2, Zenon
<1>6. /\ pc' \in [Client -> {"idle", "push", "index", "get", "take", "send", "drop"}]
      /\ own' \in [Client -> Manager' \cup {Null}]
      /\ slot' \in [Client -> 0..MaxManagers \cup {Null}]
      /\ managers' \in [0..MaxManagers - 1 -> Manager' \cup {Null}]
  BY <1>1, <1>2, <1>4 DEF TypeOK
<1>7. mine' \in [Client -> [manager : Manager' \cup {Null}, order : Order' \cup {Null}]]
  BY <1>2, <1>3, <1>4 DEF TypeOK
<1>8. QED
  BY <1>1, <1>2, <1>4, <1>5, <1>6, <1>7 DEF TypeOK, ClientsTyped

LEMMA RegistrationTyped ==
  ASSUME TypeOK, Room, NEW c \in Client, Push(c) \/ Index(c) \/ GetManager(c)
  PROVE  ClientsTyped'
<1>1. Manager' = Manager /\ Order' = Order /\ made' = made /\ managers' = managers /\ mine' = mine
  BY DEF Push, Index, GetManager, pool, Manager, Order
<1>2. pc' \in [Client -> {"idle", "push", "index", "get", "take", "send", "drop"}]
  BY DEF TypeOK, Push, Index, GetManager, Goto
<1>3. own' \in [Client -> Manager \cup {Null}] /\ alone' \subseteq Client /\ crashed' \in BOOLEAN
  BY DEF TypeOK, Push, Index, GetManager
<1>4. slot' \in [Client -> 0..MaxManagers \cup {Null}]
  <2>1. pc[c] = "index" => finish - 1 \in 0..MaxManagers
    BY BoundAssumption DEF TypeOK, Room
  <2>2. QED
    BY <2>1 DEF TypeOK, Push, Index, GetManager
<1>5. messages' \subseteq Manager \cup {Null}
  <2>1. pc[c] = "get" => managers[slot[c]] \in Manager \cup {Null}
    BY DEF TypeOK, Room
  <2>2. QED
    BY <2>1 DEF TypeOK, Push, Index, GetManager
<1>6. QED
  BY <1>1, <1>2, <1>3, <1>4, <1>5 DEF TypeOK, ClientsTyped

LEMMA OrderStepTyped ==
  ASSUME TypeOK, AtHome, NEW c \in Client, GetOrder(c) \/ SendReturns(c) \/ Drop(c)
  PROVE  ClientsTyped'
<1>1. UNCHANGED <<made, managers, messages, own, slot, alone, crashed>> /\ Manager' = Manager
  BY DEF GetOrder, SendReturns, Drop, PutOrder, registry, Manager
<1>2. Pool(c) \in Manager \cup {Null}
  BY DEF TypeOK, Pool
<1>3. pc' \in [Client -> {"idle", "push", "index", "get", "take", "send", "drop"}]
  BY DEF TypeOK, GetOrder, SendReturns, Drop, Goto
<1>4. mine' \in [Client -> [manager : Manager \cup {Null}, order : Order' \cup {Null}]]
  <2>1. CASE SendReturns(c) \/ Drop(c)
    <3>1. Order' = Order
      BY <2>1, PutKeepsAtHome
    <3>2. mine' = mine \/ mine' = [mine EXCEPT ![c] = NoOrder]
      BY <2>1 DEF SendReturns, Drop
    <3>3. mine \in [Client -> [manager : Manager \cup {Null}, order : Order \cup {Null}]]
      BY DEF TypeOK
    <3>4. QED
      BY <3>1, <3>2, <3>3 DEF NoOrder
  <2>2. CASE GetOrder(c) /\ Take(c, orderList[Pool(c)])
    <3>1. orderList[Pool(c)] \in Order /\ Order' = Order
      BY <2>2 DEF GetOrder, HasPool, Take, AtHome, HeadsAtHome, Order
    <3>2. mine' = [mine EXCEPT ![c] = [manager |-> Pool(c), order |-> orderList[Pool(c)]]]
      BY <2>2 DEF Take
    <3>3. QED
      BY <1>2, <3>1, <3>2 DEF TypeOK
  <2>3. CASE GetOrder(c) /\ Clone(c, orderList[Pool(c)])
    <3>1. /\ next' = Append(next, Null) /\ next \in Seq(Nat \cup {Null})
          /\ mine' = [mine EXCEPT ![c] = [manager |-> Pool(c), order |-> Len(next) + 1]]
      BY <2>3 DEF Clone, TypeOK
    <3>2. Order' = 1..Len(next) + 1 /\ Order = 1..Len(next) /\ Len(next) \in Nat
      BY <3>1 DEF Order
    <3>3. Len(next) + 1 \in Order' /\ Order \subseteq Order'
      BY <3>2
    <3>4. QED
      BY <1>2, <3>1, <3>3 DEF TypeOK
  <2>4. QED
    BY <2>1, <2>2, <2>3 DEF GetOrder
<1>5. QED
  BY <1>1, <1>3, <1>4 DEF TypeOK, ClientsTyped

LEMMA OtherStepTyped ==
  ASSUME TypeOK, NEW c \in Client,
         SendRefused(c) \/ (\E m \in messages : Send(c, m)) \/ GetOrderCrashes(c)
  PROVE  ClientsTyped'
<1>1. UNCHANGED <<made, managers, messages, own, slot, alone>> /\ Manager' = Manager /\ Order' = Order
  BY DEF SendRefused, Send, GetOrderCrashes, registry, pool, vars, Manager, Order
<1>2. /\ pc' \in [Client -> {"idle", "push", "index", "get", "take", "send", "drop"}]
      /\ crashed' \in BOOLEAN
  BY DEF TypeOK, SendRefused, Send, GetOrderCrashes, vars, Goto
<1>3. mine' \in [Client -> [manager : Manager \cup {Null}, order : Order \cup {Null}]]
  BY DEF TypeOK, SendRefused, Send, GetOrderCrashes, vars, pool
<1>4. QED
  BY <1>1, <1>2, <1>3 DEF TypeOK, ClientsTyped

LEMMA StepKeepsType ==
  ASSUME TypeOK, AtHome, Room, OwnInDeque, [Next]_vars
  PROVE  TypeOK'
<1>1. ClientsTyped'
  <2>1. CASE UNCHANGED <<registry, pool, pc, crashed>>
    BY <2>1 DEF TypeOK, ClientsTyped, registry, pool, Manager, Order
  <2>2. CASE Logon \/ Disconnect \/ Worker
    BY <2>1, <2>2 DEF Logon, Disconnect, Worker, Tell, Notify
  <2>3. ASSUME NEW c \in Client, ClientStep(c) PROVE ClientsTyped'
    BY <2>3, RegisterTyped, RegistrationTyped, OrderStepTyped, OtherStepTyped DEF ClientStep
  <2>4. QED
    BY <2>1, <2>2, <2>3 DEF Next, vars
<1>2. finish' \in 0..MaxManagers
  <2>1. finish' \in Nat
    <3>1. finish \in Nat /\ \A c \in Client : pc[c] = "push" => slot[c] \in Nat
      BY BoundAssumption DEF TypeOK, Room, Pushing
    <3>2. finish' = finish \/ \E c \in Client : pc[c] = "push" /\ finish' \in {finish + 1, slot[c] + 1}
      BY RegistryCases DEF Unregistering, Register, Push, Index, GetManager
    <3>3. QED
      BY <3>1, <3>2
  <2>2. IsFiniteSet(Pushing') /\ finish' + Cardinality(Pushing') <= made' /\ made' \in 0..MaxManagers
    BY <1>1, StepKeepsRegistry DEF Room, ClientsTyped
  <2>3. Cardinality(Pushing') \in Nat
    BY <2>2, FS_CardinalityType
  <2>4. QED
    BY <2>1, <2>2, <2>3, BoundAssumption
<1>3. PoolType'
  BY StepKeepsAtHome DEF AtHome
<1>4. QED
  BY <1>1, <1>2, <1>3, SessionTyped DEF TypeOK, ClientsTyped, PoolType

(* The order managers stay within the deque, and what the clients and the   *)
(* messages hold are managers and orders that were made.                    *)
THEOREM TypeCorrect == Spec => [](TypeOK /\ Room /\ OwnInDeque)
<1>1. Init => TypeOK /\ Room /\ OwnInDeque
  BY InitRegistry
<1>2. AtHome /\ (TypeOK /\ Room /\ OwnInDeque) /\ [Next]_vars => (TypeOK /\ Room /\ OwnInDeque)'
  BY StepKeepsType, StepKeepsRegistry
<1>3. QED
  BY <1>1, <1>2, PoolsApart, PTL DEF Spec

(* A product registered while no other is gets the manager made for it: the *)
(* push_back(), size() - 1 and getOrderManager() of registerSymbol() meet   *)
(* in one slot, whatever overlapping registrations did to the deque before. *)
THEOREM RegistersOwnManager == Spec => []OwnManager
<1>1. OwnInDeque => OwnManager
  BY DEF OwnInDeque, OwnManager
<1>2. QED
  BY <1>1, TypeCorrect, PTL
=============================================================================
