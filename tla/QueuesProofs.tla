----------------------------- MODULE QueuesProofs -----------------------------
(***************************************************************************)
(* For any number of threads, messages and nodes: the spin lock excludes,  *)
(* so the sections of MsgQ do; MsgQ is a queue; a waiter of it that found  *)
(* nothing ends it for good; and with one producer LocklessQ links and     *)
(* takes every message once and in order.                                  *)
(***************************************************************************)
EXTENDS Queues, SequenceTheorems, WellFoundedInduction, TLAPS

(* The inductive invariant of the lock: mutual exclusion alone is not       *)
(* inductive, the exchange must know that a word of UNLOCKED means nobody   *)
(* is inside. Its threads are the guards here, of any set of threads.       *)
LockInv == Lock!TypeOK /\ Lock!WordIsOwned /\ Lock!MutualExclusion

LEMMA InitLockInv == Lock!Init => LockInv
  BY DEF Lock!Init, Lock!UNLOCKED, Lock!LOCKED, LockInv, Lock!TypeOK, Lock!WordIsOwned,
         Lock!MutualExclusion

(* Every step of a guard keeps the invariant.                               *)
LEMMA StepLockInv == LockInv /\ [Lock!Next]_(Lock!vars) => LockInv'
<1> SUFFICES ASSUME LockInv, [Lock!Next]_(Lock!vars) PROVE LockInv'
  OBVIOUS
<1> USE DEF Lock!UNLOCKED, Lock!LOCKED, LockInv, Lock!TypeOK, Lock!WordIsOwned,
            Lock!MutualExclusion
<1>1. ASSUME NEW g \in Guard, Lock!Call(g) PROVE LockInv'
  BY <1>1 DEF Lock!Call
<1>2. ASSUME NEW g \in Guard, Lock!Exchange(g) PROVE LockInv'
  BY <1>2 DEF Lock!Exchange
<1>3. ASSUME NEW g \in Guard, Lock!Spin(g) PROVE LockInv'
  BY <1>3 DEF Lock!Spin
<1>4. ASSUME NEW g \in Guard, Lock!Unlock(g) PROVE LockInv'
  BY <1>4 DEF Lock!Unlock
<1>5. CASE UNCHANGED Lock!vars
  BY <1>5 DEF Lock!vars
<1>6. QED
  BY <1>1, <1>2, <1>3, <1>4, <1>5 DEF Lock!Next, Lock!Step

(* The spin lock alone: never two inside, and its word is LOCKED exactly    *)
(* while one is.                                                            *)
THEOREM SpinLockExcludes == Lock!Spec => [](Lock!MutualExclusion /\ Lock!WordIsOwned)
<1>1. LockInv => Lock!MutualExclusion /\ Lock!WordIsOwned
  BY DEF LockInv
<1>2. QED
  BY <1>1, InitLockInv, StepLockInv, PTL DEF Lock!Spec
-----------------------------------------------------------------------------
Steps == {"idle", "link", "tail", "get", "got", "again", "block"}

(* The inductive invariant. The lock's own invariant carries over, since    *)
(* every step of the queue is a step of the lock or leaves it alone; the    *)
(* queue adds that a thread amid a section is inside it, and that a counted *)
(* waiter hangs.                                                            *)
InSection == \A t \in Thread : pc[t] \in {"tail", "got"} => guards[Section(t)] = "inside"
QueueInv ==
  /\ LockInv
  /\ pc \in [Thread -> Steps]
  /\ waitingForTake \in Nat
  /\ InSection
  /\ waitingForTake > 0 => SomeoneHung

(* A step of the queue is a step of the lock for one guard, or none.        *)
LEMMA StepOfLock == [Next]_vars => [Lock!Next]_(Lock!vars)
<1> SUFFICES ASSUME [Next]_vars PROVE [Lock!Next]_(Lock!vars)
  OBVIOUS
<1> USE DEF Section, Block, Guard, Lock!vars
<1>1. CASE UNCHANGED vars
  BY <1>1 DEF vars, lock
<1>2. ASSUME NEW t \in Thread, Call(t) PROVE [Lock!Next]_(Lock!vars)
  BY <1>2 DEF Call, PostNothing, Post, Wait, Lock!Call, Lock!Next, Lock!Step, vars, lock
<1>3. ASSUME NEW t \in Thread, PostLink(t) \/ GetRead(t) PROVE [Lock!Next]_(Lock!vars)
  BY <1>3 DEF PostLink, GetRead, lock
<1>4. ASSUME NEW t \in Thread, PostTail(t) \/ GetNothing(t) \/ GetFound(t)
      PROVE  [Lock!Next]_(Lock!vars)
  BY <1>4 DEF PostTail, GetNothing, GetFound, Lock!Unlock, Lock!Next, Lock!Step,
     Lock!UNLOCKED
<1>5. ASSUME NEW t \in Thread, WaitBlock(t) \/ WaitAgain(t) PROVE [Lock!Next]_(Lock!vars)
  BY <1>5 DEF WaitBlock, WaitAgain, Lock!Call, Lock!Next, Lock!Step
<1>6. ASSUME NEW g \in Guard, LockStep(g) PROVE [Lock!Next]_(Lock!vars)
  BY <1>6 DEF LockStep, Lock!Exchange, Lock!Spin, Lock!Next, Lock!Step,
     Lock!UNLOCKED, Lock!LOCKED
<1>7. QED
  BY <1>1, <1>2, <1>3, <1>4, <1>5, <1>6 DEF Next, Step

LEMMA InitQueueInv == Init => QueueInv
<1> SUFFICES ASSUME Init PROVE QueueInv
  OBVIOUS
<1>1. LockInv
  BY InitLockInv DEF Init, Lock!Init, Lock!UNLOCKED
<1>2. QED
  BY <1>1 DEF Init, QueueInv, InSection, Steps, SomeoneHung

(* The lock's invariant, in the words of the queue.                         *)
LEMMA LockFacts ==
  ASSUME LockInv
  PROVE  /\ guards \in [Guard -> {"outside", "exchange", "spin", "inside"}]
         /\ MutualExclusion
  BY DEF LockInv, Lock!TypeOK, Lock!MutualExclusion, MutualExclusion, Lock!MutualExclusion

(* A thread whose waiter's block holds the lock is in no section, and no    *)
(* other thread is.                                                         *)
LEMMA HungExcludes ==
  ASSUME QueueInv, NEW h \in Thread, Hung(h), NEW t \in Thread
  PROVE  /\ guards[Section(t)] # "inside"
         /\ pc[t] \notin {"tail", "got"}
         /\ guards[Block(t)] = "inside" => t = h
<1>1. Section(t) \in Guard /\ Block(t) \in Guard /\ Block(h) \in Guard
  BY DEF Section, Block, Guard
<1>2. Section(t) # Block(h) /\ (Block(t) = Block(h) => t = h)
  BY DEF Section, Block
<1>3. MutualExclusion
  BY LockFacts DEF QueueInv
<1>4. QED
  BY <1>1, <1>2, <1>3 DEF MutualExclusion, Lock!MutualExclusion, Hung, QueueInv, InSection

(* Once a waiter is counted, no step lets it go or moves an end of the list. *)
LEMMA HangStep ==
  ASSUME QueueInv, [Next]_vars, waitingForTake > 0
  PROVE  SomeoneHung' /\ UNCHANGED <<head, tail>>
<1>1. PICK h \in Thread : Hung(h)
  BY DEF QueueInv, SomeoneHung
<1>2. guards \in [Guard -> {"outside", "exchange", "spin", "inside"}] /\ pc \in [Thread -> Steps]
  BY LockFacts DEF QueueInv
<1>3. \A t \in Thread : Section(t) \in Guard /\ Block(t) \in Guard /\ Section(t) # Block(h)
  BY DEF Section, Block, Guard
<1>4. \A t \in Thread : guards[Section(t)] # "inside" /\ pc[t] \notin {"tail", "got"}
  BY <1>1, HungExcludes
<1> USE DEF Hung, Goto
<1>5. ASSUME UNCHANGED vars PROVE Hung(h)' /\ UNCHANGED <<head, tail>>
  BY <1>1, <1>5 DEF vars, list, thread, lock, Block
<1>6. ASSUME NEW t \in Thread, Call(t) PROVE Hung(h)' /\ UNCHANGED <<head, tail>>
  BY <1>1, <1>2, <1>3, <1>6
  DEF Call, PostNothing, Post, Wait, Lock!Call, vars, list, thread, lock, Block
<1>7. ASSUME NEW t \in Thread,
             PostLink(t) \/ PostTail(t) \/ GetRead(t) \/ GetNothing(t) \/ GetFound(t)
      PROVE FALSE
  BY <1>4, <1>7 DEF PostLink, PostTail, GetRead, GetNothing, GetFound
<1>8. ASSUME NEW t \in Thread, WaitBlock(t) PROVE Hung(h)' /\ UNCHANGED <<head, tail>>
  <2>1. t # h
    BY <1>1, <1>8 DEF WaitBlock
  <2>2. Block(t) # Block(h)
    BY <2>1 DEF Block
  <2>3. QED
    BY <1>1, <1>2, <1>3, <1>8, <2>1, <2>2 DEF WaitBlock, Lock!Call, list, Block
<1>9. ASSUME NEW t \in Thread, WaitAgain(t) PROVE FALSE
  <2>1. t = h
    BY <1>1, <1>9, HungExcludes DEF WaitAgain
  <2>2. QED
    BY <1>1, <1>9, <2>1 DEF WaitAgain
<1>10. ASSUME NEW g \in Guard, LockStep(g) PROVE Hung(h)' /\ UNCHANGED <<head, tail>>
  BY <1>1, <1>2, <1>3, <1>10 DEF LockStep, Lock!Exchange, Lock!Spin, list, thread, Block
<1>11. Hung(h)' /\ UNCHANGED <<head, tail>>
  <2>1. \A t \in Thread : Section(t) \in Guard /\ Block(t) \in Guard
    BY <1>3
  <2>2. QED
    BY <1>5, <1>6, <1>7, <1>8, <1>9, <1>10, <2>1 DEF Next, Step
<1>12. QED
  BY <1>11 DEF SomeoneHung

LEMMA StepQueueInv == QueueInv /\ [Next]_vars => QueueInv'
<1> SUFFICES ASSUME QueueInv, [Next]_vars PROVE QueueInv'
  OBVIOUS
<1>1. LockInv'
  BY StepOfLock, StepLockInv DEF QueueInv
<1>2. guards \in [Guard -> {"outside", "exchange", "spin", "inside"}]
  BY LockFacts DEF QueueInv
<1>3. \A t \in Thread : Section(t) \in Guard /\ Block(t) \in Guard
  BY DEF Section, Block, Guard
<1>4. \A t, u \in Thread : Section(t) # Block(u) /\ (Section(t) = Section(u) => t = u)
  BY DEF Section, Block
<1>5. pc' \in [Thread -> Steps] /\ waitingForTake' \in Nat
  BY DEF QueueInv, Steps, Goto, Next, Call, Step, PostNothing, Post, Wait, PostLink,
     PostTail,
     GetRead, GetNothing, GetFound, WaitBlock, WaitAgain, LockStep, vars, thread
<1>6. InSection'
  <2> SUFFICES ASSUME NEW u \in Thread, pc'[u] \in {"tail", "got"}
               PROVE  guards'[Section(u)] = "inside"
    BY DEF InSection, Section
  <2> USE <1>2, <1>3, <1>4 DEF QueueInv, InSection, Goto, Steps
  <2>1. CASE UNCHANGED vars
    BY <2>1 DEF vars, thread, lock, Section
  <2>2. ASSUME NEW t \in Thread, Call(t) PROVE guards'[Section(u)] = "inside"
    BY <2>2 DEF Call, PostNothing, Post, Wait, Lock!Call, vars, thread, lock, Section
  <2>3. ASSUME NEW t \in Thread, PostLink(t) \/ GetRead(t) PROVE guards'[Section(u)] = "inside"
    BY <2>3 DEF PostLink, GetRead, lock
  <2>4. ASSUME NEW t \in Thread, PostTail(t) \/ GetNothing(t) \/ GetFound(t)
        PROVE guards'[Section(u)] = "inside"
    BY <2>4 DEF PostTail, GetNothing, GetFound, Lock!Unlock
  <2>5. ASSUME NEW t \in Thread, WaitBlock(t) \/ WaitAgain(t)
        PROVE guards'[Section(u)] = "inside"
    BY <2>5 DEF WaitBlock, WaitAgain, Lock!Call
  <2>6. ASSUME NEW g \in Guard, LockStep(g) PROVE guards'[Section(u)] = "inside"
    BY <2>6 DEF LockStep, Lock!Exchange, Lock!Spin, thread
  <2>7. QED
    BY <2>1, <2>2, <2>3, <2>4, <2>5, <2>6 DEF Next, Step
<1>7. (waitingForTake > 0 => SomeoneHung)'
  <2>1. CASE waitingForTake > 0
    BY <2>1, HangStep
  <2>2. CASE ~(waitingForTake > 0) /\ waitingForTake' > 0
    <3>1. PICK t \in Thread : WaitAgain(t)
      BY <2>2 DEF Next, Call, Step, PostNothing, Post, Wait, PostLink, PostTail,
         GetRead, GetNothing, GetFound, WaitBlock, LockStep, vars
    <3>2. Block(t) # Section(t) /\ Block(t) \in Guard
      BY <1>3, <1>4
    <3>3. pc'[t] = "get" /\ guards'[Block(t)] = "inside"
      BY <1>2, <3>1, <3>2 DEF WaitAgain, Lock!Call, Goto, QueueInv
    <3>4. QED
      BY <3>3 DEF SomeoneHung, Hung, Block
  <2>3. QED
    BY <2>1, <2>2 DEF QueueInv
<1>8. QED
  BY <1>1, <1>5, <1>6, <1>7 DEF QueueInv

(* For any number of threads, the sections of the queue are run by one      *)
(* guard at a time: post(), get() and the block of wait() under SpinGuard.  *)
THEOREM SectionsExclude == Spec => []MutualExclusion
<1>1. QueueInv => MutualExclusion
  BY LockFacts DEF QueueInv
<1>2. QED
  BY <1>1, InitQueueInv, StepQueueInv, PTL DEF Spec

(* For any number of threads, the first wait() that finds nothing and may   *)
(* wait ends the queue: get() asks for the lock its caller holds.           *)
THEOREM HangIsForGood == Spec => HangsForGood
<1>1. QueueInv /\ [Next]_vars =>
        [waitingForTake > 0 => SomeoneHung /\ SomeoneHung' /\ UNCHANGED <<head, tail>>]_vars
  BY HangStep DEF QueueInv
<1>2. QED
  BY <1>1, InitQueueInv, StepQueueInv, PTL DEF Spec, HangsForGood
-----------------------------------------------------------------------------
(* A set of naturals that is not empty has a least element.                 *)
LEMMA LeastNat ==
  ASSUME NEW N \in SUBSET Nat, N # {}
  PROVE  \E n \in N : \A m \in N : n <= m
<1>1. PICK n \in N : \A m \in N : <<m, n>> \notin OpToRel(<, Nat)
  BY NatLessThanWellFounded, WFMin, Zenon
<1>2. \A m \in N : ~(m < n)
  BY <1>1 DEF OpToRel
<1>3. QED
  BY <1>2

(* The k nodes q are the chain from h to the end of the list, and no other  *)
(* node has a next.                                                         *)
Chain(nxt, h, k, q) ==
  /\ k \in Nat \ {0} /\ q \in [1..k -> DOMAIN nxt] /\ q[1] = h
  /\ \A i, j \in 1..k : q[i] = q[j] => i = j
  /\ \A i \in 1..k - 1 : nxt[q[i]] = q[i + 1]
  /\ nxt[q[k]] = Null
  /\ \A x \in DOMAIN nxt : nxt[x] # Null => \E i \in 1..k : x = q[i]

(* The values behind the i-th node of the chain.                            *)
Behind(val, k, q, i) == [j \in 1..k - i |-> val[q[i + j]]]

(* The recursive function that Linked reads a list with.                    *)
Reads(nxt, val, f) ==
  f = [n \in DOMAIN nxt |-> IF nxt[n] = Null THEN <<>> ELSE <<val[nxt[n]]>> \o f[nxt[n]]]

(* They are a sequence.                                                      *)
LEMMA BehindSeq ==
  ASSUME NEW val, NEW k \in Nat, NEW q, NEW i \in 1..k
  PROVE  /\ Behind(val, k, q, i) \in Seq({val[q[j]] : j \in 1..k})
         /\ Len(Behind(val, k, q, i)) = k - i
<1> DEFINE V == {val[q[j]] : j \in 1..k}
<1>1. \A j \in 1..k - i : i + j \in 1..k
  OBVIOUS
<1>2. Behind(val, k, q, i) \in [1..k - i -> V]
  BY <1>1 DEF Behind
<1>3. k - i \in Nat
  OBVIOUS
<1>4. QED
  BY <1>2, <1>3

(* The values behind a node: that of the next one, and those behind it.      *)
LEMMA BehindNext ==
  ASSUME NEW val, NEW k \in Nat, NEW q, NEW i \in 1..k, i < k
  PROVE  Behind(val, k, q, i) = <<val[q[i + 1]]>> \o Behind(val, k, q, i + 1)
<1> DEFINE V == {val[q[j]] : j \in 1..k}
<1> DEFINE s == <<val[q[i + 1]]>>
<1> DEFINE t == Behind(val, k, q, i + 1)
<1> DEFINE r == Behind(val, k, q, i)
<1>1. i + 1 \in 1..k
  OBVIOUS
<1>2. s \in Seq(V) /\ Len(s) = 1 /\ s[1] = val[q[i + 1]]
  BY <1>1
<1>3. t \in Seq(V) /\ Len(t) = k - (i + 1)
  BY <1>1, BehindSeq
<1>4. r \in Seq(V) /\ Len(r) = k - i
  BY BehindSeq
<1>5. \A j \in 1..k - (i + 1) : t[j] = val[q[i + 1 + j]]
  BY DEF Behind
<1>6. \A j \in 1..k - i : r[j] = val[q[i + j]]
  BY DEF Behind
<1>7. /\ s \o t \in Seq(V) /\ Len(s \o t) = k - i
      /\ \A j \in 1..k - i : (s \o t)[j] = IF j <= 1 THEN s[j] ELSE t[j - 1]
  <2> HIDE DEF s, t, V
  <2>1. /\ s \o t \in Seq(V) /\ Len(s \o t) = Len(s) + Len(t)
        /\ \A j \in 1..Len(s) + Len(t) :
             (s \o t)[j] = IF j <= Len(s) THEN s[j] ELSE t[j - Len(s)]
    BY <1>2, <1>3, ConcatProperties
  <2>2. Len(s) + Len(t) = k - i
    BY <1>2, <1>3
  <2>3. QED
    BY <1>2, <2>1, <2>2
<1>8. \A j \in 1..k - i : (s \o t)[j] = r[j]
  <2> SUFFICES ASSUME NEW j \in 1..k - i PROVE (s \o t)[j] = r[j]
    OBVIOUS
  <2>1. CASE j = 1
    <3> HIDE DEF s, t, r
    <3>1. QED
      BY <2>1, <1>2, <1>7, <1>6
  <2>2. CASE j # 1
    <3>1. j - 1 \in 1..k - (i + 1) /\ i + 1 + (j - 1) = i + j
      BY <2>2
    <3>2. t[j - 1] = r[j]
      BY <3>1, <1>5, <1>6
    <3> HIDE DEF s, t, r
    <3>3. QED
      BY <2>2, <3>1, <3>2, <1>7
  <2>3. QED
    BY <2>1, <2>2
<1>9. QED
  <2> HIDE DEF s, t, r
  <2>1. r = s \o t
    BY <1>4, <1>7, <1>8, SeqEqual
  <2>2. QED
    BY <2>1 DEF r, s, t

(* A function that reads a chain exists, and reads the values on it.        *)
LEMMA ReadsSome ==
  ASSUME NEW nxt, NEW val, NEW h, NEW k, NEW q, Chain(nxt, h, k, q), Null \notin DOMAIN nxt
  PROVE  \E f : Reads(nxt, val, f)
<1> DEFINE at(x) == CHOOSE i \in 1..k : x = q[i]
<1> DEFINE f == [x \in DOMAIN nxt |-> IF \E i \in 1..k : x = q[i]
                                       THEN Behind(val, k, q, at(x)) ELSE <<>>]
<1>1. k \in Nat \ {0} /\ \A i \in 1..k : q[i] \in DOMAIN nxt
  BY DEF Chain
<1>2. ASSUME NEW i \in 1..k PROVE f[q[i]] = Behind(val, k, q, i)
  <2>1. \E j \in 1..k : q[i] = q[j]
    OBVIOUS
  <2>2. at(q[i]) \in 1..k /\ q[i] = q[at(q[i])]
    BY <2>1
  <2>3. at(q[i]) = i
    BY <2>2 DEF Chain
  <2>4. QED
    BY <1>1, <2>1, <2>3
<1>3. ASSUME NEW x \in DOMAIN nxt
      PROVE  f[x] = IF nxt[x] = Null THEN <<>> ELSE <<val[nxt[x]]>> \o f[nxt[x]]
  <2>1. CASE nxt[x] = Null
    <3>1. CASE \E i \in 1..k : x = q[i]
      <4>1. PICK i \in 1..k : x = q[i]
        BY <3>1
      <4>2. i = k
        <5>1. i # k => nxt[q[i]] = q[i + 1] /\ i + 1 \in 1..k
          BY <1>1 DEF Chain
        <5>2. QED
          BY <5>1, <4>1, <2>1, <1>1
      <4>3. f[x] = Behind(val, k, q, k)
        BY <1>2, <4>1, <4>2
      <4>4. Behind(val, k, q, k) = <<>>
        BY <1>1 DEF Behind
      <4>5. QED
        BY <2>1, <4>3, <4>4
    <3>2. QED
      BY <2>1, <3>1
  <2>2. CASE nxt[x] # Null
    <3>1. PICK i \in 1..k : x = q[i]
      BY <2>2 DEF Chain
    <3>2. i < k /\ i + 1 \in 1..k /\ nxt[x] = q[i + 1]
      BY <2>2, <3>1, <1>1 DEF Chain
    <3>3. f[x] = Behind(val, k, q, i) /\ f[nxt[x]] = Behind(val, k, q, i + 1)
      BY <1>2, <3>1, <3>2
    <3> HIDE DEF f
    <3>4. Behind(val, k, q, i) = <<val[q[i + 1]]>> \o Behind(val, k, q, i + 1)
      BY <1>1, <3>2, BehindNext
    <3>5. QED
      BY <2>2, <3>2, <3>3, <3>4
  <2>3. QED
    BY <2>1, <2>2
<1>4. f = [x \in DOMAIN nxt |-> f[x]]
  OBVIOUS
<1>5. Reads(nxt, val, f)
  <2> HIDE DEF f
  <2>1. QED
    BY <1>3, <1>4 DEF Reads
<1>6. QED
  BY <1>5

(* Read from its first node, a chain gives the values behind that.           *)
LEMMA ReadsChain ==
  ASSUME NEW nxt, NEW val, NEW h, NEW k, NEW q, Chain(nxt, h, k, q), Null \notin DOMAIN nxt,
         NEW f, Reads(nxt, val, f)
  PROVE  f[h] = Behind(val, k, q, 1)
<1>1. k \in Nat \ {0} /\ \A i \in 1..k : q[i] \in DOMAIN nxt
  BY DEF Chain
<1> DEFINE Bad == {d \in 0..k - 1 : f[q[k - d]] # Behind(val, k, q, k - d)}
<1>2. Bad = {}
  <2> SUFFICES ASSUME Bad # {} PROVE FALSE
    OBVIOUS
  <2>0. Bad \in SUBSET Nat
    BY <1>1
  <2>1. PICK d \in Bad : \A e \in Bad : d <= e
    <3> HIDE DEF Bad
    <3>1. QED
      BY <2>0, LeastNat
  <2>2. d \in 0..k - 1 /\ k - d \in 1..k
    BY <1>1
  <2>3. CASE d = 0
    <3>1. f[q[k]] = <<>>
      BY <1>1 DEF Chain, Reads
    <3>2. Behind(val, k, q, k) = <<>>
      BY <1>1 DEF Behind
    <3>3. k - 0 = k
      BY <1>1
    <3>4. QED
      BY <2>3, <3>1, <3>2, <3>3
  <2>4. CASE d # 0
    <3>1. d - 1 \in 0..k - 1 /\ d - 1 \notin Bad /\ k - (d - 1) = k - d + 1
      BY <1>1, <2>1, <2>2, <2>4
    <3>2. f[q[k - d + 1]] = Behind(val, k, q, k - d + 1)
      BY <3>1
    <3>0. k - d \in 1..k - 1 /\ k - d + 1 \in 1..k
      BY <1>1, <2>2, <2>4
    <3>3. nxt[q[k - d]] = q[k - d + 1] /\ q[k - d + 1] \in DOMAIN nxt
      <4> DEFINE i == k - d
      <4>1. i \in 1..k - 1
        BY <3>0
      <4> HIDE DEF i
      <4>2. nxt[q[i]] = q[i + 1]
        BY <4>1 DEF Chain
      <4>3. QED
        BY <1>1, <3>0, <4>2 DEF i
    <3>4. f[q[k - d]] = <<val[q[k - d + 1]]>> \o f[q[k - d + 1]]
      BY <1>1, <2>2, <3>3 DEF Reads
    <3>5. Behind(val, k, q, k - d) = <<val[q[k - d + 1]]>> \o Behind(val, k, q, k - d + 1)
      <4> DEFINE i == k - d
      <4>1. i \in 1..k /\ i < k /\ k \in Nat
        BY <1>1, <3>0
      <4> HIDE DEF i
      <4>2. Behind(val, k, q, i) = <<val[q[i + 1]]>> \o Behind(val, k, q, i + 1)
        BY <4>1, BehindNext
      <4>3. QED
        BY <4>2 DEF i
    <3>6. QED
      BY <3>2, <3>4, <3>5
  <2>5. QED
    BY <2>3, <2>4
<1>3. k - 1 \in 0..k - 1 /\ k - (k - 1) = 1
  BY <1>1
<1>4. f[q[1]] = Behind(val, k, q, 1)
  BY <1>2, <1>3
<1>5. QED
  BY <1>4 DEF Chain

(* A node that is not in the chain does not change it.                      *)
LEMMA ChainBeside ==
  ASSUME NEW nxt, NEW h, NEW k, NEW q, Chain(nxt, h, k, q), NEW n, n \notin DOMAIN nxt,
         NEW new, new = [x \in DOMAIN nxt \cup {n} |-> IF x = n THEN Null ELSE nxt[x]]
  PROVE  Chain(new, h, k, q)
<1>1. k \in Nat \ {0} /\ q \in [1..k -> DOMAIN nxt] /\ \A i \in 1..k : q[i] \in DOMAIN nxt
  BY DEF Chain
<1>2. DOMAIN new = DOMAIN nxt \cup {n} /\ new[n] = Null /\ \A x \in DOMAIN nxt : new[x] = nxt[x]
  OBVIOUS
<1>3. q \in [1..k -> DOMAIN new] /\ k \in 1..k
  BY <1>1, <1>2
<1>4. \A i \in 1..k - 1 : new[q[i]] = q[i + 1]
  <2>1. \A i \in 1..k - 1 : i \in 1..k
    BY <1>1
  <2>2. QED
    BY <1>1, <1>2, <2>1 DEF Chain
<1>5. QED
  BY <1>1, <1>2, <1>3, <1>4 DEF Chain

(* A node is linked behind the last one.                                    *)
LEMMA ChainGrows ==
  ASSUME NEW nxt, NEW h, NEW k, NEW q, Chain(nxt, h, k, q), Null \notin DOMAIN nxt,
         NEW n \in DOMAIN nxt, nxt[n] = Null, n # q[k],
         NEW new, DOMAIN new = DOMAIN nxt, new[q[k]] = n,
         \A x \in DOMAIN nxt : x # q[k] => new[x] = nxt[x]
  PROVE  Chain(new, h, k + 1, [i \in 1..k + 1 |-> IF i = k + 1 THEN n ELSE q[i]])
<1> DEFINE r == [i \in 1..k + 1 |-> IF i = k + 1 THEN n ELSE q[i]]
<1>1. k \in Nat \ {0} /\ \A i \in 1..k : q[i] \in DOMAIN nxt
  BY DEF Chain
<1>2. k \in 1..k /\ q[k] \in DOMAIN nxt /\ n # Null
  BY <1>1
<1>3. DOMAIN new = DOMAIN nxt /\ new[q[k]] = n /\ \A x \in DOMAIN nxt : x # q[k] => new[x] = nxt[x]
  OBVIOUS
<1>4. r[k + 1] = n /\ \A i \in 1..k : r[i] = q[i]
  BY <1>1
<1>5. \A i \in 1..k + 1 : i \in 1..k \/ i = k + 1
  BY <1>1
<1>6. k + 1 \in Nat \ {0} /\ r \in [1..k + 1 -> DOMAIN new] /\ r[1] = h
  BY <1>1, <1>3, <1>4, <1>5 DEF Chain
<1>7. \A i \in 1..k : q[i] # n
  <2> SUFFICES ASSUME NEW i \in 1..k, q[i] = n PROVE FALSE
    OBVIOUS
  <2>1. i # k
    BY <1>1
  <2>2. nxt[q[i]] = q[i + 1] /\ i + 1 \in 1..k
    BY <1>1, <2>1 DEF Chain
  <2>3. QED
    BY <1>1, <2>2
<1>8. ASSUME NEW i \in 1..k + 1, NEW j \in 1..k + 1, r[i] = r[j] PROVE i = j
  BY <1>4, <1>5, <1>7, <1>8 DEF Chain
<1>9. ASSUME NEW i \in 1..k PROVE new[r[i]] = r[i + 1]
  <2>1. CASE i = k
    BY <1>2, <1>3, <1>4, <2>1
  <2>2. CASE i # k
    <3>1. i \in 1..k - 1 /\ i + 1 \in 1..k
      BY <1>1, <2>2
    <3>2. nxt[q[i]] = q[i + 1] /\ q[i] # q[k]
      BY <1>2, <2>2, <3>1 DEF Chain
    <3>3. QED
      BY <1>1, <1>3, <1>4, <3>1, <3>2
  <2>3. QED
    BY <2>1, <2>2
<1>10. new[r[k + 1]] = Null
  BY <1>2, <1>3, <1>4
<1>11. ASSUME NEW x \in DOMAIN new, new[x] # Null PROVE \E i \in 1..k + 1 : x = r[i]
  <2>1. CASE x = q[k]
    BY <1>1, <1>2, <1>4, <2>1
  <2>2. CASE x # q[k]
    <3>1. PICK i \in 1..k : x = q[i]
      BY <1>3, <1>11, <2>2 DEF Chain
    <3>2. i \in 1..k + 1 /\ r[i] = x
      BY <1>1, <1>4, <3>1
    <3>3. QED
      BY <3>2
  <2>3. QED
    BY <2>1, <2>2
<1>12. k + 1 - 1 = k
  BY <1>1
<1>13. QED
  <2> HIDE DEF r
  <2>1. Chain(new, h, k + 1, r)
    BY <1>6, <1>8, <1>9, <1>10, <1>11, <1>12 DEF Chain
  <2>2. QED
    BY <2>1 DEF r

(* The first node goes, the second is the first.                            *)
LEMMA ChainShrinks ==
  ASSUME NEW nxt, NEW h, NEW k, NEW q, Chain(nxt, h, k, q), Null \notin DOMAIN nxt,
         nxt[h] # Null, NEW new, new = [x \in DOMAIN nxt \ {h} |-> nxt[x]]
  PROVE  k > 1 /\ Chain(new, nxt[h], k - 1, [i \in 1..k - 1 |-> q[i + 1]])
<1> DEFINE r == [i \in 1..k - 1 |-> q[i + 1]]
<1>1. k \in Nat \ {0} /\ q[1] = h /\ \A i \in 1..k : q[i] \in DOMAIN nxt
  BY DEF Chain
<1>2. k > 1
  BY <1>1 DEF Chain
<1>3. \A i \in 1..k - 1 : i + 1 \in 1..k /\ i \in 1..k /\ r[i] = q[i + 1]
  BY <1>1
<1>4. \A i \in 1..k - 1 : r[i] \in DOMAIN nxt \ {h}
  <2> SUFFICES ASSUME NEW i \in 1..k - 1 PROVE r[i] \in DOMAIN nxt /\ r[i] # q[1]
    BY <1>1
  <2>1. i + 1 # 1 /\ 1 \in 1..k
    BY <1>1
  <2>2. QED
    BY <1>1, <1>3, <2>1 DEF Chain
<1>5. DOMAIN new = DOMAIN nxt \ {h} /\ \A x \in DOMAIN new : new[x] = nxt[x]
  OBVIOUS
<1>6. k - 1 \in Nat \ {0} /\ r \in [1..k - 1 -> DOMAIN new]
  BY <1>1, <1>2, <1>4, <1>5
<1>7. r[1] = nxt[h]
  BY <1>1, <1>2 DEF Chain
<1>8. ASSUME NEW i \in 1..k - 1, NEW j \in 1..k - 1, r[i] = r[j] PROVE i = j
  <2>1. q[i + 1] = q[j + 1] /\ i + 1 \in 1..k /\ j + 1 \in 1..k
    BY <1>3, <1>8
  <2>2. i + 1 = j + 1
    BY <2>1 DEF Chain
  <2>3. QED
    BY <2>2
<1>9. ASSUME NEW i \in 1..(k - 1) - 1 PROVE new[r[i]] = r[i + 1]
  <2>1. i \in 1..k - 1 /\ i + 1 \in 1..k - 1
    BY <1>1
  <2>2. nxt[q[i + 1]] = q[i + 1 + 1]
    BY <2>1 DEF Chain
  <2>3. QED
    BY <1>3, <1>4, <1>5, <2>1, <2>2
<1>10. new[r[k - 1]] = Null
  <2>1. k - 1 \in 1..k - 1 /\ k - 1 + 1 = k
    BY <1>1, <1>2
  <2>2. r[k - 1] = q[k] /\ nxt[q[k]] = Null
    BY <1>3, <2>1 DEF Chain
  <2>3. QED
    BY <1>4, <1>5, <2>1, <2>2
<1>11. ASSUME NEW x \in DOMAIN new, new[x] # Null PROVE \E i \in 1..k - 1 : x = r[i]
  <2>1. nxt[x] # Null /\ x \in DOMAIN nxt /\ x # h
    BY <1>5, <1>11
  <2>2. PICK i \in 1..k : x = q[i]
    BY <2>1 DEF Chain
  <2>3. i # 1
    BY <1>1, <2>1, <2>2
  <2>4. i - 1 \in 1..k - 1 /\ i - 1 + 1 = i
    BY <1>1, <2>3
  <2>5. x = r[i - 1]
    BY <1>3, <2>2, <2>4
  <2>6. QED
    BY <2>4, <2>5
<1>12. QED
  <2> HIDE DEF r
  <2>1. Chain(new, nxt[h], k - 1, r)
    BY <1>6, <1>7, <1>8, <1>9, <1>10, <1>11 DEF Chain
  <2>2. QED
    BY <1>2, <2>1 DEF r

(* The values of a chain that has grown, and of one that has shrunk.        *)
LEMMA BehindGrows ==
  ASSUME NEW val, NEW k \in Nat \ {0}, NEW q, NEW n
  PROVE  Behind(val, k + 1, [i \in 1..k + 1 |-> IF i = k + 1 THEN n ELSE q[i]], 1)
           = Append(Behind(val, k, q, 1), val[n])
<1> DEFINE r == [i \in 1..k + 1 |-> IF i = k + 1 THEN n ELSE q[i]]
<1> DEFINE s == Behind(val, k, q, 1)
<1> DEFINE t == Behind(val, k + 1, r, 1)
<1> DEFINE V == {val[q[j]] : j \in 1..k} \cup {val[r[j]] : j \in 1..k + 1}
<1> DEFINE v == val[n]
<1>1. r[k + 1] = n /\ \A i \in 1..k : r[i] = q[i]
  OBVIOUS
<1>2. s \in Seq({val[q[j]] : j \in 1..k}) /\ Len(s) = k - 1
  <2>1. k \in Nat /\ 1 \in 1..k
    OBVIOUS
  <2>2. QED
    BY <2>1, BehindSeq
<1>3. t \in Seq({val[r[j]] : j \in 1..k + 1}) /\ Len(t) = k
  <2> HIDE DEF r
  <2>1. k + 1 \in Nat /\ 1 \in 1..k + 1 /\ k + 1 - 1 = k
    OBVIOUS
  <2>2. QED
    BY <2>1, BehindSeq
<1>4. s \in Seq(V) /\ t \in Seq(V) /\ v \in V
  <2>1. v \in V
    BY <1>1
  <2>2. {val[q[j]] : j \in 1..k} \subseteq V /\ {val[r[j]] : j \in 1..k + 1} \subseteq V
    OBVIOUS
  <2> HIDE DEF s, t, V, r
  <2>3. QED
    BY <1>2, <1>3, <2>1, <2>2, SeqMonotonic
<1>5. \A j \in 1..k - 1 : s[j] = val[q[1 + j]]
  BY DEF Behind
<1>6. \A j \in 1..k : t[j] = val[r[1 + j]]
  BY DEF Behind
<1>7. ASSUME NEW j \in 1..k PROVE t[j] = IF j = k THEN v ELSE s[j]
  BY <1>1, <1>5, <1>6
<1>8. QED
  <2> HIDE DEF s, t, V, r, v
  <2>1. /\ Append(s, v) \in Seq(V) /\ Len(Append(s, v)) = Len(s) + 1
        /\ \A j \in 1..Len(s) : Append(s, v)[j] = s[j]
        /\ Append(s, v)[Len(s) + 1] = v
    BY <1>4, AppendProperties
  <2>2. Len(s) + 1 = k
    BY <1>2
  <2>3. \A j \in 1..k : t[j] = Append(s, v)[j]
    BY <1>2, <1>7, <2>1, <2>2
  <2>4. t = Append(s, v)
    BY <1>3, <1>4, <2>1, <2>2, <2>3, SeqEqual
  <2>5. QED
    BY <2>4 DEF s, t, r, v

(* Without its first value.                                                  *)
LEMMA BehindShrinks ==
  ASSUME NEW val, NEW k \in Nat, k > 1, NEW q
  PROVE  /\ Behind(val, k, q, 1) # <<>>
         /\ Behind(val, k - 1, [i \in 1..k - 1 |-> q[i + 1]], 1) = Tail(Behind(val, k, q, 1))
<1> DEFINE r == [i \in 1..k - 1 |-> q[i + 1]]
<1> DEFINE s == Behind(val, k, q, 1)
<1> DEFINE t == Behind(val, k - 1, r, 1)
<1> DEFINE V == {val[q[j]] : j \in 1..k} \cup {val[r[j]] : j \in 1..k - 1}
<1>1. \A i \in 1..k - 1 : r[i] = q[i + 1]
  OBVIOUS
<1>2. s \in Seq({val[q[j]] : j \in 1..k}) /\ Len(s) = k - 1
  <2>1. k \in Nat /\ 1 \in 1..k
    OBVIOUS
  <2>2. QED
    BY <2>1, BehindSeq
<1>3. t \in Seq({val[r[j]] : j \in 1..k - 1}) /\ Len(t) = (k - 1) - 1
  <2> HIDE DEF r
  <2>1. k - 1 \in Nat /\ 1 \in 1..k - 1
    OBVIOUS
  <2>2. QED
    BY <2>1, BehindSeq
<1>4. s \in Seq(V) /\ t \in Seq(V)
  <2>2. {val[q[j]] : j \in 1..k} \subseteq V /\ {val[r[j]] : j \in 1..k - 1} \subseteq V
    OBVIOUS
  <2> HIDE DEF s, t, V, r
  <2>3. QED
    BY <1>2, <1>3, <2>2, SeqMonotonic
<1>5. \A j \in 1..k - 1 : s[j] = val[q[1 + j]]
  BY DEF Behind
<1>6. \A j \in 1..(k - 1) - 1 : t[j] = val[r[1 + j]]
  BY DEF Behind
<1>7. ASSUME NEW j \in 1..(k - 1) - 1 PROVE t[j] = s[j + 1]
  <2>1. j + 1 \in 1..k - 1 /\ 1 + j = j + 1
    OBVIOUS
  <2>2. QED
    BY <1>1, <1>5, <1>6, <2>1
<1>8. QED
  <2> HIDE DEF s, t, V, r
  <2>1. s # <<>>
    BY <1>2
  <2>2. /\ Tail(s) \in Seq(V) /\ Len(Tail(s)) = Len(s) - 1
        /\ \A j \in 1..Len(Tail(s)) : Tail(s)[j] = s[j + 1]
    BY <1>4, <2>1, HeadTailProperties
  <2>3. t = Tail(s)
    BY <1>2, <1>3, <1>4, <1>7, <2>2, SeqEqual
  <2>4. QED
    BY <2>1, <2>3 DEF s, t, r

(* The module's Linked are the values behind the head.                      *)
LEMMA LinkedIs ==
  ASSUME NEW k, NEW q, Chain(next, head, k, q), Null \notin Alive
  PROVE  Linked = Behind(value, k, q, 1)
<1> DEFINE f == CHOOSE f : Reads(next, value, f)
<1>1. Reads(next, value, f)
  BY ReadsSome DEF Alive
<1>2. Linked = f[head]
  BY DEF Linked, Reads, Alive
<1> HIDE DEF f
<1>3. QED
  BY <1>1, <1>2, ReadsChain DEF Alive

(* The same after a step.                                                    *)
LEMMA LinkedIsNext ==
  ASSUME NEW k, NEW q, Chain(next', head', k, q), Null \notin Alive'
  PROVE  Linked' = Behind(value', k, q, 1)
<1> DEFINE f == CHOOSE f : Reads(next', value', f)
<1>1. Reads(next', value', f)
  BY ReadsSome DEF Alive
<1>2. Linked' = f[head']
  BY DEF Linked, Reads, Alive
<1> HIDE DEF f
<1>3. QED
  BY <1>1, <1>2, ReadsChain DEF Alive

(* A list as it is made: one node.                                          *)
LEMMA ChainOne ==
  ASSUME NEW nxt, NEW n, nxt = [x \in {n} |-> Null]
  PROVE  Chain(nxt, n, 1, [i \in 1..1 |-> n])
<1> DEFINE q == [i \in 1..1 |-> n]
<1>1. 1 \in Nat \ {0} /\ q \in [1..1 -> DOMAIN nxt] /\ q[1] = n
  OBVIOUS
<1>2. \A i, j \in 1..1 : q[i] = q[j] => i = j
  OBVIOUS
<1>3. \A i \in 1..1 - 1 : nxt[q[i]] = q[i + 1]
  OBVIOUS
<1>4. nxt[q[1]] = Null /\ \A x \in DOMAIN nxt : nxt[x] = Null
  OBVIOUS
<1>5. QED
  BY <1>1, <1>2, <1>3, <1>4 DEF Chain

(* The list of MsgQ is a chain of nodes. A node that post() has filled      *)
(* waits beside it for the lock, one for each thread; the tail is the last  *)
(* node, or will be when the section that linked it ends; and a get() in    *)
(* its section knows the second node.                                       *)
Beside(k, q) == \A t \in Thread : pc[t] = "link" =>
  local[t] \in Alive /\ value[local[t]] \in Msg /\ \A i \in 1..k : q[i] # local[t]
Last(k, q) ==
  /\ \A t \in Thread : pc[t] = "tail" => local[t] = q[k]
  /\ (\A t \in Thread : pc[t] # "tail") => tail = q[k]
OneEach == \A t, u \in Thread : pc[t] = "link" /\ pc[u] = "link" /\ local[t] = local[u] => t = u
SecondKnown == \A t \in Thread : pc[t] = "got" => local[t] = next[head]
Nodes == Alive \subseteq Node /\ local \in [Thread -> Node \cup {Null}]
         /\ next \in [Alive -> Node \cup {Null}]
ChainInv ==
  /\ QueueInv /\ Nodes /\ OneEach /\ SecondKnown
  /\ \E k, q : Chain(next, head, k, q) /\ Beside(k, q) /\ Last(k, q)

NullIsNoNode == Null \notin Alive

(* The null pointer is no node.                                              *)
LEMMA NoNullNode == Nodes => NullIsNoNode
  BY NullAssumption DEF Nodes, NullIsNoNode

(* The sections of two threads.                                             *)
LEMMA OneInSection ==
  ASSUME QueueInv, NEW t \in Thread, guards[Section(t)] = "inside",
         NEW u \in Thread, pc[u] \in {"tail", "got"}
  PROVE  u = t
<1>1. guards[Section(u)] = "inside"
  BY DEF QueueInv, InSection
<1>2. Section(t) \in Guard /\ Section(u) \in Guard
  BY DEF Section, Guard
<1>3. MutualExclusion
  BY LockFacts DEF QueueInv
<1>4. Section(t) = Section(u)
  BY <1>1, <1>2, <1>3 DEF MutualExclusion, Lock!MutualExclusion
<1>5. QED
  BY <1>4 DEF Section

(* The empty list.                                                         *)
LEMMA InitChain == Init => ChainInv /\ Linked = <<>>
<1> SUFFICES ASSUME Init PROVE ChainInv /\ Linked = <<>>
  OBVIOUS
<1>1. PICK n \in Lowest(Node) : next = [x \in {n} |-> Null] /\ head = n /\ tail = n
  BY DEF Init
<1>2. n \in Node
  BY DEF Lowest
<1>3. \A t \in Thread : pc[t] = "idle"
  BY DEF Init
<1>4. Nodes
  BY <1>1, <1>2 DEF Nodes, Alive, Init
<1> DEFINE q == [i \in 1..1 |-> n]
<1>5. Chain(next, head, 1, q)
  BY <1>1, ChainOne
<1>6. Beside(1, q) /\ Last(1, q) /\ OneEach /\ SecondKnown
  BY <1>1, <1>3 DEF Beside, Last, OneEach, SecondKnown
<1>7. Linked = Behind(value, 1, q, 1)
  <2> HIDE DEF q
  <2>1. QED
    BY <1>4, <1>5, NoNullNode, LinkedIs DEF NullIsNoNode
<1>8. Behind(value, 1, q, 1) = <<>>
  BY DEF Behind
<1>9. QED
  BY <1>4, <1>5, <1>6, <1>7, <1>8, InitQueueInv DEF ChainInv

(* The node a post() has filled is not in the list yet.                     *)
LEMMA PostChain ==
  ASSUME ChainInv, QueueInv', NEW t \in Thread, NEW m \in Msg, Post(t, m)
  PROVE  ChainInv' /\ Linked' = Linked
<1>1. PICK n \in Node \ Alive :
        /\ next' = [x \in Alive \cup {n} |-> IF x = n THEN Null ELSE next[x]]
        /\ value' = [x \in Alive \cup {n} |-> IF x = n THEN m ELSE value[x]]
        /\ local' = [local EXCEPT ![t] = n]
  BY DEF Post, Lowest
<1>2. pc' = [pc EXCEPT ![t] = "link"] /\ head' = head /\ tail' = tail /\ pc[t] = "idle"
  BY DEF Post, Goto
<1>3. PICK k, q : Chain(next, head, k, q) /\ Beside(k, q) /\ Last(k, q)
  BY DEF ChainInv
<1>4. /\ pc'[t] = "link" /\ local'[t] = n
      /\ \A u \in Thread : u # t => pc'[u] = pc[u] /\ local'[u] = local[u]
  BY <1>1, <1>2 DEF ChainInv, QueueInv, Nodes
<1>5. Alive' = Alive \cup {n} /\ value'[n] = m /\ n \notin Alive
      /\ \A x \in Alive : value'[x] = value[x] /\ next'[x] = next[x]
  BY <1>1 DEF Alive
<1>6. Nodes'
  BY <1>1, <1>5 DEF ChainInv, Nodes
<1>7. k \in Nat \ {0} /\ \A i \in 1..k : q[i] \in Alive
  BY <1>3 DEF Chain, Alive
<1>8. Chain(next', head', k, q)
  BY <1>1, <1>2, <1>3, ChainBeside DEF Alive
<1>9. OneEach'
  BY <1>3, <1>4, <1>5 DEF ChainInv, OneEach, Beside
<1>10. Beside(k, q)'
  <2> SUFFICES ASSUME NEW u \in Thread, pc'[u] = "link"
               PROVE  /\ local'[u] \in Alive' /\ value'[local'[u]] \in Msg
                      /\ \A i \in 1..k : q[i] # local'[u]
    BY DEF Beside
  <2>1. CASE u = t
    BY <1>4, <1>5, <1>7, <2>1
  <2>2. CASE u # t
    BY <1>3, <1>4, <1>5, <2>2 DEF Beside
  <2>3. QED
    BY <2>1, <2>2
<1>11. Last(k, q)'
  BY <1>2, <1>3, <1>4 DEF Last
<1>12. SecondKnown'
  <2>1. head \in Alive
    BY <1>3, <1>7 DEF Chain
  <2>2. QED
    BY <1>2, <1>4, <1>5, <2>1 DEF ChainInv, SecondKnown
<1>13. Linked = Behind(value, k, q, 1) /\ Linked' = Behind(value', k, q, 1)
  <2>1. NullIsNoNode /\ NullIsNoNode'
    BY <1>6, NoNullNode, NullAssumption DEF ChainInv, Nodes, NullIsNoNode
  <2>2. QED
    BY <1>3, <1>8, <2>1, LinkedIs, LinkedIsNext DEF NullIsNoNode
<1>14. Behind(value', k, q, 1) = Behind(value, k, q, 1)
  <2>1. \A j \in 1..k - 1 : 1 + j \in 1..k
    BY <1>7
  <2>2. QED
    BY <1>5, <1>7, <2>1 DEF Behind
<1>15. QED
  BY <1>6, <1>8, <1>9, <1>10, <1>11, <1>12, <1>13, <1>14 DEF ChainInv

(* A post() takes effect when its node is linked.                           *)
LEMMA PostLinkChain ==
  ASSUME ChainInv, QueueInv', NEW t \in Thread, PostLink(t)
  PROVE  ChainInv' /\ \E m \in Msg : Linked' = Append(Linked, m)
<1>0. PICK n : n = local[t]
  OBVIOUS
<1>1. /\ pc[t] = "link" /\ guards[Section(t)] = "inside" /\ next' = [next EXCEPT ![tail] = n]
      /\ pc' = [pc EXCEPT ![t] = "tail"]
      /\ UNCHANGED <<head, tail, value, local>>
  BY <1>0 DEF PostLink, Goto
<1>2. PICK k, q : Chain(next, head, k, q) /\ Beside(k, q) /\ Last(k, q)
  BY DEF ChainInv
<1>3. pc'[t] = "tail" /\ \A u \in Thread : u # t => pc'[u] = pc[u]
  BY <1>1 DEF ChainInv, QueueInv
<1>4. \A u \in Thread : pc[u] \notin {"tail", "got"}
  BY <1>1, OneInSection DEF ChainInv
<1>5. tail = q[k]
  BY <1>2, <1>4 DEF Last
<1>6. k \in Nat \ {0} /\ q[1] = head /\ \A i \in 1..k : q[i] \in Alive
  BY <1>2 DEF Chain, Alive
<1>7. n \in Alive /\ value[n] \in Msg /\ \A i \in 1..k : q[i] # n
  BY <1>0, <1>1, <1>2 DEF Beside
<1>8. next[n] = Null
  BY <1>2, <1>7 DEF Chain, Alive
<1>9. NullIsNoNode
  BY NoNullNode DEF ChainInv
<1>10. /\ Alive' = Alive /\ next'[q[k]] = n
       /\ \A x \in Alive : x # q[k] => next'[x] = next[x]
  BY <1>1, <1>5, <1>6 DEF ChainInv, Nodes, Alive
<1> DEFINE r == [i \in 1..k + 1 |-> IF i = k + 1 THEN n ELSE q[i]]
<1>11. Chain(next', head', k + 1, r)
  <2>1. /\ Null \notin DOMAIN next /\ n \in DOMAIN next /\ n # q[k]
    BY <1>6, <1>7, <1>9 DEF Alive, NullIsNoNode
  <2>2. /\ DOMAIN next' = DOMAIN next /\ next'[q[k]] = n
        /\ \A x \in DOMAIN next : x # q[k] => next'[x] = next[x]
    BY <1>10 DEF Alive
  <2>3. Chain(next', head, k + 1, r)
    BY <1>2, <1>8, <2>1, <2>2, ChainGrows
  <2>4. QED
    BY <1>1, <2>3
<1>12. Nodes'
  BY <1>1, <1>7, <1>10 DEF ChainInv, Nodes
<1>13. r[k + 1] = n /\ \A i \in 1..k + 1 : r[i] = n \/ (i \in 1..k /\ r[i] = q[i])
  <2>1. \A i \in 1..k + 1 : r[i] = IF i = k + 1 THEN n ELSE q[i]
    OBVIOUS
  <2>2. k + 1 \in 1..k + 1 /\ \A i \in 1..k + 1 : i = k + 1 \/ i \in 1..k
    BY <1>6
  <2> HIDE DEF r
  <2>3. QED
    BY <2>1, <2>2
<1>14. k + 1 \in 1..k + 1
  BY <1>6
<1> HIDE DEF r
<1>15. Beside(k + 1, r)'
  <2> SUFFICES ASSUME NEW u \in Thread, pc'[u] = "link"
               PROVE  /\ local'[u] \in Alive' /\ value'[local'[u]] \in Msg
                      /\ \A i \in 1..k + 1 : r[i] # local'[u]
    BY DEF Beside
  <2>1. u # t /\ pc[u] = "link" /\ local'[u] = local[u]
    BY <1>1, <1>3
  <2>2. local[u] # n
    BY <1>0, <1>1, <2>1 DEF ChainInv, OneEach
  <2>3. QED
    BY <1>1, <1>2, <1>10, <1>13, <2>1, <2>2 DEF Beside
<1>16. Last(k + 1, r)'
  BY <1>0, <1>1, <1>3, <1>4, <1>13 DEF Last
<1>17. OneEach' /\ SecondKnown'
  BY <1>1, <1>3, <1>4 DEF ChainInv, OneEach, SecondKnown
<1>18. Linked = Behind(value, k, q, 1) /\ Linked' = Behind(value', k + 1, r, 1)
  <2>1. NullIsNoNode'
    BY <1>9, <1>10 DEF NullIsNoNode
  <2>2. QED
    BY <1>2, <1>9, <1>11, <2>1, LinkedIs, LinkedIsNext DEF NullIsNoNode
<1>19. Behind(value, k + 1, r, 1) = Append(Behind(value, k, q, 1), value[n])
  BY <1>6, BehindGrows DEF r
<1>20. QED
  BY <1>1, <1>7, <1>11, <1>12, <1>15, <1>16, <1>17, <1>18, <1>19 DEF ChainInv

(* A wait() takes effect when the head moves.                               *)
LEMMA GetFoundChain ==
  ASSUME ChainInv, QueueInv', NEW t \in Thread, GetFound(t)
  PROVE  ChainInv' /\ Linked # <<>> /\ Linked' = Tail(Linked)
<1>1. /\ pc[t] = "got" /\ local[t] # Null /\ head' = local[t] /\ tail' = tail
      /\ next' = [x \in Alive \ {head} |-> next[x]]
      /\ value' = [x \in Alive \ {head} |-> IF shared /\ x = local[t] THEN Null ELSE value[x]]
      /\ pc' = [pc EXCEPT ![t] = "idle"] /\ local' = [local EXCEPT ![t] = Null]
  BY DEF GetFound, Goto
<1>2. PICK k, q : Chain(next, head, k, q) /\ Beside(k, q) /\ Last(k, q)
  BY DEF ChainInv
<1>3. local[t] = next[head]
  BY <1>1 DEF ChainInv, SecondKnown
<1>4. /\ pc'[t] = "idle"
      /\ \A u \in Thread : u # t => pc'[u] = pc[u] /\ local'[u] = local[u]
  BY <1>1 DEF ChainInv, QueueInv, Nodes
<1>5. \A u \in Thread : u # t => pc[u] \notin {"tail", "got"}
  BY <1>1, OneInSection DEF ChainInv, QueueInv, InSection
<1>6. NullIsNoNode /\ k \in Nat \ {0} /\ q[1] = head /\ \A i \in 1..k : q[i] \in Alive
  BY <1>2, NoNullNode DEF Chain, Alive, ChainInv
<1> DEFINE r == [i \in 1..k - 1 |-> q[i + 1]]
<1>7. k > 1 /\ Chain(next', head', k - 1, r)
  BY <1>1, <1>2, <1>3, <1>6, ChainShrinks DEF Alive, NullIsNoNode
<1>8. /\ Alive' = Alive \ {head} /\ \A x \in Alive' : next'[x] = next[x]
      /\ \A x \in Alive' : x # head' => value'[x] = value[x]
  BY <1>1 DEF Alive
<1>9. Nodes'
  <2>1. local' \in [Thread -> Node \cup {Null}]
    BY <1>1 DEF ChainInv, Nodes
  <2>2. next' \in [Alive' -> Node \cup {Null}]
    BY <1>1, <1>8 DEF ChainInv, Nodes
  <2>3. QED
    BY <1>8, <2>1, <2>2 DEF ChainInv, Nodes
<1>10. /\ k - 1 \in 1..k - 1 /\ r[k - 1] = q[k]
       /\ \A i \in 1..k - 1 : i + 1 \in 1..k /\ r[i] = q[i + 1]
  BY <1>6, <1>7
<1> HIDE DEF r
<1>11. Beside(k - 1, r)'
  <2> SUFFICES ASSUME NEW u \in Thread, pc'[u] = "link"
               PROVE  /\ local'[u] \in Alive' /\ value'[local'[u]] \in Msg
                      /\ \A i \in 1..k - 1 : r[i] # local'[u]
    BY DEF Beside
  <2>1. u # t /\ pc[u] = "link" /\ local'[u] = local[u]
    BY <1>4
  <2>2. local[u] \in Alive /\ value[local[u]] \in Msg /\ \A i \in 1..k : q[i] # local[u]
    BY <1>2, <2>1 DEF Beside
  <2>3. q[1] # local[u] /\ q[2] # local[u] /\ q[2] = head'
    BY <1>1, <1>2, <1>3, <1>6, <1>7, <2>2 DEF Chain
  <2>4. local[u] \in Alive' /\ local[u] # head'
    BY <1>6, <1>8, <2>2, <2>3
  <2>5. QED
    BY <1>8, <1>10, <2>1, <2>2, <2>4
<1>12. Last(k - 1, r)'
  <2>1. \A u \in Thread : pc'[u] # "tail"
    BY <1>4, <1>5
  <2>2. tail = q[k]
    BY <1>1, <1>2, <1>5 DEF Last
  <2>3. QED
    BY <1>1, <1>10, <2>1, <2>2 DEF Last
<1>13. OneEach' /\ SecondKnown'
  BY <1>4, <1>5 DEF ChainInv, OneEach, SecondKnown
<1>14. Linked = Behind(value, k, q, 1) /\ Linked' = Behind(value', k - 1, r, 1)
  <2>1. NullIsNoNode'
    BY <1>6, <1>8 DEF NullIsNoNode
  <2>2. QED
    BY <1>2, <1>6, <1>7, <2>1, LinkedIs, LinkedIsNext DEF NullIsNoNode
<1>15. Behind(value', k - 1, r, 1) = Behind(value, k - 1, r, 1)
  <2>1. ASSUME NEW j \in 1..(k - 1) - 1 PROVE value'[r[1 + j]] = value[r[1 + j]]
    <3>1. 1 + j \in 1..k - 1 /\ 1 \in 1..k - 1 /\ 1 + j # 1
      BY <1>6
    <3>2. r[1 + j] # r[1] /\ r[1] = head' /\ r[1 + j] \in Alive'
      BY <1>7, <3>1 DEF Chain, Alive
    <3>3. QED
      BY <1>8, <3>2
  <2>2. QED
    BY <2>1 DEF Behind
<1>16. Behind(value, k, q, 1) # <<>> /\ Behind(value, k - 1, r, 1) = Tail(Behind(value, k, q, 1))
  BY <1>6, <1>7, BehindShrinks DEF r
<1>17. QED
  BY <1>7, <1>9, <1>11, <1>12, <1>13, <1>14, <1>15, <1>16 DEF ChainInv

(* The section of a post() ends: the tail is the last node again.           *)
LEMMA PostTailChain ==
  ASSUME ChainInv, QueueInv', NEW t \in Thread, PostTail(t)
  PROVE  ChainInv' /\ Linked' = Linked
<1>1. /\ pc[t] = "tail" /\ tail' = local[t] /\ local' = [local EXCEPT ![t] = Null]
      /\ pc' = [pc EXCEPT ![t] = "idle"] /\ UNCHANGED <<next, value, head>>
  BY DEF PostTail, Goto
<1>2. PICK k, q : Chain(next, head, k, q) /\ Beside(k, q) /\ Last(k, q)
  BY DEF ChainInv
<1>3. /\ pc'[t] = "idle"
      /\ \A u \in Thread : u # t => pc'[u] = pc[u] /\ local'[u] = local[u]
  BY <1>1 DEF ChainInv, QueueInv, Nodes
<1>4. \A u \in Thread : u # t => pc[u] # "tail"
  BY <1>1, OneInSection DEF ChainInv, QueueInv, InSection
<1>5. Alive' = Alive /\ Linked' = Linked
  BY <1>1 DEF Alive, Linked
<1>6. Nodes' /\ OneEach' /\ SecondKnown'
  BY <1>1, <1>3, <1>5 DEF ChainInv, Nodes, OneEach, SecondKnown
<1>7. Beside(k, q)' /\ Last(k, q)'
  BY <1>1, <1>2, <1>3, <1>4, <1>5 DEF Beside, Last
<1>8. Chain(next', head', k, q)
  BY <1>1, <1>2
<1>9. QED
  BY <1>5, <1>6, <1>7, <1>8 DEF ChainInv

(* The read of get(): what it knows of the second node stays true in the    *)
(* section.                                                                 *)
LEMMA GetReadChain ==
  ASSUME ChainInv, QueueInv', NEW t \in Thread, GetRead(t)
  PROVE  ChainInv' /\ Linked' = Linked
<1>1. /\ pc[t] = "get" /\ local' = [local EXCEPT ![t] = next[head]]
      /\ pc' = [pc EXCEPT ![t] = "got"] /\ UNCHANGED <<next, value, head, tail>>
  BY DEF GetRead, Goto, list
<1>2. PICK k, q : Chain(next, head, k, q) /\ Beside(k, q) /\ Last(k, q)
  BY DEF ChainInv
<1>3. /\ pc'[t] = "got" /\ local'[t] = next[head]
      /\ \A u \in Thread : u # t => pc'[u] = pc[u] /\ local'[u] = local[u]
  BY <1>1 DEF ChainInv, QueueInv, Nodes
<1>4. Alive' = Alive /\ Linked' = Linked
  BY <1>1 DEF Alive, Linked
<1>5. next[head] \in Node \cup {Null}
  <2>1. head \in Alive
    BY <1>2 DEF Chain, Alive
  <2>2. QED
    BY <2>1 DEF ChainInv, Nodes
<1>6. Nodes' /\ OneEach' /\ SecondKnown'
  BY <1>1, <1>3, <1>4, <1>5 DEF ChainInv, Nodes, OneEach, SecondKnown
<1>7. Beside(k, q)' /\ Last(k, q)'
  BY <1>1, <1>2, <1>3, <1>4 DEF Beside, Last
<1>8. Chain(next', head', k, q)
  BY <1>1, <1>2
<1>9. QED
  BY <1>4, <1>6, <1>7, <1>8 DEF ChainInv

(* The other steps change neither the list nor what a thread has of it.     *)
SameChain ==
  /\ UNCHANGED <<list, local>>
  /\ \A t \in Thread : \/ pc'[t] = pc[t]
                       \/ pc[t] \notin {"link", "tail"} /\ pc'[t] \notin {"link", "tail", "got"}

(* They leave the queue.                                                     *)
LEMMA SameChainInv ==
  ASSUME ChainInv, QueueInv', SameChain PROVE ChainInv' /\ Linked' = Linked
<1>1. Alive' = Alive /\ Linked' = Linked
  BY DEF Alive, Linked, SameChain, list
<1>2. PICK k, q : Chain(next, head, k, q) /\ Beside(k, q) /\ Last(k, q)
  BY DEF ChainInv
<1>3. \A t \in Thread : /\ pc'[t] = "link" <=> pc[t] = "link"
                        /\ pc'[t] = "tail" <=> pc[t] = "tail"
                        /\ pc'[t] = "got" => pc[t] = "got"
  BY DEF SameChain
<1>4. Beside(k, q)' /\ Last(k, q)'
  BY <1>1, <1>2, <1>3 DEF Beside, Last, SameChain, list
<1>5. Nodes' /\ OneEach' /\ SecondKnown'
  BY <1>1, <1>3 DEF ChainInv, Nodes, OneEach, SecondKnown, SameChain, list
<1>6. Chain(next', head', k, q)
  BY <1>2 DEF SameChain, list
<1>7. QED
  BY <1>1, <1>4, <1>5, <1>6 DEF ChainInv

(* Which these are.                                                          *)
LEMMA OthersSameChain ==
  ASSUME ChainInv, NEW t \in Thread,
         \/ PostNothing(t) \/ \E w \in BOOLEAN : Wait(t, w)
         \/ GetNothing(t) \/ WaitBlock(t) \/ WaitAgain(t)
         \/ LockStep(Section(t)) \/ LockStep(Block(t))
  PROVE  SameChain
<1>1. /\ UNCHANGED <<list, local>>
      /\ \/ pc' = pc
         \/ /\ pc[t] \in {"idle", "got", "again", "block"}
            /\ \E s \in {"get", "again", "idle", "block"} : pc' = [pc EXCEPT ![t] = s]
  BY DEF PostNothing, Wait, GetNothing, WaitBlock, WaitAgain, LockStep, Goto, vars, thread
<1>2. QED
  BY <1>1 DEF SameChain, ChainInv, QueueInv

(* Every step leaves the messages, adds one at the end or takes the first.   *)
LEMMA StepChain ==
  ChainInv /\ [Next]_vars =>
    ChainInv' /\ \/ Linked' = Linked
                 \/ \E m \in Msg : Linked' = Append(Linked, m)
                 \/ Linked # <<>> /\ Linked' = Tail(Linked)
<1> SUFFICES ASSUME ChainInv, [Next]_vars
             PROVE  ChainInv' /\ \/ Linked' = Linked
                                 \/ \E m \in Msg : Linked' = Append(Linked, m)
                                 \/ Linked # <<>> /\ Linked' = Tail(Linked)
  OBVIOUS
<1>1. QueueInv'
  BY StepQueueInv DEF ChainInv
<1>2. CASE UNCHANGED vars
  <2>1. SameChain
    BY <1>2 DEF vars, list, thread, SameChain
  <2>2. QED
    BY <1>1, <2>1, SameChainInv
<1>3. ASSUME NEW t \in Thread, Call(t) PROVE ChainInv' /\ Linked' = Linked
  <2>1. CASE \E m \in Msg : Post(t, m)
    BY <1>1, <2>1, PostChain
  <2>2. CASE PostNothing(t) \/ \E w \in BOOLEAN : Wait(t, w)
    <3>1. SameChain
      BY <2>2, OthersSameChain
    <3>2. QED
      BY <1>1, <3>1, SameChainInv
  <2>3. QED
    BY <1>3, <2>1, <2>2 DEF Call
<1>4. ASSUME NEW t \in Thread, PostLink(t)
      PROVE  ChainInv' /\ \E m \in Msg : Linked' = Append(Linked, m)
  BY <1>1, <1>4, PostLinkChain
<1>5. ASSUME NEW t \in Thread, GetFound(t)
      PROVE  ChainInv' /\ Linked # <<>> /\ Linked' = Tail(Linked)
  BY <1>1, <1>5, GetFoundChain
<1>6. ASSUME NEW t \in Thread, Step(t), ~PostLink(t), ~GetFound(t)
      PROVE  ChainInv' /\ Linked' = Linked
  <2>1. CASE PostTail(t)
    BY <1>1, <2>1, PostTailChain
  <2>2. CASE GetRead(t)
    BY <1>1, <2>2, GetReadChain
  <2>3. CASE GetNothing(t) \/ WaitBlock(t) \/ WaitAgain(t) \/ LockStep(Section(t)) \/ LockStep(Block(t))
    <3>1. SameChain
      BY <2>3, OthersSameChain
    <3>2. QED
      BY <1>1, <3>1, SameChainInv
  <2>4. QED
    BY <1>6, <2>1, <2>2, <2>3 DEF Step
<1>7. QED
  BY <1>2, <1>3, <1>4, <1>5, <1>6 DEF Next

(* For any threads, messages and nodes, and until a waiter hangs as well as *)
(* after that: what is posted to MsgQ is taken in that order, each once     *)
(* (MsgQ.h).                                                                *)
THEOREM MsgQIsFifo == Spec => ImplementsFifo
<1>1. Init => ChainInv /\ Fifo!Init
  BY InitChain DEF Fifo!Init
<1>2. ChainInv /\ [Next]_vars => ChainInv' /\ [Fifo!Next]_Linked
  BY StepChain DEF Fifo!Next, Fifo!Put, Fifo!Take
<1>3. QED
  BY <1>1, <1>2, PTL DEF Spec, ImplementsFifo, Fifo!Spec
-----------------------------------------------------------------------------
(* The producer before its node is linked.                                  *)
Unlinked == {"read", "store", "swap", "linkLast"}

(* Where the only producer p is: what it has read is still so, since nobody *)
(* else writes the tail and its _next, and so it never has to help.         *)
ProducerInv(p) ==
  /\ lPc[p] \in {"idle", "swing", "count"} \cup Unlinked
  /\ lPc[p] # "idle" => made > 0 /\ node[p] = made
  /\ lTail = IF lPc[p] \in Unlinked \cup {"swing"} THEN made - 1 ELSE made
  /\ lPc[p] \in {"store", "swap", "linkLast", "swing"} => tmp[p] = made - 1
  /\ lPc[p] = "swap" => tmpAtomic = NoNode
  /\ lPc[p] = "linkLast" => tmpAtomic = made
  /\ emptyNode = NoNode

(* How much p has linked. *)
Length(p) == IF lPc[p] \in Unlinked THEN made - 1 ELSE made

(* The list is the messages in order; a consumer has read a head that may   *)
(* be old and, before it moves the head, has seen that node's _next.        *)
ListInv(p) ==
  /\ lNext = [n \in Lockless!Nodes |-> IF n < Length(p) THEN n + 1 ELSE NoNode]
  /\ lHead \in 0..Length(p)
  /\ taken = [i \in 1..lHead |-> i]
ConsumerInv(p) ==
  \A c \in Consumer :
    /\ lPc[c] \in {"loop", "head", "test", "move", "count", "ended"}
    /\ lPc[c] \in {"test", "move"} => tmp[c] \in 0..lHead
    /\ lPc[c] = "move" => tmp[c] < Length(p)

Alone(p) ==
  /\ active = {p}
  /\ \A q \in Producer \ {p} : lPc[q] = "idle"
  /\ ProducerInv(p) /\ ListInv(p) /\ ConsumerInv(p)

Domains ==
  /\ made \in Lockless!Nodes
  /\ DOMAIN lPc = Lockless!Actor /\ DOMAIN tmp = Lockless!Actor /\ DOMAIN node = Lockless!Actor

OneProducerInv == Domains /\ \A p \in Producer : active = {p} => Alone(p)

LEMMA InitOneProducer == Lockless!Init => OneProducerInv
<1> SUFFICES ASSUME Lockless!Init PROVE OneProducerInv
  OBVIOUS
<1>1. Domains
  BY MaxMsgAssumption DEF Lockless!Init, Domains, Lockless!Nodes
<1>2. ASSUME NEW p \in Producer, active = {p} PROVE Alone(p)
  BY <1>2, MaxMsgAssumption, DisjointAssumption
  DEF Lockless!Init, Alone, ProducerInv, ListInv, ConsumerInv, Length, Unlinked,
      Lockless!Sentinel, Lockless!Nodes, Lockless!Actor
<1>3. QED
  BY <1>1, <1>2 DEF OneProducerInv

LEMMA StepDomains == Domains /\ [Lockless!Next]_(Lockless!vars) => Domains'
<1> SUFFICES ASSUME Domains, [Lockless!Next]_(Lockless!vars) PROVE Domains'
  OBVIOUS
<1> USE MaxMsgAssumption DEF Domains, Lockless!Nodes, Lockless!Goto
<1>1. CASE UNCHANGED Lockless!vars
  BY <1>1 DEF Lockless!vars, Lockless!thread
<1>2. ASSUME NEW p \in Producer, Lockless!Produce(p) PROVE Domains'
  <2>1. CASE Lockless!Enqueue(p)
    BY <2>1 DEF Lockless!Enqueue, Lockless!OneProducer
  <2>2. QED
    BY <1>2, <2>1 DEF Lockless!Produce, Lockless!ReadTail, Lockless!StoreNext,
       Lockless!Swap, Lockless!Link, Lockless!Help, Lockless!Swing, Lockless!CountUp
<1>3. ASSUME NEW c \in Consumer, Lockless!Consume(c) PROVE Domains'
  BY <1>3 DEF Lockless!Consume, Lockless!Loop, Lockless!ReadHead, Lockless!TestNext,
     Lockless!MoveHead, Lockless!CountDown
<1>4. CASE Lockless!Stop
  BY <1>4 DEF Lockless!Stop, Lockless!thread
<1>5. QED
  BY <1>1, <1>2, <1>3, <1>4 DEF Lockless!Next

(* The step that makes the new node reachable. *)
LEMMA LinkKeepsAlone ==
  ASSUME Domains, NEW p \in Producer, Alone(p), Lockless!Link(p)
  PROVE  Alone(p)'
<1>1. /\ lPc[p] = "linkLast" /\ tmp[p] = made - 1 /\ tmpAtomic = made
      /\ made \in 1..MaxMsg /\ node[p] = made /\ lTail = made - 1 /\ emptyNode = NoNode
  BY MaxMsgAssumption DEF Lockless!Link, Alone, ProducerInv, Unlinked, Domains,
     Lockless!Nodes
<1>2. /\ lPc' = [lPc EXCEPT ![p] = "swing"] /\ lNext' = [lNext EXCEPT ![made - 1] = made]
      /\ UNCHANGED <<lHead, lTail, tmpAtomic, emptyNode, active, made, tmp, node, taken>>
  BY <1>1 DEF Lockless!Link, Lockless!Goto
<1>3. lPc'[p] = "swing" /\ \A t \in Lockless!Actor \ {p} : lPc'[t] = lPc[t]
  BY <1>2 DEF Domains, Lockless!Actor
<1>4. Length(p) = made - 1 /\ Length(p)' = made
  BY <1>1, <1>2, <1>3 DEF Length, Unlinked
<1>5. ListInv(p)'
  <2>1. /\ lNext = [n \in Lockless!Nodes |-> IF n < made - 1 THEN n + 1 ELSE NoNode]
        /\ lHead \in 0..(made - 1) /\ taken = [i \in 1..lHead |-> i]
    BY <1>4 DEF Alone, ListInv
  <2>2. lNext' = [n \in Lockless!Nodes |-> IF n < made THEN n + 1 ELSE NoNode]
    <3>1. DOMAIN lNext = Lockless!Nodes /\ made - 1 \in Lockless!Nodes /\ Lockless!Nodes \subseteq Nat
      BY <1>1, <2>1, MaxMsgAssumption DEF Lockless!Nodes
    <3>2. \A n \in Lockless!Nodes : lNext'[n] = IF n < made THEN n + 1 ELSE NoNode
      BY <1>1, <1>2, <2>1, <3>1
    <3>3. QED
      BY <1>2, <2>1, <3>1, <3>2
  <2>3. QED
    BY <1>1, <1>2, <1>4, <2>1, <2>2 DEF ListInv
<1>6. ProducerInv(p)'
  BY <1>1, <1>2, <1>3 DEF ProducerInv, Unlinked
<1>7. ConsumerInv(p)'
  BY <1>1, <1>2, <1>3, <1>4, DisjointAssumption DEF Alone, ConsumerInv, Lockless!Actor
<1>8. QED
  BY <1>2, <1>3, <1>5, <1>6, <1>7 DEF Alone, Lockless!Actor

(* A step of the producer. *)
LEMMA ProduceKeepsAlone ==
  ASSUME Domains, NEW p \in Producer, Alone(p), Lockless!Produce(p)
  PROVE  Alone(p)'
<1> USE MaxMsgAssumption, DisjointAssumption
    DEF Domains, Lockless!Nodes, Lockless!Goto, Lockless!Actor, Alone, ProducerInv,
        ListInv, ConsumerInv, Length, Unlinked
<1>1. CASE Lockless!Enqueue(p)
  BY <1>1 DEF Lockless!Enqueue, Lockless!Idle, Lockless!queue
<1>2. CASE Lockless!ReadTail(p)
  BY <1>2 DEF Lockless!ReadTail, Lockless!queue
<1>3. CASE Lockless!StoreNext(p)
  BY <1>3 DEF Lockless!StoreNext
<1>4. CASE Lockless!Swap(p)
  BY <1>4 DEF Lockless!Swap
<1>5. CASE Lockless!Link(p)
  BY <1>5, LinkKeepsAlone
<1>6. CASE Lockless!Help(p)
  BY <1>6 DEF Lockless!Help
<1>7. CASE Lockless!Swing(p)
  BY <1>7 DEF Lockless!Swing
<1>8. CASE Lockless!CountUp(p)
  BY <1>8 DEF Lockless!CountUp
<1>9. QED
  BY <1>1, <1>2, <1>3, <1>4, <1>5, <1>6, <1>7, <1>8 DEF Lockless!Produce

(* A step of a consumer. *)
LEMMA ConsumeKeepsAlone ==
  ASSUME Domains, NEW p \in Producer, Alone(p), NEW c \in Consumer, Lockless!Consume(c)
  PROVE  Alone(p)'
<1> USE MaxMsgAssumption, DisjointAssumption
    DEF Domains, Lockless!Nodes, Lockless!Goto, Lockless!Actor, Alone, ProducerInv,
        ListInv, ConsumerInv, Length, Unlinked
<1>1. CASE Lockless!Loop(c)
  BY <1>1 DEF Lockless!Loop, Lockless!queue
<1>2. CASE Lockless!ReadHead(c)
  BY <1>2 DEF Lockless!ReadHead, Lockless!queue
<1>3. CASE Lockless!TestNext(c)
  BY <1>3 DEF Lockless!TestNext, Lockless!queue
<1>4. CASE Lockless!MoveHead(c)
  <2>1. CASE lHead = tmp[c]
    <3>1. lNext[tmp[c]] = lHead + 1 /\ lHead + 1 # NoNode
      BY <1>4, <2>1 DEF Lockless!MoveHead
    <3>2. Append(taken, lHead + 1) = [i \in 1..(lHead + 1) |-> i]
      BY <2>1
    <3>3. /\ lHead' = lHead + 1 /\ taken' = [i \in 1..(lHead + 1) |-> i]
          /\ lPc' = [lPc EXCEPT ![c] = "count"]
      BY <1>4, <2>1, <3>1, <3>2 DEF Lockless!MoveHead
    <3>4. UNCHANGED <<lNext, lTail, tmpAtomic, emptyNode, active, made, tmp>>
      BY <1>4 DEF Lockless!MoveHead
    <3>5. lHead + 1 <= Length(p)
      BY <1>4, <2>1 DEF Lockless!MoveHead
    <3>6. ProducerInv(p)'
      BY <1>4, <2>1, <3>3, <3>4 DEF Lockless!MoveHead
    <3>7. ListInv(p)' /\ ConsumerInv(p)'
      BY <3>3, <3>4, <3>5
    <3>8. QED
      BY <3>3, <3>4, <3>6, <3>7
  <2>2. CASE lHead # tmp[c]
    BY <1>4, <2>2 DEF Lockless!MoveHead
  <2>3. QED
    BY <2>1, <2>2
<1>5. CASE Lockless!CountDown(c)
  BY <1>5 DEF Lockless!CountDown
<1>6. QED
  BY <1>1, <1>2, <1>3, <1>4, <1>5 DEF Lockless!Consume

LEMMA StepOneProducer == OneProducerInv /\ [Lockless!Next]_(Lockless!vars) => OneProducerInv'
<1> SUFFICES ASSUME OneProducerInv, [Lockless!Next]_(Lockless!vars) PROVE OneProducerInv'
  OBVIOUS
<1>1. Domains /\ Domains'
  BY StepDomains DEF OneProducerInv
<1>2. UNCHANGED active
  BY DEF Lockless!Next, Lockless!vars, Lockless!Produce, Lockless!Enqueue,
     Lockless!ReadTail, Lockless!StoreNext, Lockless!Swap, Lockless!Link, Lockless!Help,
     Lockless!Swing, Lockless!CountUp,
     Lockless!Consume, Lockless!Loop, Lockless!ReadHead, Lockless!TestNext,
     Lockless!MoveHead, Lockless!CountDown, Lockless!Stop
<1>3. ASSUME NEW p \in Producer, active = {p} PROVE Alone(p)'
  <2>1. Alone(p)
    BY <1>3 DEF OneProducerInv
  <2>2. CASE UNCHANGED Lockless!vars
    BY <2>1, <2>2 DEF Lockless!vars, Lockless!queue, Lockless!thread, Alone,
       ProducerInv, ListInv, ConsumerInv, Length
  <2>3. CASE Lockless!Stop
    BY <2>1, <2>3 DEF Lockless!Stop, Lockless!queue, Lockless!thread, Alone,
       ProducerInv, ListInv, ConsumerInv, Length
  <2>4. ASSUME NEW c \in Consumer, Lockless!Consume(c) PROVE Alone(p)'
    BY <1>1, <2>1, <2>4, ConsumeKeepsAlone
  <2>5. ASSUME NEW q \in Producer, Lockless!Produce(q) PROVE Alone(p)'
    <3>1. q = p
      BY <2>1, <2>5, DisjointAssumption
      DEF Alone, Lockless!Produce, Lockless!Enqueue, Lockless!ReadTail,
          Lockless!StoreNext, Lockless!Swap, Lockless!Link, Lockless!Help,
          Lockless!Swing, Lockless!CountUp
    <3>2. QED
      BY <1>1, <2>1, <2>5, <3>1, ProduceKeepsAlone
  <2>6. QED
    BY <2>2, <2>3, <2>4, <2>5 DEF Lockless!Next
<1>4. QED
  BY <1>1, <1>2, <1>3 DEF OneProducerInv

(* The invariant says what the property says of the only producer.          *)
LEMMA OneProducerIsEnough == OneProducerInv => InOrderOnce
<1> SUFFICES ASSUME OneProducerInv, NEW p \in Producer, active = {p}
             PROVE  /\ ~Lockless!Crashed
                    /\ lNext = [n \in Lockless!Nodes |-> IF n < Lockless!Linked THEN n + 1 ELSE NoNode]
                    /\ taken = [i \in 1..lHead |-> i] /\ lHead <= Lockless!Linked
  BY DEF InOrderOnce, Lockless!InOrderOnce, Lockless!OneProducer
<1>1. Alone(p)
  BY DEF OneProducerInv
<1>2. ~Lockless!Crashed
  BY <1>1 DEF Lockless!Crashed, Alone, ProducerInv, ConsumerInv, Unlinked, Lockless!Actor
<1>3. Lockless!Linked = Length(p)
  BY <1>1 DEF Lockless!Linked, Length, Alone, ProducerInv, Unlinked
<1>4. made \in Nat
  BY MaxMsgAssumption DEF OneProducerInv, Domains, Lockless!Nodes
<1>5. QED
  BY <1>1, <1>2, <1>3, <1>4 DEF Alone, ListInv, Length

(* One producer, any consumers, any number of messages: none is lost,       *)
(* doubled or reordered between enqueue() and dequeue(), and no null        *)
(* pointer is followed.                                                     *)
THEOREM OneProducerInOrder == Lockless!Spec => []InOrderOnce
  BY InitOneProducer, StepOneProducer, OneProducerIsEnough, PTL DEF Lockless!Spec
-----------------------------------------------------------------------------
(* A behaviour of the two queues next to each other is a behaviour of each: *)
(* what is proved of MsgQ and of LocklessQ holds where both are tried.      *)
THEOREM QueuesAreBoth == QueuesSpec => Spec /\ Lockless!Spec
<1>1. QueuesInit => Init /\ Lockless!Init
  BY DEF QueuesInit
<1>2. [QueuesNext]_<<tried, vars, lockless>> => [Next]_vars /\ [Lockless!Next]_(Lockless!vars)
  <2>1. lockless' = lockless => UNCHANGED Lockless!vars
    BY DEF lockless, Lockless!vars, Lockless!queue, Lockless!thread
  <2>2. QED
    BY <2>1 DEF QueuesNext
<1>3. QED
  BY <1>1, <1>2, PTL DEF QueuesSpec, Spec, Lockless!Spec

(* The sections of MsgQ exclude each other, also next to LocklessQ.         *)
THEOREM QueuesExclude == QueuesSpec => []MutualExclusion
  BY QueuesAreBoth, SectionsExclude, PTL

(* The queue whose waiter hangs stays so, also next to LocklessQ.           *)
THEOREM QueuesHangForGood == QueuesSpec => HangsForGood
  BY QueuesAreBoth, HangIsForGood, PTL

(* One producer of LocklessQ, any consumers, any number of messages, next   *)
(* to MsgQ: no message is lost, doubled or reordered.                       *)
THEOREM QueuesInOrder == QueuesSpec => []InOrderOnce
  BY QueuesAreBoth, OneProducerInOrder, PTL

(* MsgQ is a queue also next to LocklessQ.                                  *)
THEOREM QueuesFifo == QueuesSpec => ImplementsFifo
  BY QueuesAreBoth, MsgQIsFifo, PTL
===============================================================================
