--------------------------- MODULE ReferencerProofs ---------------------------
(***************************************************************************)
(* For any threads, messages and results: a mailbox has one owner, also    *)
(* when updates of _size are lost; and while none is, the owner has the    *)
(* oldest message and no message is executed after it was deleted. Once a  *)
(* post was refused, the mailbox has no owner any more.                    *)
(***************************************************************************)
EXTENDS Referencer, FiniteSetTheorems, SequenceTheorems, TLAPS

(* Who holds which lock, and has a message.                                 *)
Linking(p) == pc[p] \in {"load", "store"}
Removing(w) == pc[w] \in {"load", "store", "advance"}
Serving(w) == pc[w] \in {"call", "get", "load", "store"}
LockInv ==
  /\ \A p \in Producer : /\ pc[p] \in {"idle", "load", "store"}
                         /\ Linking(p) <=> lockT = p
                         /\ Linking(p) => tmp[p] \in Msg
  /\ \A w \in Worker : /\ Removing(w) <=> lockH = w
                       /\ Serving(w) => tmp[w] \in Msg
                       /\ Removing(w) => list # <<>>

(* _size may fall behind the list, but never below 0.                       *)
SizeInv ==
  /\ size \in Nat /\ loaded \in [Thread -> Nat]
  /\ \A w \in Worker : pc[w] = "store" => loaded[w] >= 1

(* There is one owner; and while there is one, and once a post was refused, *)
(* _size and what a put() under way has loaded of it are not 0, so that no  *)
(* other is made.                                                           *)
Unowned == dispatch = <<>> /\ \A w \in Worker : ~Owns(w)
OwnerInv ==
  /\ dispatch = <<>> \/ \E m \in Msg : dispatch = <<m>>
  /\ \A v, w \in Worker : Owns(v) /\ Owns(w) => v = w
  /\ dispatch # <<>> => \A w \in Worker : ~Owns(w)
  /\ ~Unowned \/ refused # None => size >= 1 /\ \A p \in Producer : pc[p] = "store" => loaded[p] >= 1
  /\ refused # None => Unowned

Inv == TypeOK /\ LockInv /\ SizeInv /\ OwnerInv

LEMMA InitInv == Init => Inv
<1> SUFFICES ASSUME Init PROVE Inv
  OBVIOUS
<1>1. TypeOK
  BY NoneAssumption, PriorityAssumption DEF Init, TypeOK
<1>2. LockInv
  BY NoneAssumption DEF Init, LockInv, Linking, Removing, Serving, Thread
<1>3. SizeInv
  BY DEF Init, SizeInv, Thread
<1>4. OwnerInv
  BY DEF Init, OwnerInv, Unowned, Owns, Thread
<1>5. QED
  BY <1>1, <1>2, <1>3, <1>4 DEF Inv
-----------------------------------------------------------------------------
(* Nothing but what thread t does changes. *)
Others(t) == \A u \in Thread \ {t} : pc'[u] = pc[u] /\ tmp'[u] = tmp[u] /\ loaded'[u] = loaded[u]

LEMMA ThreadsApart ==
  /\ \A p \in Producer : p \in Thread /\ p # None /\ p \notin Worker
  /\ \A w \in Worker : w \in Thread /\ w # None /\ w \notin Producer
  BY ThreadAssumption, NoneAssumption DEF Thread

(* What a step writes is of its thread.                                     *)
LEMMA OneThread ==
  ASSUME Inv, NEW t \in Thread, NEW step, pc' = [pc EXCEPT ![t] = step]
  PROVE  /\ pc'[t] = step /\ \A u \in Thread \ {t} : pc'[u] = pc[u]
         /\ \A m : tmp' = [tmp EXCEPT ![t] = m] =>
              tmp'[t] = m /\ \A u \in Thread \ {t} : tmp'[u] = tmp[u]
         /\ \A n : loaded' = [loaded EXCEPT ![t] = n] =>
              loaded'[t] = n /\ \A u \in Thread \ {t} : loaded'[u] = loaded[u]
<1>1. DOMAIN pc = Thread /\ DOMAIN tmp = Thread /\ DOMAIN loaded = Thread
  BY DEF Inv, TypeOK
<1>2. QED
  BY <1>1

LEMMA PutLinkInv == ASSUME Inv, NEW p \in Producer, NEW m \in Msg, PutLink(p, m) PROVE Inv'
<1>1. /\ pc[p] = "idle" /\ lockT = None /\ list' = Append(list, m) /\ lockT' = p
      /\ tmp' = [tmp EXCEPT ![p] = m] /\ destroyed' = destroyed \ {m} /\ pc' = [pc EXCEPT ![p] = "load"]
      /\ UNCHANGED <<atomic, size, lockH, priority, dispatch, refused, left, kept, loaded, budget, last>>
  BY DEF PutLink, Goto
<1>2. /\ p \in Thread /\ p # None /\ p \notin Worker /\ pc'[p] = "load" /\ tmp'[p] = m /\ Others(p)
      /\ \A u \in Worker : pc'[u] = pc[u] /\ tmp'[u] = tmp[u]
  <2>1. p \in Thread /\ p # None /\ p \notin Worker
    BY ThreadsApart
  <2>2. pc'[p] = "load" /\ tmp'[p] = m /\ Others(p)
    BY <1>1, <2>1, OneThread, Zenon DEF Others
  <2>3. QED
    BY <2>1, <2>2 DEF Others, Thread
<1>3. TypeOK'
  BY <1>1, <1>2 DEF Inv, TypeOK
<1>4. LockInv'
  BY <1>1, <1>2, NoneAssumption DEF Inv, LockInv, Linking, Removing, Serving, Thread, Others
<1>5. SizeInv'
  BY <1>1, <1>2 DEF Inv, SizeInv
<1>6. OwnerInv'
  BY <1>1, <1>2 DEF Inv, OwnerInv, Unowned, Owns, Others, Thread
<1>7. QED
  BY <1>3, <1>4, <1>5, <1>6 DEF Inv

LEMMA LoadInv == ASSUME Inv, NEW t \in Thread, Load(t) PROVE Inv'
<1>1. /\ pc[t] = "load" /\ loaded' = [loaded EXCEPT ![t] = size] /\ pc' = [pc EXCEPT ![t] = "store"]
      /\ UNCHANGED <<atomic, list, size, lockT, lockH, priority, dispatch, refused, destroyed, left, kept,
                     tmp, budget, last>>
  BY DEF Load, Goto, mailbox
<1>2. pc'[t] = "store" /\ loaded'[t] = size /\ Others(t)
  BY <1>1 DEF Inv, TypeOK, Others
<1>3. TypeOK'
  BY <1>1 DEF Inv, TypeOK
<1>4. LockInv'
  BY <1>1, <1>2 DEF Inv, LockInv, Linking, Removing, Serving, Thread, Others
<1>5. \A w \in Worker : Owns(w)' <=> Owns(w)
  BY <1>1, <1>2 DEF Owns, Others, Thread
<1>6. SizeInv'
  <2>1. t \in Worker => size >= 1
    BY <1>1 DEF Inv, OwnerInv, Unowned, Owns
  <2>2. size \in Nat /\ loaded \in [Thread -> Nat]
    BY DEF Inv, SizeInv
  <2>3. QED
    BY <1>1, <1>2, <2>1, <2>2 DEF Inv, SizeInv, Others, Thread
<1>7. OwnerInv'
  BY <1>1, <1>2, <1>5 DEF Inv, OwnerInv, Unowned, Others, Thread
<1>8. QED
  BY <1>3, <1>4, <1>6, <1>7 DEF Inv

LEMMA PutStoreInv == ASSUME Inv, NEW p \in Producer, PutStore(p) PROVE Inv'
<1>1. /\ pc[p] = "store" /\ size' = loaded[p] + 1 /\ lockT' = None
      /\ \/ size' # 1 /\ dispatch' = dispatch /\ refused' = refused
         \/ size' = 1 /\ dispatch' = Append(dispatch, tmp[p]) /\ refused' = refused
         \/ size' = 1 /\ dispatch' = dispatch /\ refused' = tmp[p]
      /\ loaded' = [loaded EXCEPT ![p] = 0] /\ tmp' = [tmp EXCEPT ![p] = None]
      /\ pc' = [pc EXCEPT ![p] = "idle"]
      /\ UNCHANGED <<atomic, list, lockH, priority, destroyed, left, kept, budget, last>>
  BY DEF PutStore, Goto, Post
<1>2. /\ p \in Thread /\ p # None /\ p \notin Worker /\ pc'[p] = "idle" /\ Others(p)
      /\ tmp[p] \in Msg /\ loaded[p] \in Nat /\ lockT = p
  <2>1. p \in Thread /\ p # None /\ p \notin Worker
    BY ThreadsApart
  <2>2. pc'[p] = "idle" /\ Others(p)
    <3>1. pc'[p] = "idle" /\ \A u \in Thread \ {p} : pc'[u] = pc[u]
      BY <1>1, <2>1, OneThread
    <3>2. \A u \in Thread \ {p} : tmp'[u] = tmp[u] /\ loaded'[u] = loaded[u]
      BY <1>1, <2>1, OneThread
    <3>3. QED
      BY <3>1, <3>2 DEF Others
  <2>3. tmp[p] \in Msg /\ lockT = p
    BY <1>1 DEF Inv, LockInv, Linking
  <2>4. QED
    BY <2>1, <2>2, <2>3 DEF Inv, SizeInv
<1>3. TypeOK'
  <2>1. dispatch \in Seq(Msg) /\ Append(dispatch, tmp[p]) \in Seq(Msg) /\ refused \in Msg \cup {None}
    BY <1>2 DEF Inv, TypeOK
  <2>2. dispatch' \in Seq(Msg)
    BY <1>1, <2>1, Zenon
  <2>3. refused' \in Msg \cup {None}
    BY <1>1, <1>2, <2>1
  <2>4. QED
    BY <1>1, <1>2, <2>2, <2>3 DEF Inv, TypeOK
<1>4. LockInv'
  BY <1>1, <1>2, NoneAssumption DEF Inv, LockInv, Linking, Removing, Serving, Thread, Others
<1>5. SizeInv'
  BY <1>1, <1>2 DEF Inv, SizeInv, Others, Thread
<1>6. \A w \in Worker : Owns(w)' <=> Owns(w)
  BY <1>2 DEF Owns, Others, Thread
<1>7. \A q \in Producer : pc'[q] # "store"
  BY <1>2 DEF Inv, LockInv, Linking, Thread, Others
<1>8. size' >= 1
  BY <1>1, <1>2
<1>9. CASE loaded[p] = 0
  <2>1. Unowned /\ refused = None
    BY <1>1, <1>9 DEF Inv, OwnerInv
  <2>2. dispatch' = <<>> \/ (dispatch' = <<tmp[p]>> /\ refused' = None)
    BY <1>1, <2>1 DEF Unowned
  <2>3. QED
    BY <1>2, <1>3, <1>4, <1>5, <1>6, <1>7, <1>8, <2>1, <2>2 DEF Inv, OwnerInv, Unowned
<1>10. CASE loaded[p] # 0
  <2>1. dispatch' = dispatch /\ refused' = refused
    BY <1>1, <1>2, <1>10
  <2>2. OwnerInv'
    BY <1>6, <1>7, <1>8, <2>1 DEF Inv, OwnerInv, Unowned
  <2>3. QED
    BY <1>3, <1>4, <1>5, <2>2 DEF Inv
<1>11. QED
  BY <1>9, <1>10

LEMMA TakeInv == ASSUME Inv, NEW w \in Worker, Take(w) PROVE Inv'
<1>1. /\ pc[w] = "idle" /\ dispatch # <<>> /\ dispatch' = Tail(dispatch)
      /\ tmp' = [tmp EXCEPT ![w] = Head(dispatch)] /\ pc' = [pc EXCEPT ![w] = "call"]
      /\ budget' = [budget EXCEPT ![w] = IF priority = Q_SIZE THEN size ELSE priority]
      /\ UNCHANGED <<atomic, list, size, lockT, lockH, priority, refused, destroyed, left, kept, loaded, last>>
  BY DEF Take, Goto, mailbox
<1>2. w \in Thread /\ w \notin Producer /\ pc'[w] = "call" /\ tmp'[w] = Head(dispatch) /\ Others(w)
  <2>1. w \in Thread /\ w \notin Producer
    BY ThreadsApart
  <2>2. QED
    BY <1>1, <2>1, OneThread DEF Others
<1>3. Head(dispatch) \in Msg /\ dispatch' = <<>>
  <2>1. PICK m \in Msg : dispatch = <<m>>
    BY <1>1 DEF Inv, OwnerInv
  <2>2. QED
    BY <1>1, <2>1
<1>4. TypeOK'
  <2>1. budget' \in [Worker -> Int] /\ dispatch' \in Seq(Msg)
    BY <1>1, <1>3 DEF Inv, TypeOK
  <2>2. tmp' \in [Thread -> Msg \cup {None}]
    BY <1>1, <1>3 DEF Inv, TypeOK
  <2>3. QED
    BY <1>1, <2>1, <2>2 DEF Inv, TypeOK
<1>5. LockInv'
  BY <1>1, <1>2, <1>3, NoneAssumption DEF Inv, LockInv, Linking, Removing, Serving, Thread, Others
<1>6. SizeInv'
  BY <1>1, <1>2 DEF Inv, SizeInv, Others, Thread
<1>7. OwnerInv'
  <2>1. \A v \in Worker : Owns(v)' <=> v = w
    BY <1>1, <1>2 DEF Inv, OwnerInv, Owns, Others, Thread
  <2>2. \A p \in Producer : pc'[p] = pc[p] /\ loaded'[p] = loaded[p]
    BY <1>2 DEF Others, Thread
  <2>3. QED
    BY <1>1, <1>3, <2>1, <2>2 DEF Inv, OwnerInv, Unowned
<1>8. QED
  BY <1>4, <1>5, <1>6, <1>7 DEF Inv
-----------------------------------------------------------------------------
(* The three ways on of a worker in execute(): it leaves, also because the   *)
(* post of the next message is refused, it leaves and posts that message, or *)
(* it takes it on.                                                           *)
Stops(w) == /\ pc' = [pc EXCEPT ![w] = "idle"] /\ tmp' = [tmp EXCEPT ![w] = None]
            /\ dispatch' = dispatch /\ refused' \in Msg \cup {None}
Posts(w, m) == /\ pc' = [pc EXCEPT ![w] = "idle"] /\ tmp' = [tmp EXCEPT ![w] = None]
               /\ dispatch' = Append(dispatch, m) /\ refused' = refused
TakesOn(w, m) == /\ pc' = [pc EXCEPT ![w] = "call"] /\ tmp' = [tmp EXCEPT ![w] = m]
                 /\ dispatch' = dispatch /\ refused' = refused

LEMMA LeaveTyped ==
  ASSUME Inv, NEW w \in Worker, Leave(w)
  PROVE  /\ pc' = [pc EXCEPT ![w] = "idle"] /\ tmp' = [tmp EXCEPT ![w] = None]
         /\ budget' \in [Worker -> Int] /\ last' \in [Worker -> BOOLEAN]
  BY DEF Inv, TypeOK, Leave, Goto

LEMMA WaysOn ==
  ASSUME Inv, NEW w \in Worker, NEW m \in Msg \cup {None}, NEW leaving, GoOn(w, m, leaving)
  PROVE  /\ \/ Stops(w) /\ (m = None => refused' = refused)
            \/ m # None /\ (Posts(w, m) \/ TakesOn(w, m))
         /\ refused' \in {refused, m}
         /\ budget' \in [Worker -> Int] /\ last' \in [Worker -> BOOLEAN]
<1>1. CASE leaving \/ m = None
  <2>1. /\ pc' = [pc EXCEPT ![w] = "idle"] /\ tmp' = [tmp EXCEPT ![w] = None]
        /\ budget' \in [Worker -> Int] /\ last' \in [Worker -> BOOLEAN]
    BY <1>1, LeaveTyped DEF GoOn
  <2>2. CASE m = None
    <3>1. dispatch' = dispatch /\ refused' = refused /\ refused \in Msg \cup {None}
      BY <1>1, <2>2 DEF GoOn, Inv, TypeOK
    <3>2. QED
      BY <2>1, <3>1 DEF Stops
  <2>3. CASE m # None
    <3>1. \/ dispatch' = Append(dispatch, m) /\ refused' = refused
          \/ refused' = m /\ dispatch' = dispatch
      BY <1>1, <2>3 DEF GoOn, Post
    <3>2. QED
      BY <2>1, <2>3, <3>1 DEF Stops, Posts
  <2>4. QED
    BY <2>2, <2>3
<1>2. CASE ~(leaving \/ m = None)
  BY <1>2 DEF GoOn, TakesOn, Goto, Inv, TypeOK
<1>3. QED
  BY <1>1, <1>2

(* An owner that goes on is the owner still, or what it posts is.           *)
LEMMA OwnerGoesOn ==
  ASSUME Inv, NEW w \in Worker, Owns(w), NEW m,
         Stops(w) \/ (m \in Msg /\ (Posts(w, m) \/ TakesOn(w, m))),
         size' = size, \A u \in Thread \ {w} : loaded'[u] = loaded[u]
  PROVE  OwnerInv'
<1>1. /\ dispatch = <<>> /\ refused = None /\ size >= 1 /\ \A v \in Worker : Owns(v) => v = w
      /\ \A p \in Producer : pc[p] = "store" => loaded[p] >= 1
  BY DEF Inv, OwnerInv, Unowned
<1>2. PICK step \in {"idle", "call"} :
        /\ pc' = [pc EXCEPT ![w] = step]
        /\ dispatch' = dispatch \/ (step = "idle" /\ m \in Msg /\ dispatch' = Append(dispatch, m))
        /\ refused' = refused \/ (step = "idle" /\ dispatch' = dispatch)
  BY DEF Stops, Posts, TakesOn
<1>3. pc'[w] = step /\ \A u \in Thread \ {w} : pc'[u] = pc[u]
  BY <1>2, OneThread, ThreadsApart
<1>4. \A p \in Producer : pc'[p] = pc[p] /\ loaded'[p] = loaded[p]
  BY <1>3, ThreadsApart
<1>5. \A v \in Worker : Owns(v)' => v = w /\ step = "call"
  <2> SUFFICES ASSUME NEW v \in Worker, Owns(v)' PROVE v = w /\ step = "call"
    OBVIOUS
  <2>1. CASE v = w
    BY <1>3, <2>1 DEF Owns
  <2>2. CASE v # w
    <3>1. pc'[v] = pc[v] /\ loaded'[v] = loaded[v]
      BY <1>3, <2>2, ThreadsApart
    <3>2. Owns(v)
      BY <3>1 DEF Owns
    <3>3. QED
      BY <1>1, <2>2, <3>2
  <2>3. QED
    BY <2>1, <2>2
<1>6. CASE step = "idle"
  <2>1. dispatch' = <<>> \/ (m \in Msg /\ dispatch' = <<m>> /\ refused' = None)
    BY <1>1, <1>2
  <2>2. QED
    BY <1>1, <1>4, <1>5, <1>6, <2>1 DEF OwnerInv, Unowned
<1>7. CASE step = "call"
  <2>1. dispatch' = <<>> /\ refused' = None
    BY <1>1, <1>2, <1>7
  <2>2. QED
    BY <1>1, <1>4, <1>5, <2>1 DEF OwnerInv, Unowned
<1>8. QED
  BY <1>2, <1>6, <1>7

LEMMA CallEndInv == ASSUME Inv, NEW w \in Worker, CallEnd(w) PROVE Inv'
<1>1. /\ pc[w] = "call" /\ left' = tmp[w] /\ Leave(w)
      /\ UNCHANGED <<atomic, list, size, lockT, lockH, priority, dispatch, refused, destroyed, kept, loaded>>
  BY DEF CallEnd, mailbox
<1>2. /\ tmp[w] \in Msg /\ Owns(w) /\ w \in Thread /\ w \notin Producer
  BY <1>1, ThreadsApart DEF Inv, LockInv, Serving, Owns
<1>3. /\ Stops(w) /\ budget' \in [Worker -> Int] /\ last' \in [Worker -> BOOLEAN]
  BY <1>1, LeaveTyped DEF Stops, Inv, TypeOK
<1>4. pc'[w] = "idle" /\ tmp'[w] = None /\ Others(w)
  BY <1>1, <1>2, <1>3, OneThread DEF Others, Stops
<1>5. TypeOK'
  BY <1>1, <1>2, <1>3 DEF Inv, TypeOK, Stops
<1>6. LockInv'
  BY <1>1, <1>2, <1>4 DEF Inv, LockInv, Linking, Removing, Serving, Thread, Others
<1>7. SizeInv'
  BY <1>1, <1>2, <1>4 DEF Inv, SizeInv, Others, Thread
<1>8. OwnerInv'
  BY <1>1, <1>2, <1>3, OwnerGoesOn
<1>9. QED
  BY <1>5, <1>6, <1>7, <1>8 DEF Inv

LEMMA CallInv ==
  ASSUME Inv, NEW w \in Worker, NEW res \in Results, Call(w, res) PROVE Inv'
<1>1. /\ pc[w] = "call" /\ UNCHANGED <<atomic, list, size, lockT, lockH, loaded>>
      /\ priority' \in {priority, priority - 1}
      /\ destroyed' \in {destroyed, destroyed \cup {tmp[w]}}
  BY DEF Call
<1>2. /\ tmp[w] \in Msg /\ Owns(w) /\ w \in Thread /\ w \notin Producer
  BY <1>1, ThreadsApart DEF Inv, LockInv, Serving, Owns
<1>3. \/ Stops(w) \/ Posts(w, tmp[w]) \/ TakesOn(w, tmp[w])
      \/ pc' = [pc EXCEPT ![w] = "get"] /\ tmp' = tmp /\ dispatch' = dispatch /\ refused' = refused
  <2>1. CASE "KEEP" \in res
    <3>1. PICK leaving : GoOn(w, Kept(res, tmp[w]), leaving)
      BY <2>1 DEF Call
    <3>2. Kept(res, tmp[w]) \in {None, tmp[w]}
      BY DEF Kept
    <3>3. QED
      BY <1>2, <3>1, <3>2, WaysOn
  <2>2. CASE "KEEP" \notin res
    BY <2>2 DEF Call, Goto
  <2>3. QED
    BY <2>1, <2>2
<1>4. /\ budget' \in [Worker -> Int] /\ last' \in [Worker -> BOOLEAN]
      /\ left' \in {left, tmp[w]} /\ kept' \in [Msg -> 0..MaxKeep]
  <2>1. CASE "KEEP" \in res
    <3>1. PICK leaving : GoOn(w, Kept(res, tmp[w]), leaving)
      BY <2>1 DEF Call
    <3>2. Kept(res, tmp[w]) \in Msg \cup {None}
      BY <1>2 DEF Kept
    <3>3. budget' \in [Worker -> Int] /\ last' \in [Worker -> BOOLEAN]
      BY <3>1, <3>2, WaysOn
    <3>4. left' \in {left, tmp[w]} /\ kept' = [kept EXCEPT ![tmp[w]] = @ + 1] /\ kept[tmp[w]] < MaxKeep
      BY <2>1 DEF Call
    <3>5. kept' \in [Msg -> 0..MaxKeep]
      BY <1>2, <3>4, PriorityAssumption DEF Inv, TypeOK
    <3>6. QED
      BY <3>3, <3>4, <3>5
  <2>2. CASE "KEEP" \notin res
    <3>1. /\ kept' = [kept EXCEPT ![tmp[w]] = 0] /\ left' = left /\ budget' = budget
          /\ last' = [last EXCEPT ![w] = priority' = 0 \/ "LAST" \in res]
      BY <2>2 DEF Call
    <3>2. kept' \in [Msg -> 0..MaxKeep] /\ budget' \in [Worker -> Int]
      BY <1>2, <3>1, PriorityAssumption DEF Inv, TypeOK
    <3>3. last' \in [Worker -> BOOLEAN]
      BY <3>1 DEF Inv, TypeOK
    <3>4. QED
      BY <3>1, <3>2, <3>3
  <2>3. QED
    BY <2>1, <2>2
<1>5. \A u \in Thread \ {w} : pc'[u] = pc[u] /\ tmp'[u] = tmp[u]
  BY <1>1, <1>2, <1>3, OneThread DEF Stops, Posts, TakesOn
<1>6. \/ pc'[w] = "idle"
      \/ pc'[w] \in {"call", "get"} /\ tmp'[w] = tmp[w]
  BY <1>1, <1>2, <1>3, OneThread DEF Stops, Posts, TakesOn
<1>7. TypeOK'
  <2>1. dispatch' \in Seq(Msg) /\ refused' \in Msg \cup {None}
    <3>1. dispatch' = dispatch \/ dispatch' = Append(dispatch, tmp[w])
      BY <1>3 DEF Stops, Posts, TakesOn
    <3>2. dispatch \in Seq(Msg) /\ Append(dispatch, tmp[w]) \in Seq(Msg)
      BY <1>2 DEF Inv, TypeOK
    <3>3. dispatch' \in Seq(Msg)
      BY <3>1, <3>2, Zenon
    <3>4. refused' \in Msg \cup {None}
      BY <1>3 DEF Inv, TypeOK, Stops, Posts, TakesOn
    <3>5. QED
      BY <3>3, <3>4
  <2>2. pc' \in [Thread -> {"idle", "load", "store", "call", "get", "advance"}]
    BY <1>2, <1>3 DEF Inv, TypeOK, Stops, Posts, TakesOn
  <2>3. tmp' \in [Thread -> Msg \cup {None}]
    BY <1>2, <1>3 DEF Inv, TypeOK, Stops, Posts, TakesOn
  <2>4. destroyed' \subseteq Msg /\ left' \in Msg \cup {None} /\ priority' \in Int
    BY <1>1, <1>2, <1>4 DEF Inv, TypeOK
  <2>5. QED
    BY <1>1, <1>4, <2>1, <2>2, <2>3, <2>4 DEF Inv, TypeOK
<1>8. LockInv'
  BY <1>1, <1>2, <1>5, <1>6 DEF Inv, LockInv, Linking, Removing, Serving, Thread
<1>9. SizeInv'
  BY <1>1, <1>2, <1>5, <1>6 DEF Inv, SizeInv, Thread
<1>10. OwnerInv'
  <2>1. CASE pc' = [pc EXCEPT ![w] = "get"] /\ tmp' = tmp /\ dispatch' = dispatch /\ refused' = refused
    <3>1. pc'[w] = "get"
      BY <1>2, <2>1, OneThread
    <3>2. \A v \in Worker : Owns(v)' <=> Owns(v)
      BY <1>1, <1>2, <1>5, <3>1 DEF Owns, Thread
    <3>3. QED
      BY <1>1, <1>2, <1>5, <2>1, <3>2 DEF Inv, OwnerInv, Unowned, Thread
  <2>2. CASE Stops(w) \/ Posts(w, tmp[w]) \/ TakesOn(w, tmp[w])
    BY <1>1, <1>2, <2>2, OwnerGoesOn
  <2>3. QED
    BY <1>3, <2>1, <2>2
<1>11. QED
  BY <1>7, <1>8, <1>9, <1>10 DEF Inv

LEMMA GetLockInv == ASSUME Inv, NEW w \in Worker, GetLock(w) PROVE Inv'
<1>1. /\ pc[w] = "get" /\ list # <<>> /\ lockH = None /\ lockH' = w /\ pc' = [pc EXCEPT ![w] = "load"]
      /\ UNCHANGED <<atomic, list, size, lockT, priority, dispatch, refused, destroyed, left, kept, tmp,
                     loaded, budget, last>>
  BY DEF GetLock, Goto
<1>2. w \in Thread /\ w # None /\ w \notin Producer
  BY ThreadsApart
<1>3. pc'[w] = "load" /\ \A u \in Thread \ {w} : pc'[u] = pc[u]
  BY <1>1, <1>2, OneThread
<1>4. TypeOK'
  BY <1>1, <1>2 DEF Inv, TypeOK
<1>5. LockInv'
  BY <1>1, <1>2, <1>3, ThreadsApart DEF Inv, LockInv, Linking, Removing, Serving
<1>6. SizeInv'
  BY <1>1, <1>2, <1>3, ThreadsApart DEF Inv, SizeInv
<1>7. \A v \in Worker : Owns(v)' <=> Owns(v)
  BY <1>1, <1>3, ThreadsApart DEF Owns
<1>8. OwnerInv'
  BY <1>1, <1>2, <1>3, <1>7, ThreadsApart DEF Inv, OwnerInv, Unowned
<1>9. QED
  BY <1>4, <1>5, <1>6, <1>8 DEF Inv

LEMMA GetEmptyInv == ASSUME Inv, NEW w \in Worker, GetEmpty(w) PROVE Inv'
<1>1. /\ pc[w] = "get" /\ GoOn(w, None, last[w])
      /\ UNCHANGED <<atomic, list, size, lockT, lockH, priority, destroyed, left, kept, loaded>>
  BY DEF GetEmpty, mailbox
<1>2. /\ tmp[w] \in Msg /\ Owns(w) /\ w \in Thread /\ w \notin Producer
  BY <1>1, ThreadsApart DEF Inv, LockInv, Serving, Owns
<1>3. Stops(w) /\ budget' \in [Worker -> Int] /\ last' \in [Worker -> BOOLEAN]
  BY <1>1, WaysOn
<1>4. pc'[w] = "idle" /\ \A u \in Thread \ {w} : pc'[u] = pc[u] /\ tmp'[u] = tmp[u]
  BY <1>2, <1>3, OneThread DEF Stops
<1>5. TypeOK'
  BY <1>1, <1>3 DEF Inv, TypeOK, Stops
<1>6. LockInv'
  BY <1>1, <1>2, <1>4, ThreadsApart DEF Inv, LockInv, Linking, Removing, Serving
<1>7. SizeInv'
  BY <1>1, <1>2, <1>4, ThreadsApart DEF Inv, SizeInv
<1>8. OwnerInv'
  BY <1>1, <1>2, <1>3, OwnerGoesOn
<1>9. QED
  BY <1>5, <1>6, <1>7, <1>8 DEF Inv

LEMMA GetStoreInv == ASSUME Inv, NEW w \in Worker, GetStore(w) PROVE Inv'
<1>1. /\ pc[w] = "store" /\ size' = loaded[w] - 1 /\ loaded' = [loaded EXCEPT ![w] = loaded[w] - 1]
      /\ pc' = [pc EXCEPT ![w] = "advance"]
      /\ UNCHANGED <<atomic, list, lockT, lockH, priority, dispatch, refused, destroyed, left, kept, tmp,
                     budget, last>>
  BY DEF GetStore, Goto
<1>2. /\ w \in Thread /\ w # None /\ w \notin Producer /\ Owns(w)
      /\ loaded[w] \in Nat /\ loaded[w] - 1 \in Nat
  BY <1>1, ThreadsApart DEF Inv, SizeInv, Owns
<1>3. /\ pc'[w] = "advance" /\ loaded'[w] = loaded[w] - 1
      /\ \A u \in Thread \ {w} : pc'[u] = pc[u] /\ loaded'[u] = loaded[u]
  <2>1. DOMAIN pc = Thread /\ DOMAIN loaded = Thread
    BY DEF Inv, TypeOK
  <2>2. QED
    BY <1>1, <1>2, <2>1
<1>4. TypeOK'
  BY <1>1, <1>2 DEF Inv, TypeOK
<1>5. LockInv'
  BY <1>1, <1>2, <1>3, ThreadsApart DEF Inv, LockInv, Linking, Removing, Serving
<1>6. SizeInv'
  BY <1>1, <1>2, <1>3, ThreadsApart DEF Inv, SizeInv
<1>7. /\ dispatch = <<>> /\ refused = None /\ \A v \in Worker : Owns(v) => v = w
      /\ \A p \in Producer : pc[p] = "store" => loaded[p] >= 1
  BY <1>2 DEF Inv, OwnerInv, Unowned
<1>8. \A v \in Worker : Owns(v)' => v = w /\ loaded[w] - 1 > 0
  BY <1>3, <1>7, ThreadsApart DEF Owns
<1>9. OwnerInv'
  <2>1. \A p \in Producer : pc'[p] = "store" => loaded'[p] >= 1
    BY <1>2, <1>3, <1>7, ThreadsApart
  <2>2. dispatch' = <<>> /\ refused' = None
    BY <1>1, <1>7
  <2>3. QED
    BY <1>1, <1>2, <1>8, <2>1, <2>2 DEF OwnerInv, Unowned
<1>10. QED
  BY <1>4, <1>5, <1>6, <1>9 DEF Inv

LEMMA GetAdvanceInv == ASSUME Inv, NEW w \in Worker, GetAdvance(w) PROVE Inv'
<1> DEFINE peeked == IF loaded[w] > 0 /\ list' # <<>> THEN Head(list') ELSE None
<1>1. /\ pc[w] = "advance" /\ lockH' = None /\ GoOn(w, peeked, last[w]) /\ list' = Tail(list)
      /\ loaded' = [loaded EXCEPT ![w] = 0]
      /\ UNCHANGED <<atomic, size, lockT, priority, destroyed, left, kept>>
  BY DEF GetAdvance
<1>2. list' \in Seq(Msg)
  <2>1. list \in Seq(Msg) /\ list # <<>>
    BY <1>1 DEF Inv, TypeOK, LockInv, Removing
  <2>2. QED
    BY <1>1, <2>1
<1>3. /\ w \in Thread /\ w # None /\ w \notin Producer /\ lockH = w
      /\ peeked \in Msg \cup {None} /\ (peeked # None => peeked \in Msg /\ Owns(w))
  BY <1>1, <1>2, ThreadsApart DEF Inv, LockInv, Removing, Owns
<1> HIDE DEF peeked
<1>4. /\ Stops(w) \/ (peeked # None /\ (Posts(w, peeked) \/ TakesOn(w, peeked)))
      /\ peeked = None => Stops(w) /\ refused' = refused
      /\ budget' \in [Worker -> Int] /\ last' \in [Worker -> BOOLEAN]
  BY <1>1, <1>3, WaysOn
<1>5. /\ \A u \in Thread \ {w} : pc'[u] = pc[u] /\ tmp'[u] = tmp[u] /\ loaded'[u] = loaded[u]
      /\ pc'[w] = "idle" \/ (pc'[w] = "call" /\ tmp'[w] = peeked /\ peeked # None)
      /\ pc' \in [Thread -> {"idle", "load", "store", "call", "get", "advance"}]
      /\ tmp' \in [Thread -> Msg \cup {None}] /\ loaded' \in [Thread -> Nat]
  <2>1. /\ DOMAIN pc = Thread /\ DOMAIN tmp = Thread /\ DOMAIN loaded = Thread
        /\ pc \in [Thread -> {"idle", "load", "store", "call", "get", "advance"}]
        /\ tmp \in [Thread -> Msg \cup {None}] /\ loaded \in [Thread -> Nat]
    BY DEF Inv, TypeOK, SizeInv
  <2>2. CASE Stops(w)
    BY <1>1, <1>3, <2>1, <2>2 DEF Stops
  <2>3. CASE peeked # None /\ Posts(w, peeked)
    BY <1>1, <1>3, <2>1, <2>3 DEF Posts
  <2>4. CASE peeked # None /\ TakesOn(w, peeked)
    BY <1>1, <1>3, <2>1, <2>4 DEF TakesOn
  <2>5. QED
    BY <1>4, <2>2, <2>3, <2>4
<1>6. dispatch' \in Seq(Msg) /\ refused' \in Msg \cup {None}
  <2>1. dispatch' = dispatch \/ (peeked \in Msg /\ dispatch' = Append(dispatch, peeked))
    BY <1>3, <1>4 DEF Stops, Posts, TakesOn
  <2>2. dispatch \in Seq(Msg)
    BY DEF Inv, TypeOK
  <2>3. refused' \in Msg \cup {None}
    BY <1>4 DEF Inv, TypeOK, Stops, Posts, TakesOn
  <2>4. QED
    BY <2>1, <2>2, <2>3
<1>7. TypeOK'
  <2>1. lockH' \in Worker \cup {None}
    BY <1>1
  <2>2. /\ atomic' \in BOOLEAN /\ size' \in Int /\ lockT' \in Producer \cup {None}
        /\ priority' \in Int
    BY <1>1 DEF Inv, TypeOK
  <2>3. destroyed' \subseteq Msg /\ left' \in Msg \cup {None} /\ kept' \in [Msg -> 0 .. MaxKeep]
    BY <1>1 DEF Inv, TypeOK
  <2>4. loaded' \in [Thread -> Int]
    <3>1. \A f \in [Thread -> Nat] : f \in [Thread -> Int]
      OBVIOUS
    <3>2. QED
      BY <1>5, <3>1
  <2>5. QED
    BY <1>2, <1>4, <1>5, <1>6, <2>1, <2>2, <2>3, <2>4 DEF TypeOK
<1>8. LockInv'
  BY <1>1, <1>3, <1>5, ThreadsApart DEF Inv, LockInv, Linking, Removing, Serving
<1>9. SizeInv'
  BY <1>1, <1>3, <1>5, ThreadsApart DEF Inv, SizeInv
<1>10. OwnerInv'
  <2>1. CASE Owns(w)
    BY <1>1, <1>3, <1>4, <1>5, <2>1, OwnerGoesOn
  <2>2. CASE ~Owns(w)
    <3>1. Stops(w) /\ refused' = refused
      BY <1>3, <1>4, <2>2
    <3>2. pc'[w] = "idle"
      BY <1>1, <1>3, <3>1, OneThread DEF Stops
    <3>3. \A v \in Worker : Owns(v)' <=> Owns(v)
      BY <1>3, <1>5, <2>2, <3>2, ThreadsApart DEF Owns
    <3>4. \A p \in Producer : pc'[p] = pc[p] /\ loaded'[p] = loaded[p]
      BY <1>3, <1>5, ThreadsApart
    <3>5. QED
      BY <1>1, <3>1, <3>3, <3>4 DEF Inv, OwnerInv, Unowned, Stops
  <2>3. QED
    BY <2>1, <2>2
<1>11. QED
  BY <1>7, <1>8, <1>9, <1>10 DEF Inv

LEMMA StepInv == Inv /\ [Next]_vars => Inv'
<1> SUFFICES ASSUME Inv, [Next]_vars PROVE Inv'
  OBVIOUS
<1>1. ASSUME NEW p \in Producer, Put(p) PROVE Inv'
  BY <1>1, PutLinkInv, LoadInv, PutStoreInv, ThreadsApart DEF Put
<1>2. ASSUME NEW w \in Worker, Take(w) \/ Execute(w) PROVE Inv'
  BY <1>2, TakeInv, CallEndInv, CallInv, GetLockInv, GetEmptyInv, LoadInv, GetStoreInv,
     GetAdvanceInv, ThreadsApart DEF Execute
<1>3. CASE UNCHANGED vars
  BY <1>3 DEF vars, mailbox, thread, Inv, TypeOK, LockInv, SizeInv, OwnerInv, Linking, Removing,
              Serving, Unowned, Owns
<1>4. QED
  BY <1>1, <1>2, <1>3 DEF Next

LEMMA InvAlways == Spec => []Inv
  BY InitInv, StepInv, PTL DEF Spec

THEOREM TypeCorrect == Spec => []TypeOK
  BY InvAlways, PTL DEF Inv

(* At most one message of a mailbox is dispatched or being executed, and    *)
(* this is so even where updates of _size are lost.                         *)
THEOREM OneOwnerAlways == Spec => []OneOwner
<1>1. Inv => OneOwner
  <2> SUFFICES ASSUME Inv PROVE OneOwner
    OBVIOUS
  <2> DEFINE owners == {w \in Worker : Owns(w)}
  <2>1. CASE dispatch = <<>>
    <3>1. CASE owners = {}
      BY <2>1, <3>1, FS_EmptySet DEF OneOwner
    <3>2. CASE owners # {}
      <4>1. PICK w : owners = {w}
        BY <3>2 DEF Inv, OwnerInv
      <4>2. Cardinality(owners) = 1
        BY <4>1, FS_Singleton
      <4>3. QED
        BY <2>1, <4>2 DEF OneOwner
    <3>3. QED
      BY <3>1, <3>2
  <2>2. CASE dispatch # <<>>
    <3>1. owners = {}
      BY <2>2 DEF Inv, OwnerInv
    <3>2. Len(dispatch) = 1
      BY <2>2 DEF Inv, OwnerInv
    <3>3. QED
      BY <3>1, <3>2, FS_EmptySet DEF OneOwner
  <2>3. QED
    BY <2>1, <2>2
<1>2. QED
  BY <1>1, InvAlways, PTL
-----------------------------------------------------------------------------
(* The mailbox when no updates of _size overlap: _size counts what waits,   *)
(* the last of it is what a put() under way has linked, only the first of   *)
(* it can have been deleted, and that one is not executed again.            *)
Counted == Len(Waiting) = size + IF lockT = None THEN 0 ELSE 1
Newest == \A p \in Producer : Linking(p) => Waiting[Len(Waiting)] = tmp[p]
Distinct == \A i, j \in 1..Len(Waiting) : Waiting[i] = Waiting[j] => i = j
Executed == \E w \in Worker : pc[w] \in {"get", "load", "store"}
DeletedFirst ==
  \A k \in 1..Len(Waiting) : Waiting[k] \in destroyed =>
    k = 1 /\ (Executed \/ (Unowned /\ size >= 1))
Oldest ==
  /\ \A m \in Msg : dispatch = <<m>> => m = Waiting[1]
  /\ refused # None => refused = Waiting[1]
  /\ \A w \in Worker : Serving(w) => tmp[w] = Waiting[1]
OneStore ==
  /\ \A t, u \in Thread : pc[t] = "store" /\ pc[u] = "store" => t = u
  /\ \A t \in Thread : pc[t] = "store" => loaded[t] = size

InOrder == Counted /\ Newest /\ Distinct /\ DeletedFirst /\ Oldest /\ OneStore
AtomicInv == Inv /\ (atomic => InOrder)

LEMMA InitAtomic == Init => (atomic => InOrder)
<1> SUFFICES ASSUME Init PROVE InOrder
  OBVIOUS
<1>1. Waiting = <<>> /\ Len(<<>>) = 0
  BY DEF Init, Waiting, Thread
<1>2. \A t \in Thread : pc[t] = "idle"
  BY DEF Init
<1>3. dispatch = <<>> /\ refused = None /\ size = 0 /\ lockT = None
  BY DEF Init
<1>4. QED
  BY <1>1, <1>2, <1>3 DEF InOrder, Counted, Newest, Distinct, DeletedFirst, Oldest, OneStore,
                        Linking, Serving, Thread

(* How what waits changes: by a put(), by a get(), by nothing else.         *)
Advancing == \E w \in Worker : pc[w] = "advance"

LEMMA WaitingTyped ==
  ASSUME Inv
  PROVE  /\ Waiting \in Seq(Msg) /\ Len(Waiting) \in Nat
         /\ Advancing => list # <<>> /\ Waiting = Tail(list)
         /\ ~Advancing => Waiting = list
<1>1. list \in Seq(Msg)
  BY DEF Inv, TypeOK
<1>2. CASE Advancing
  <2>1. list # <<>> /\ Waiting = Tail(list)
    BY <1>2 DEF Inv, LockInv, Removing, Advancing, Waiting
  <2>2. QED
    BY <1>1, <1>2, <2>1
<1>3. CASE ~Advancing
  BY <1>1, <1>3 DEF Advancing, Waiting
<1>4. QED
  BY <1>2, <1>3

LEMMA WaitingStays ==
  ASSUME list' = list, \A w \in Worker : pc'[w] = "advance" <=> pc[w] = "advance"
  PROVE  Waiting' = Waiting
  BY DEF Waiting

LEMMA OwnerWaits ==
  ASSUME Inv, InOrder, ~Unowned \/ refused # None
  PROVE  Waiting # <<>> /\ size >= 1 /\ Len(Waiting) >= 1
<1>1. size \in Nat /\ size >= 1 /\ Len(Waiting) >= 1
  BY WaitingTyped DEF Inv, SizeInv, OwnerInv, InOrder, Counted
<1>2. Waiting # <<>>
  BY <1>1
<1>3. QED
  BY <1>1, <1>2

(* What an owner has not executed yet was not deleted. *)
LEMMA NothingDeleted ==
  ASSUME Inv, InOrder, dispatch # <<>> \/ \E w \in Worker : Owns(w) /\ pc[w] \in {"call", "advance"}
  PROVE  \A k \in 1..Len(Waiting) : Waiting[k] \notin destroyed
<1>1. ~Unowned
  BY DEF Unowned
<1>2. ~Executed
  BY DEF Executed, Inv, OwnerInv, Owns
<1>3. QED
  BY <1>1, <1>2 DEF InOrder, DeletedFirst

LEMMA PutLinkInOrder ==
  ASSUME Inv, InOrder, NEW p \in Producer, NEW m \in Msg, PutLink(p, m) PROVE InOrder'
<1>1. /\ pc[p] = "idle" /\ lockT = None /\ list' = Append(list, m) /\ lockT' = p /\ m \notin Held
      /\ tmp' = [tmp EXCEPT ![p] = m] /\ destroyed' = destroyed \ {m} /\ pc' = [pc EXCEPT ![p] = "load"]
      /\ UNCHANGED <<size, dispatch, refused, loaded>>
  BY DEF PutLink, Goto
<1>2. p \in Thread /\ p # None /\ p \notin Worker
  BY ThreadsApart
<1>3. /\ pc'[p] = "load" /\ tmp'[p] = m /\ \A u \in Thread \ {p} : pc'[u] = pc[u] /\ tmp'[u] = tmp[u]
      /\ \A w \in Worker : pc'[w] = pc[w] /\ tmp'[w] = tmp[w]
  <2>1. /\ pc'[p] = "load" /\ tmp'[p] = m
        /\ \A u \in Thread \ {p} : pc'[u] = pc[u] /\ tmp'[u] = tmp[u]
    BY <1>1, <1>2, OneThread, Zenon
  <2>2. QED
    BY <1>2, <2>1, ThreadsApart
<1>4. \A k \in 1..Len(list) : list[k] # m
  BY <1>1 DEF Held
<1>5. /\ Waiting \in Seq(Msg) /\ Len(Waiting) \in Nat /\ Waiting' = Append(Waiting, m)
      /\ \A k \in 1..Len(Waiting) : Waiting[k] # m
  <2>1. Advancing' <=> Advancing
    BY <1>3 DEF Advancing
  <2>2. list \in Seq(Msg)
    BY DEF Inv, TypeOK
  <2>3. CASE Advancing
    <3>1. list # <<>> /\ Waiting = Tail(list) /\ Waiting' = Tail(list')
      BY <2>1, <2>3, WaitingTyped DEF Waiting, Advancing
    <3>2. /\ Tail(Append(list, m)) = Append(Tail(list), m)
          /\ \A k \in 1..Len(Tail(list)) : k + 1 \in 1..Len(list) /\ Tail(list)[k] = list[k + 1]
      BY <2>2, <3>1
    <3>3. QED
      BY <1>1, <1>4, <3>1, <3>2, WaitingTyped
  <2>4. CASE ~Advancing
    BY <1>1, <1>4, <2>1, <2>4, WaitingTyped DEF Waiting, Advancing
  <2>5. QED
    BY <2>3, <2>4
<1>6. /\ Len(Waiting') = Len(Waiting) + 1 /\ Waiting'[Len(Waiting')] = m
      /\ \A k \in 1..Len(Waiting) : Waiting'[k] = Waiting[k]
      /\ \A k \in 1..Len(Waiting') : k \in 1..Len(Waiting) \/ Waiting'[k] = m
  BY <1>5
<1>7. Counted'
  BY <1>1, <1>2, <1>6 DEF InOrder, Counted, Inv, SizeInv
<1>8. Newest'
  BY <1>1, <1>2, <1>3, <1>6, ThreadsApart DEF Newest, Inv, LockInv, Linking
<1>9. Distinct'
  BY <1>5, <1>6 DEF InOrder, Distinct
<1>10. DeletedFirst'
  <2> SUFFICES ASSUME NEW k \in 1..Len(Waiting'), Waiting'[k] \in destroyed'
               PROVE  k = 1 /\ (Executed' \/ (Unowned' /\ size' >= 1))
    BY DEF DeletedFirst
  <2>1. k \in 1..Len(Waiting) /\ Waiting[k] \in destroyed
    BY <1>1, <1>6
  <2>2. (Executed' <=> Executed) /\ (Unowned' <=> Unowned) /\ size' = size
    BY <1>1, <1>3 DEF Executed, Unowned, Owns
  <2>3. QED
    BY <2>1, <2>2 DEF InOrder, DeletedFirst
<1>11. Oldest'
  <2> SUFFICES ASSUME ~Unowned \/ refused # None PROVE Oldest'
    <3>1. CASE Unowned /\ refused = None
      <4>1. dispatch' = <<>> /\ refused' = None /\ \A w \in Worker : ~Serving(w)'
        BY <1>1, <1>3, <3>1 DEF Unowned, Owns, Serving
      <4>2. QED
        BY <4>1 DEF Oldest
    <3>2. QED
      BY <3>1
  <2>1. Waiting'[1] = Waiting[1]
    BY <1>5, <1>6, OwnerWaits
  <2>2. QED
    BY <1>1, <1>3, <2>1 DEF InOrder, Oldest, Serving
<1>12. OneStore'
  BY <1>1, <1>2, <1>3 DEF InOrder, OneStore
<1>13. QED
  BY <1>7, <1>8, <1>9, <1>10, <1>11, <1>12 DEF InOrder

LEMMA LoadInOrder ==
  ASSUME Inv, atomic, InOrder, NEW t \in Thread, Load(t) PROVE InOrder'
<1>1. /\ pc[t] = "load" /\ loaded' = [loaded EXCEPT ![t] = size] /\ pc' = [pc EXCEPT ![t] = "store"]
      /\ \A u \in Thread : pc[u] # "store"
      /\ UNCHANGED <<list, size, lockT, dispatch, refused, destroyed, tmp>>
  BY DEF Load, Goto, mailbox
<1>2. /\ pc'[t] = "store" /\ loaded'[t] = size /\ \A u \in Thread \ {t} : pc'[u] = pc[u]
  BY <1>1, OneThread
<1>3. Waiting' = Waiting
  BY <1>1, <1>2, WaitingStays, ThreadsApart
<1>4. /\ \A p \in Producer : Linking(p)' <=> Linking(p)
      /\ \A w \in Worker : (Serving(w)' <=> Serving(w)) /\ (Owns(w)' <=> Owns(w))
      /\ Executed' <=> Executed
  <2>1. \A u \in Thread \ {t} : loaded'[u] = loaded[u]
    BY <1>1, OneThread
  <2>2. QED
    BY <1>1, <1>2, <2>1, ThreadsApart DEF Linking, Serving, Owns, Executed
<1>5. Counted' /\ Distinct'
  BY <1>1, <1>3 DEF InOrder, Counted, Distinct
<1>6. Newest' /\ Oldest'
  BY <1>1, <1>3, <1>4 DEF InOrder, Newest, Oldest
<1>7. DeletedFirst'
  BY <1>1, <1>3, <1>4 DEF InOrder, DeletedFirst, Unowned
<1>8. OneStore'
  BY <1>1, <1>2 DEF OneStore
<1>9. QED
  BY <1>5, <1>6, <1>7, <1>8 DEF InOrder

(* The put() that posts finds nothing but its own message.                  *)
LEMMA PutStoreInOrder ==
  ASSUME Inv, InOrder, NEW p \in Producer, PutStore(p) PROVE InOrder'
<1>1. /\ pc[p] = "store" /\ size' = loaded[p] + 1 /\ lockT' = None
      /\ \/ size' # 1 /\ dispatch' = dispatch /\ refused' = refused
         \/ size' = 1 /\ dispatch' = Append(dispatch, tmp[p]) /\ refused' = refused
         \/ size' = 1 /\ dispatch' = dispatch /\ refused' = tmp[p]
      /\ loaded' = [loaded EXCEPT ![p] = 0] /\ tmp' = [tmp EXCEPT ![p] = None]
      /\ pc' = [pc EXCEPT ![p] = "idle"] /\ UNCHANGED <<list, destroyed>>
  BY DEF PutStore, Goto, Post
<1>2. p \in Thread /\ p # None /\ p \notin Worker
  BY ThreadsApart
<1>3. /\ pc'[p] = "idle" /\ \A u \in Thread \ {p} : pc'[u] = pc[u] /\ tmp'[u] = tmp[u]
      /\ \A u \in Thread \ {p} : loaded'[u] = loaded[u]
      /\ \A w \in Worker : pc'[w] = pc[w] /\ tmp'[w] = tmp[w] /\ loaded'[w] = loaded[w]
  <2>1. /\ pc'[p] = "idle" /\ \A u \in Thread \ {p} : pc'[u] = pc[u] /\ tmp'[u] = tmp[u]
        /\ \A u \in Thread \ {p} : loaded'[u] = loaded[u]
    BY <1>1, <1>2, OneThread, Zenon
  <2>2. QED
    BY <1>2, <2>1, ThreadsApart
<1>4. /\ loaded[p] = size /\ size \in Nat /\ size' = size + 1 /\ lockT = p
      /\ \A u \in Thread \ {p} : pc[u] # "store"
  BY <1>1, <1>2 DEF InOrder, OneStore, Inv, SizeInv, LockInv, Linking
<1>5. Waiting' = Waiting /\ Len(Waiting) = size + 1
  BY <1>1, <1>2, <1>3, <1>4, WaitingStays DEF InOrder, Counted
<1>6. Counted' /\ Distinct'
  BY <1>1, <1>4, <1>5 DEF InOrder, Counted, Distinct
<1>7. Newest'
  BY <1>1, <1>2, <1>3, <1>4, ThreadsApart DEF Newest, Inv, LockInv, Linking
<1>8. OneStore'
  BY <1>3, <1>4 DEF OneStore
<1>9. /\ \A w \in Worker : (Owns(w)' <=> Owns(w)) /\ (Serving(w)' <=> Serving(w))
      /\ Executed' <=> Executed
  BY <1>3 DEF Owns, Serving, Executed
<1>10. CASE size = 0
  <2>1. /\ Unowned /\ (dispatch' = <<>> \/ dispatch' = <<tmp[p]>>)
        /\ refused' = None \/ refused' = tmp[p]
    <3>1. Unowned /\ refused = None
      BY <1>10 DEF Inv, OwnerInv
    <3>2. /\ dispatch = <<>> /\ (dispatch' = dispatch \/ dispatch' = Append(dispatch, tmp[p]))
          /\ refused' = None \/ refused' = tmp[p]
      BY <1>1, <3>1 DEF Unowned
    <3>3. QED
      BY <3>1, <3>2
  <2>2. Waiting[1] = tmp[p]
    BY <1>1, <1>4, <1>5, <1>10 DEF InOrder, Newest, Linking
  <2>3. Oldest'
    BY <1>5, <1>9, <2>1, <2>2 DEF Oldest, Unowned, Owns, Serving
  <2>4. \A k \in 1..Len(Waiting) : Waiting[k] \notin destroyed
    BY <1>10, <2>1 DEF InOrder, DeletedFirst, Executed, Unowned, Owns
  <2>5. DeletedFirst'
    BY <1>1, <1>5, <2>4 DEF DeletedFirst
  <2>6. QED
    BY <1>6, <1>7, <1>8, <2>3, <2>5 DEF InOrder
<1>11. CASE size # 0
  <2>1. dispatch' = dispatch /\ refused' = refused /\ size >= 1 /\ size' >= 1
    BY <1>1, <1>4, <1>11
  <2>2. Oldest'
    BY <1>3, <1>5, <1>9, <2>1 DEF InOrder, Oldest
  <2>3. DeletedFirst'
    BY <1>1, <1>5, <1>9, <2>1 DEF InOrder, DeletedFirst, Unowned
  <2>4. QED
    BY <1>6, <1>7, <1>8, <2>2, <2>3 DEF InOrder
<1>12. QED
  BY <1>10, <1>11

LEMMA TakeInOrder ==
  ASSUME Inv, InOrder, NEW w \in Worker, Take(w) PROVE InOrder'
<1>1. /\ pc[w] = "idle" /\ dispatch # <<>> /\ dispatch' = Tail(dispatch)
      /\ tmp' = [tmp EXCEPT ![w] = Head(dispatch)] /\ pc' = [pc EXCEPT ![w] = "call"]
      /\ UNCHANGED <<list, size, lockT, refused, destroyed, loaded>>
  BY DEF Take, Goto, mailbox
<1>2. w \in Thread /\ w \notin Producer
  BY ThreadsApart
<1>3. PICK m \in Msg : dispatch = <<m>>
  BY <1>1 DEF Inv, OwnerInv
<1>4. /\ pc'[w] = "call" /\ tmp'[w] = m /\ dispatch' = <<>>
      /\ \A u \in Thread \ {w} : pc'[u] = pc[u] /\ tmp'[u] = tmp[u]
  <2>1. tmp' = [tmp EXCEPT ![w] = m] /\ dispatch' = <<>>
    BY <1>1, <1>3
  <2>2. pc'[w] = "call" /\ \A u \in Thread \ {w} : pc'[u] = pc[u]
    BY <1>1, <1>2, OneThread
  <2>3. tmp'[w] = m /\ \A u \in Thread \ {w} : tmp'[u] = tmp[u]
    BY <1>1, <1>2, <2>1, OneThread
  <2>4. QED
    BY <2>1, <2>2, <2>3
<1>5. Waiting' = Waiting
  BY <1>1, <1>2, <1>4, WaitingStays, ThreadsApart
<1>6. Counted' /\ Distinct'
  BY <1>1, <1>5 DEF InOrder, Counted, Distinct
<1>7. Newest'
  BY <1>2, <1>4, <1>5, ThreadsApart DEF InOrder, Newest, Linking
<1>8. DeletedFirst'
  BY <1>1, <1>5, NothingDeleted DEF DeletedFirst
<1>9. Oldest'
  <2>1. m = Waiting[1]
    BY <1>3 DEF InOrder, Oldest
  <2>2. \A v \in Worker : Serving(v)' => v = w
    BY <1>1, <1>4, ThreadsApart DEF Inv, OwnerInv, Owns, Serving
  <2>3. refused' = None
    BY <1>1 DEF Inv, OwnerInv, Unowned
  <2>4. QED
    BY <1>4, <1>5, <2>1, <2>2, <2>3 DEF Oldest
<1>10. OneStore'
  BY <1>1, <1>2, <1>4 DEF InOrder, OneStore
<1>11. QED
  BY <1>6, <1>7, <1>8, <1>9, <1>10 DEF InOrder

(* An owner that leaves its mailbox, hands it on or takes it on, with the   *)
(* first message that waits as the next; others are not in execute().       *)
LEMMA OwnerGoesOnInOrder ==
  ASSUME Inv, InOrder, NEW w \in Worker, Owns(w), NEW m,
         Stops(w) \/ (m \in Msg /\ m = Waiting[1] /\ (Posts(w, m) \/ TakesOn(w, m))),
         refused' \in {None, Waiting[1]}, Waiting' = Waiting, size' = size, lockT' = lockT,
         pc[w] # "store", \A u \in Thread \ {w} : loaded'[u] = loaded[u]
  PROVE  /\ Counted' /\ Newest' /\ Distinct' /\ Oldest' /\ OneStore'
         /\ Stops(w) => Unowned' /\ size' >= 1
<1>1. w \in Thread /\ w \notin Producer
  BY ThreadsApart
<1> DEFINE Goes(step, x) ==
             /\ pc' = [pc EXCEPT ![w] = step] /\ tmp' = [tmp EXCEPT ![w] = x]
             /\ step = "call" => m \in Msg /\ x = m /\ m = Waiting[1] /\ dispatch' = dispatch /\ ~Stops(w)
             /\ dispatch' = dispatch \/ (m = Waiting[1] /\ dispatch' = Append(dispatch, m))
             /\ Stops(w) => dispatch' = dispatch
<1>2. PICK step \in {"idle", "call"} : \E x : Goes(step, x)
  <2>1. CASE Stops(w)
    <3>1. Goes("idle", None)
      BY <2>1 DEF Stops
    <3>2. QED
      BY <3>1
  <2>2. CASE ~Stops(w) /\ m \in Msg /\ m = Waiting[1] /\ Posts(w, m)
    <3>1. Goes("idle", None)
      BY <2>2 DEF Posts
    <3>2. QED
      BY <3>1
  <2>3. CASE ~Stops(w) /\ m \in Msg /\ m = Waiting[1] /\ TakesOn(w, m)
    <3>1. Goes("call", m)
      BY <2>3 DEF TakesOn
    <3>2. QED
      BY <3>1
  <2>4. QED
    BY <2>1, <2>2, <2>3
<1>3. PICK x : Goes(step, x)
  BY <1>2
<1>4. /\ pc'[w] = step /\ \A u \in Thread \ {w} : pc'[u] = pc[u]
      /\ tmp'[w] = x /\ \A u \in Thread \ {w} : tmp'[u] = tmp[u]
  <2>1. pc'[w] = step /\ \A u \in Thread \ {w} : pc'[u] = pc[u]
    BY <1>1, <1>2, <1>3, OneThread
  <2>2. tmp'[w] = x /\ \A u \in Thread \ {w} : tmp'[u] = tmp[u]
    BY <1>1, <1>2, <1>3, OneThread
  <2>3. QED
    BY <2>1, <2>2
<1>5. /\ dispatch = <<>> /\ size >= 1 /\ \A v \in Worker : Owns(v) => v = w
  BY DEF Inv, OwnerInv, Unowned
<1>6. Counted' /\ Distinct'
  BY DEF InOrder, Counted, Distinct
<1>7. Newest'
  BY <1>1, <1>4, ThreadsApart DEF InOrder, Newest, Linking
<1>8. OneStore'
  BY <1>1, <1>4 DEF InOrder, OneStore
<1>9. dispatch' = <<>> \/ (m = Waiting[1] /\ dispatch' = <<m>>)
  BY <1>2, <1>3, <1>5
<1>10. \A v \in Worker : Serving(v)' => v = w /\ step = "call"
  BY <1>4, <1>5, ThreadsApart DEF Serving, Owns
<1>11. Oldest'
  <2>1. \A v \in Worker : Serving(v)' => tmp'[v] = Waiting[1]
    BY <1>2, <1>3, <1>4, <1>10
  <2>2. \A n \in Msg : dispatch' = <<n>> => n = Waiting[1]
    BY <1>9
  <2>3. refused' # None => refused' = Waiting[1]
    OBVIOUS
  <2>4. QED
    BY <2>1, <2>2, <2>3 DEF Oldest
<1>12. ASSUME Stops(w) PROVE Unowned' /\ size' >= 1
  <2>1. step = "idle" /\ dispatch' = <<>>
    BY <1>2, <1>3, <1>5, <1>12
  <2>2. \A v \in Worker : ~Owns(v)'
    BY <1>4, <1>5, <2>1, ThreadsApart DEF Owns
  <2>3. QED
    BY <1>5, <2>1, <2>2 DEF Unowned
<1>13. QED
  BY <1>6, <1>7, <1>8, <1>11, <1>12

LEMMA CallEndInOrder ==
  ASSUME Inv, InOrder, NEW w \in Worker, CallEnd(w) PROVE InOrder'
<1>1. /\ pc[w] = "call" /\ Leave(w)
      /\ UNCHANGED <<list, size, lockT, dispatch, refused, destroyed, loaded>>
  BY DEF CallEnd, mailbox
<1>2. Owns(w) /\ w \in Thread /\ Stops(w) /\ refused' = None
  <2>1. Owns(w) /\ w \in Thread
    BY <1>1, ThreadsApart DEF Owns
  <2>2. refused = None
    BY <2>1 DEF Inv, OwnerInv, Unowned
  <2>3. QED
    BY <1>1, <2>1, <2>2, LeaveTyped DEF Stops
<1>3. pc'[w] = "idle" /\ \A u \in Thread \ {w} : pc'[u] = pc[u]
  BY <1>2, OneThread DEF Stops
<1>4. Waiting' = Waiting
  BY <1>1, <1>3, WaitingStays, ThreadsApart
<1>5. Counted' /\ Newest' /\ Distinct' /\ Oldest' /\ OneStore'
  BY <1>1, <1>2, <1>4, OwnerGoesOnInOrder
<1>6. DeletedFirst'
  BY <1>1, <1>2, <1>4, NothingDeleted DEF DeletedFirst
<1>7. QED
  BY <1>5, <1>6 DEF InOrder

LEMMA CallInOrder ==
  ASSUME Inv, InOrder, NEW w \in Worker, NEW res \in Results, Call(w, res) PROVE InOrder'
<1>1. /\ pc[w] = "call" /\ UNCHANGED <<list, size, lockT, loaded>>
      /\ destroyed' = IF "DEL" \in res THEN destroyed \cup {tmp[w]} ELSE destroyed
  BY DEF Call
<1>2. /\ tmp[w] \in Msg /\ Owns(w) /\ w \in Thread /\ w \notin Producer /\ tmp[w] = Waiting[1]
      /\ refused = None
  <2>1. tmp[w] \in Msg /\ Owns(w) /\ w \in Thread /\ w \notin Producer /\ tmp[w] = Waiting[1]
    BY <1>1, ThreadsApart DEF Inv, LockInv, Serving, Owns, InOrder, Oldest
  <2>2. QED
    BY <2>1 DEF Inv, OwnerInv, Unowned
<1>3. /\ Waiting # <<>> /\ Len(Waiting) \in Nat /\ Len(Waiting) >= 1
      /\ \A k \in 1..Len(Waiting) : Waiting[k] \notin destroyed
  BY <1>1, <1>2, OwnerWaits, NothingDeleted, WaitingTyped DEF Unowned
<1>4. \A k \in 1..Len(Waiting) : Waiting[k] \in destroyed' => k = 1 /\ "DEL" \in res
  BY <1>1, <1>2, <1>3 DEF InOrder, Distinct
<1>5. CASE "KEEP" \in res
  <2>1. PICK leaving : GoOn(w, Kept(res, tmp[w]), leaving)
    BY <1>5 DEF Call
  <2>2. /\ Stops(w) \/ Posts(w, tmp[w]) \/ TakesOn(w, tmp[w])
        /\ "DEL" \in res => Stops(w)
        /\ refused' \in {None, Waiting[1]}
    BY <1>2, <2>1, WaysOn, NoneAssumption DEF Kept
  <2>3. \A u \in Worker : pc'[u] = "advance" <=> pc[u] = "advance"
    <3>1. PICK step \in {"idle", "call"} : pc' = [pc EXCEPT ![w] = step]
      BY <2>2 DEF Stops, Posts, TakesOn
    <3>2. pc'[w] = step /\ \A u \in Thread \ {w} : pc'[u] = pc[u]
      BY <1>2, <3>1, OneThread
    <3>3. QED
      BY <1>1, <3>2, ThreadsApart
  <2>4. Waiting' = Waiting
    BY <1>1, <2>3, WaitingStays
  <2>5. /\ Counted' /\ Newest' /\ Distinct' /\ Oldest' /\ OneStore'
        /\ Stops(w) => Unowned' /\ size' >= 1
    BY <1>1, <1>2, <2>2, <2>4, OwnerGoesOnInOrder
  <2>6. DeletedFirst'
    BY <1>4, <2>2, <2>4, <2>5 DEF DeletedFirst
  <2>7. QED
    BY <2>5, <2>6 DEF InOrder
<1>6. CASE "KEEP" \notin res
  <2>1. pc' = [pc EXCEPT ![w] = "get"] /\ tmp' = tmp /\ dispatch' = dispatch /\ refused' = refused
    BY <1>6 DEF Call, Goto
  <2>2. pc'[w] = "get" /\ \A u \in Thread \ {w} : pc'[u] = pc[u]
    BY <1>2, <2>1, OneThread
  <2>3. Waiting' = Waiting
    BY <1>1, <2>2, WaitingStays, ThreadsApart
  <2>4. Counted' /\ Distinct'
    BY <1>1, <2>3 DEF InOrder, Counted, Distinct
  <2>5. Newest' /\ Oldest'
    BY <1>1, <1>2, <2>1, <2>2, <2>3, ThreadsApart DEF InOrder, Newest, Oldest, Linking, Serving
  <2>6. OneStore'
    BY <1>1, <1>2, <2>2 DEF InOrder, OneStore
  <2>7. Executed'
    BY <2>2 DEF Executed
  <2>8. DeletedFirst'
    BY <1>4, <2>3, <2>7 DEF DeletedFirst
  <2>9. QED
    BY <2>4, <2>5, <2>6, <2>8 DEF InOrder
<1>7. QED
  BY <1>5, <1>6

LEMMA GetLockInOrder ==
  ASSUME Inv, InOrder, NEW w \in Worker, GetLock(w) PROVE InOrder'
<1>1. /\ pc[w] = "get" /\ pc' = [pc EXCEPT ![w] = "load"]
      /\ UNCHANGED <<list, size, lockT, dispatch, refused, destroyed, tmp, loaded>>
  BY DEF GetLock, Goto
<1>2. w \in Thread /\ w \notin Producer
  BY ThreadsApart
<1>3. pc'[w] = "load" /\ \A u \in Thread \ {w} : pc'[u] = pc[u]
  BY <1>1, <1>2, OneThread
<1>4. Waiting' = Waiting
  BY <1>1, <1>3, WaitingStays, ThreadsApart
<1>5. Counted' /\ Distinct'
  BY <1>1, <1>4 DEF InOrder, Counted, Distinct
<1>6. Newest' /\ Oldest'
  BY <1>1, <1>2, <1>3, <1>4, ThreadsApart DEF InOrder, Newest, Oldest, Linking, Serving
<1>7. Executed /\ Executed'
  BY <1>1, <1>3 DEF Executed
<1>8. DeletedFirst'
  BY <1>1, <1>4, <1>7 DEF InOrder, DeletedFirst
<1>9. OneStore'
  BY <1>1, <1>2, <1>3 DEF InOrder, OneStore
<1>10. QED
  BY <1>5, <1>6, <1>8, <1>9 DEF InOrder

(* An owner never finds the list empty: the get() that empties it stores a  *)
(* _size of 0 or leaves the message of a put() under way.                   *)
LEMMA GetEmptyInOrder ==
  ASSUME Inv, InOrder, NEW w \in Worker, GetEmpty(w) PROVE InOrder'
<1>1. pc[w] = "get" /\ list = <<>>
  BY DEF GetEmpty
<1>2. ~Unowned
  BY <1>1 DEF Unowned, Owns
<1>3. Waiting = <<>>
  BY <1>1, WaitingTyped
<1>4. QED
  BY <1>2, <1>3, OwnerWaits

(* The message that get() is to remove waits no more once --_size is stored.*)
LEMMA GetStoreInOrder ==
  ASSUME Inv, InOrder, NEW w \in Worker, GetStore(w) PROVE InOrder'
<1>1. /\ pc[w] = "store" /\ size' = loaded[w] - 1 /\ loaded' = [loaded EXCEPT ![w] = loaded[w] - 1]
      /\ pc' = [pc EXCEPT ![w] = "advance"]
      /\ UNCHANGED <<list, lockT, dispatch, refused, destroyed, tmp>>
  BY DEF GetStore, Goto
<1>2. w \in Thread /\ w \notin Producer /\ Owns(w) /\ ~Unowned
  BY <1>1, ThreadsApart DEF Owns, Unowned
<1>3. pc'[w] = "advance" /\ \A u \in Thread \ {w} : pc'[u] = pc[u]
  BY <1>1, <1>2, OneThread
<1>4. dispatch = <<>> /\ refused = None /\ \A v \in Worker : Owns(v) => v = w
  BY <1>2 DEF Inv, OwnerInv, Unowned
<1>5. size \in Nat /\ size >= 1 /\ size' = size - 1 /\ Waiting # <<>>
  BY <1>1, <1>2, OwnerWaits DEF InOrder, OneStore, Inv, SizeInv
<1>6. ~Advancing
  BY <1>1, ThreadsApart DEF Advancing, Inv, LockInv, Removing
<1>7. Waiting' = Tail(Waiting)
  BY <1>1, <1>3, <1>6, WaitingTyped DEF Waiting
<1>8. /\ Len(Waiting) \in Nat /\ Len(Waiting') = Len(Waiting) - 1
      /\ \A k \in 1..Len(Waiting') : k + 1 \in 1..Len(Waiting) /\ Waiting'[k] = Waiting[k + 1]
  <2>1. Waiting \in Seq(Msg) /\ Waiting # <<>>
    BY <1>5, WaitingTyped
  <2>2. QED
    BY <1>7, <2>1
<1>9. Counted'
  BY <1>1, <1>5, <1>8 DEF InOrder, Counted
<1>10. Newest'
  <2> SUFFICES ASSUME NEW p \in Producer, Linking(p)'
               PROVE  Waiting'[Len(Waiting')] = tmp'[p]
    BY DEF Newest
  <2>1. Linking(p) /\ lockT = p /\ p # None
    BY <1>2, <1>3, ThreadsApart DEF Linking, Inv, LockInv
  <2>2. Len(Waiting) = size + 1 /\ Waiting[Len(Waiting)] = tmp[p]
    BY <2>1 DEF InOrder, Counted, Newest
  <2>3. Len(Waiting') \in 1..Len(Waiting')
    BY <1>5, <1>8, <2>2
  <2>4. QED
    BY <1>1, <1>8, <2>2, <2>3
<1>11. Distinct'
  <2> SUFFICES ASSUME NEW i \in 1..Len(Waiting'), NEW j \in 1..Len(Waiting'),
                      Waiting'[i] = Waiting'[j]
               PROVE  i = j
    BY DEF Distinct
  <2>1. i + 1 = j + 1
    BY <1>8 DEF InOrder, Distinct
  <2>2. QED
    BY <1>8, <2>1
<1>12. DeletedFirst'
  <2> SUFFICES ASSUME NEW k \in 1..Len(Waiting'), Waiting'[k] \in destroyed PROVE FALSE
    BY <1>1 DEF DeletedFirst
  <2>1. k + 1 = 1
    BY <1>8 DEF InOrder, DeletedFirst
  <2>2. QED
    BY <1>8, <2>1
<1>13. Oldest'
  <2>1. \A v \in Worker : ~Serving(v)'
    BY <1>3, <1>4, ThreadsApart DEF Serving, Owns
  <2>2. QED
    BY <1>1, <1>4, <2>1 DEF Oldest
<1>14. OneStore'
  <2>1. \A u \in Thread : pc'[u] # "store"
    BY <1>1, <1>2, <1>3 DEF InOrder, OneStore
  <2>2. QED
    BY <2>1 DEF OneStore
<1>15. QED
  BY <1>9, <1>10, <1>11, <1>12, <1>13, <1>14 DEF InOrder

(* peek() comes when the head has moved, so it gives the oldest message.    *)
LEMMA GetAdvanceInOrder ==
  ASSUME Inv, InOrder, NEW w \in Worker, GetAdvance(w) PROVE InOrder'
<1> DEFINE peeked == IF loaded[w] > 0 /\ list' # <<>> THEN Head(list') ELSE None
<1>1. /\ pc[w] = "advance" /\ GoOn(w, peeked, last[w]) /\ list' = Tail(list)
      /\ loaded' = [loaded EXCEPT ![w] = 0]
      /\ UNCHANGED <<size, lockT, destroyed>>
  BY DEF GetAdvance
<1>2. w \in Thread /\ w \notin Producer /\ Waiting = list' /\ Waiting \in Seq(Msg)
  BY <1>1, ThreadsApart, WaitingTyped DEF Advancing
<1>3. Owns(w) => peeked \in Msg /\ peeked = Waiting[1]
  <2> SUFFICES ASSUME Owns(w) PROVE peeked \in Msg /\ peeked = Waiting[1]
    OBVIOUS
  <2>1. Waiting # <<>> /\ loaded[w] > 0
    BY <1>1, OwnerWaits DEF Unowned, Owns
  <2>2. QED
    BY <1>2, <2>1
<1>4. ~Owns(w) => peeked = None
  BY <1>1 DEF Owns
<1>5. peeked \in Msg \cup {None}
  BY <1>3, <1>4
<1> HIDE DEF peeked
<1>6. /\ Stops(w) \/ (peeked # None /\ (Posts(w, peeked) \/ TakesOn(w, peeked)))
      /\ refused' \in {refused, peeked} /\ (peeked = None => refused' = refused)
  BY <1>1, <1>5, WaysOn
<1>7. PICK step \in {"idle", "call"} : pc' = [pc EXCEPT ![w] = step]
  BY <1>6 DEF Stops, Posts, TakesOn
<1>8. /\ pc'[w] = step /\ \A u \in Thread \ {w} : pc'[u] = pc[u]
      /\ loaded'[w] = 0 /\ \A u \in Thread \ {w} : loaded'[u] = loaded[u]
  BY <1>1, <1>2, <1>7, OneThread
<1>9. Waiting' = Waiting
  <2>1. \A v \in Worker : pc'[v] # "advance"
    BY <1>1, <1>8, ThreadsApart DEF Inv, LockInv, Removing
  <2>2. QED
    BY <1>2, <2>1 DEF Waiting
<1>10. CASE Owns(w)
  <2>1. refused' \in {None, Waiting[1]}
    <3>1. refused = None
      BY <1>10 DEF Inv, OwnerInv, Unowned
    <3>2. QED
      BY <1>3, <1>6, <1>10, <3>1
  <2>2. /\ Counted' /\ Newest' /\ Distinct' /\ Oldest' /\ OneStore'
        /\ Stops(w) => Unowned' /\ size' >= 1
    BY <1>1, <1>3, <1>6, <1>8, <1>9, <1>10, <2>1, OwnerGoesOnInOrder
  <2>3. DeletedFirst'
    BY <1>1, <1>9, <1>10, NothingDeleted DEF DeletedFirst
  <2>4. QED
    BY <2>2, <2>3 DEF InOrder
<1>11. CASE ~Owns(w)
  <2>1. Stops(w) /\ refused' = refused
    BY <1>4, <1>6, <1>11
  <2>2. dispatch' = dispatch /\ tmp' = [tmp EXCEPT ![w] = None]
    BY <2>1 DEF Stops
  <2>3. pc'[w] = "idle" /\ \A u \in Thread \ {w} : tmp'[u] = tmp[u]
    <3>1. pc'[w] = "idle"
      BY <1>2, <2>1, OneThread DEF Stops
    <3>2. \A u \in Thread \ {w} : tmp'[u] = tmp[u]
      BY <1>2, <1>7, <2>2, OneThread
    <3>3. QED
      BY <3>1, <3>2
  <2>4. \A v \in Worker : (Owns(v)' <=> Owns(v)) /\ (Serving(v)' <=> Serving(v))
    BY <1>1, <1>8, <1>11, <2>3, ThreadsApart DEF Owns, Serving
  <2>5. Executed' <=> Executed
    BY <1>1, <1>8, <2>3, ThreadsApart DEF Executed
  <2>6. Counted' /\ Distinct'
    BY <1>1, <1>9 DEF InOrder, Counted, Distinct
  <2>7. Newest'
    BY <1>2, <1>8, <1>9, <2>3, ThreadsApart DEF InOrder, Newest, Linking
  <2>8. Oldest'
    <3>1. \A v \in Worker : Serving(v)' => v # w
      BY <2>3 DEF Serving
    <3>2. QED
      BY <1>9, <2>1, <2>2, <2>3, <2>4, <3>1, ThreadsApart DEF InOrder, Oldest
  <2>9. DeletedFirst'
    BY <1>1, <1>9, <2>2, <2>4, <2>5 DEF InOrder, DeletedFirst, Unowned
  <2>10. OneStore'
    <3>1. \A u \in Thread : pc'[u] = "store" => pc[u] = "store" /\ loaded'[u] = loaded[u]
      BY <1>8, <2>3
    <3>2. QED
      BY <1>1, <3>1 DEF InOrder, OneStore
  <2>11. QED
    BY <2>6, <2>7, <2>8, <2>9, <2>10 DEF InOrder
<1>12. QED
  BY <1>10, <1>11

LEMMA StepInOrder == AtomicInv /\ [Next]_vars => AtomicInv'
<1> SUFFICES ASSUME AtomicInv, [Next]_vars PROVE AtomicInv'
  OBVIOUS
<1>1. Inv /\ Inv'
  BY StepInv DEF AtomicInv
<1>2. atomic' = atomic
  BY DEF Next, Put, Execute, PutLink, Load, PutStore, Take, CallEnd, Call, GetLock, GetEmpty,
         GetStore, GetAdvance, vars
<1> SUFFICES ASSUME atomic PROVE InOrder'
  BY <1>1, <1>2 DEF AtomicInv
<1>3. InOrder
  BY DEF AtomicInv
<1>4. ASSUME NEW p \in Producer, Put(p) PROVE InOrder'
  BY <1>1, <1>3, <1>4, PutLinkInOrder, LoadInOrder, PutStoreInOrder, ThreadsApart DEF Put
<1>5. ASSUME NEW w \in Worker, Take(w) \/ Execute(w) PROVE InOrder'
  BY <1>1, <1>3, <1>5, TakeInOrder, CallEndInOrder, CallInOrder, GetLockInOrder, GetEmptyInOrder,
     LoadInOrder, GetStoreInOrder, GetAdvanceInOrder, ThreadsApart DEF Execute
<1>6. CASE UNCHANGED vars
  BY <1>3, <1>6 DEF vars, mailbox, thread, InOrder, Counted, Newest, Distinct, DeletedFirst,
                    Oldest, OneStore, Waiting, Linking, Serving, Executed, Unowned, Owns
<1>7. QED
  BY <1>4, <1>5, <1>6 DEF Next

LEMMA AtomicAlways == Spec => []AtomicInv
<1>1. Init => AtomicInv
  BY InitInv, InitAtomic DEF AtomicInv
<1>2. QED
  BY <1>1, StepInOrder, PTL DEF Spec

(* While no two updates of _size overlap, messages are executed in the      *)
(* order of the puts: the one dispatched or being executed is the oldest,   *)
(* and it is the one that get() removes.                                    *)
THEOREM OwnerHasOldestAlways == Spec => []OwnerHasOldest
<1>1. AtomicInv => OwnerHasOldest
  <2> SUFFICES ASSUME AtomicInv, atomic PROVE OwnerHasOldest
    BY DEF OwnerHasOldest
  <2>1. Inv /\ InOrder
    BY DEF AtomicInv
  <2>2. ~Unowned => Waiting # <<>> /\ Head(Waiting) = Waiting[1]
    BY <2>1, OwnerWaits, WaitingTyped
  <2>3. ASSUME NEW k \in 1 .. Len(dispatch)
        PROVE  Waiting # <<>> /\ dispatch[k] = Head(Waiting)
    <3>1. PICK m \in Msg : dispatch = <<m>>
      BY <2>1, <2>3 DEF Inv, OwnerInv
    <3>2. m = Waiting[1] /\ dispatch[k] = m /\ ~Unowned
      BY <2>1, <2>3, <3>1 DEF InOrder, Oldest, Unowned
    <3>3. QED
      BY <2>2, <3>2
  <2>4. ASSUME NEW w \in Worker, pc[w] \in {"call", "get", "load", "store"}
        PROVE  Waiting # <<>> /\ tmp[w] = Head(Waiting)
    BY <2>1, <2>2, <2>4 DEF InOrder, Oldest, Serving, Unowned, Owns
  <2>5. QED
    BY <2>3, <2>4 DEF OwnerHasOldest
<1>2. QED
  BY <1>1, AtomicAlways, PTL

(* While no two updates of _size overlap, no functor is called on a message *)
(* that was deleted.                                                        *)
THEOREM NoUseAfterDeleteAlways == Spec => []NoUseAfterDelete
<1>1. AtomicInv => NoUseAfterDelete
  <2> SUFFICES ASSUME AtomicInv, atomic, NEW w \in Worker, pc[w] = "call"
               PROVE  tmp[w] \notin destroyed
    BY DEF NoUseAfterDelete
  <2>1. Inv /\ InOrder /\ Owns(w) /\ Serving(w) /\ ~Unowned
    BY DEF AtomicInv, Owns, Serving, Unowned
  <2>2. 1 \in 1..Len(Waiting) /\ tmp[w] = Waiting[1]
    BY <2>1, OwnerWaits, WaitingTyped DEF InOrder, Oldest
  <2>3. QED
    BY <2>1, <2>2, NothingDeleted
<1>2. QED
  BY <1>1, AtomicAlways, PTL

(* Whatever is put after a post was refused: nothing is dispatched or       *)
(* executed any more, and while no two updates of _size overlap the refused *)
(* message stays the oldest of the mailbox.                                 *)
THEOREM RefusedStays == Spec => []RefusedForGood
<1>1. AtomicInv => RefusedForGood
  <2> SUFFICES ASSUME AtomicInv, refused # None PROVE RefusedForGood
    BY DEF RefusedForGood
  <2>1. dispatch = <<>> /\ \A w \in Worker : ~Owns(w)
    BY DEF AtomicInv, Inv, OwnerInv, Unowned
  <2>2. ASSUME atomic PROVE Waiting # <<>> /\ refused = Head(Waiting)
    <3>1. Inv /\ InOrder
      BY <2>2 DEF AtomicInv
    <3>2. Waiting # <<>> /\ Waiting \in Seq(Msg) /\ refused = Waiting[1]
      BY <3>1, OwnerWaits, WaitingTyped DEF InOrder, Oldest
    <3>3. QED
      BY <3>2
  <2>3. QED
    BY <2>1, <2>2 DEF RefusedForGood
<1>2. QED
  BY <1>1, AtomicAlways, PTL
===============================================================================
