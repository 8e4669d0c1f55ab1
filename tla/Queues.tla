------------------------------- MODULE Queues -------------------------------
(***************************************************************************)
(* The two queues of the library that no actor runs on: MsgQ on its spin   *)
(* lock, and LocklessQ in the hands of QTest. A behaviour is that of one   *)
(* of them; the other stays as it was made.                                *)
(***************************************************************************)
EXTENDS MsgQ, QTest

VARIABLES
  tried,                                    \* the queue in use, fixed
  lNext, lHead, lTail, lPc,                 \* next, head, tail and pc of LocklessQ
  tmpAtomic, emptyNode, size, running, active, made, tmp, node, taken

Lockless == INSTANCE LocklessQ WITH next <- lNext, head <- lHead, tail <- lTail, pc <- lPc
lockless == <<lNext, lHead, lTail, lPc, tmpAtomic, emptyNode, size, running, active, made, tmp,
              node, taken>>

QueuesInit ==
  /\ Init /\ Lockless!Init
  /\ \/ tried = "MsgQ" /\ active = Producer
     \/ tried = "LocklessQ" /\ shared = FALSE
QueuesNext ==
  \/ tried = "MsgQ" /\ Next /\ UNCHANGED <<tried, lockless>>
  \/ tried = "LocklessQ" /\ Lockless!Next /\ UNCHANGED <<tried, vars>>

(* The threads keep running; nobody has to call. *)
StepOfLocklessQ(A) == ~Lockless!Crashed /\ A /\ UNCHANGED <<tried, vars>>
QueuesSpec ==
  /\ QueuesInit /\ [][QueuesNext]_<<tried, vars, lockless>>
  /\ \A t \in Thread : WF_<<vars, lockless>>(Step(t) /\ UNCHANGED <<tried, lockless>>)
  /\ \A p \in Producer : WF_<<vars, lockless>>(
       tried = "LocklessQ" /\ StepOfLocklessQ(Lockless!Produce(p) /\ ~Lockless!Idle(p)))
  /\ \A c \in Consumer : WF_<<vars, lockless>>(
       tried = "LocklessQ" /\ StepOfLocklessQ(Lockless!Consume(c)))
-----------------------------------------------------------------------------
(* LocklessQ: with one producer every message is linked and taken once, in  *)
(* order, and no null pointer is followed.                                  *)
InOrderOnce == Lockless!InOrderOnce

(* LocklessQ: what one producer enqueued is taken, unless the test stops.   *)
Drained ==
  (tried = "LocklessQ" /\ Lockless!OneProducer /\ running)
    ~> (made = Len(taken) \/ ~running)
=============================================================================
