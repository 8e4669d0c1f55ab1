------------------------------ MODULE SpinLock ------------------------------
(***************************************************************************)
(* obLib::SpinLock, the lock of every container of the library: lock()     *)
(* exchanges LOCKED into the word and owns the lock if it was UNLOCKED; a  *)
(* thread that found it LOCKED spins on plain reads until it reads         *)
(* UNLOCKED and then exchanges again. unlock() writes UNLOCKED. SpinGuard  *)
(* locks in its constructor and unlocks in its destructor.                 *)
(***************************************************************************)
EXTENDS Naturals

CONSTANT Thread

VARIABLES
  word,     \* _lock[0]
  pc        \* where each thread is in lock(), unlock() or outside

vars == <<word, pc>>

UNLOCKED == 0
LOCKED == 1

Init ==
  /\ word = UNLOCKED
  /\ pc = [t \in Thread |-> "outside"]

(* A thread calls lock(). *)
Call(t) ==
  /\ pc[t] = "outside"
  /\ pc' = [pc EXCEPT ![t] = "exchange"]
  /\ UNCHANGED word

(* xchg(_lock, LOCKED): one atomic read and write. *)
Exchange(t) ==
  /\ pc[t] = "exchange"
  /\ word' = LOCKED
  /\ pc' = [pc EXCEPT ![t] = IF word # UNLOCKED THEN "spin" ELSE "inside"]

(* Mutant of Spin: the read of UNLOCKED is taken for the lock. *)
SpinEnters(t) ==
  /\ pc[t] = "spin"
  /\ word = UNLOCKED
  /\ pc' = [pc EXCEPT ![t] = "inside"]
  /\ UNCHANGED word

(* while(_lock[0]); leaves the inner loop on a read of UNLOCKED. *)
Spin(t) ==
  /\ pc[t] = "spin"
  /\ word = UNLOCKED
  /\ pc' = [pc EXCEPT ![t] = "exchange"]
  /\ UNCHANGED word

(* Mutant of Unlock: the word is left LOCKED. *)
UnlockKeepsWord(t) ==
  /\ pc[t] = "inside"
  /\ pc' = [pc EXCEPT ![t] = "outside"]
  /\ UNCHANGED word

Unlock(t) ==
  /\ pc[t] = "inside"
  /\ word' = UNLOCKED
  /\ pc' = [pc EXCEPT ![t] = "outside"]

Step(t) == Call(t) \/ Exchange(t) \/ Spin(t) \/ Unlock(t)
Next == \E t \in Thread : Step(t)
Spec == Init /\ [][Next]_vars

(* Threads keep running: one in lock() goes on, one inside leaves. Nobody   *)
(* has to call lock() again.                                                *)
Fairness == \A t \in Thread : WF_vars(Exchange(t)) /\ WF_vars(Spin(t)) /\ WF_vars(Unlock(t))
FairSpec == Spec /\ Fairness
-----------------------------------------------------------------------------
TypeOK ==
  /\ word \in {UNLOCKED, LOCKED}
  /\ pc \in [Thread -> {"outside", "exchange", "spin", "inside"}]

(* What SpinGuard is used for: the code between lock() and unlock() is run  *)
(* by one thread at a time.                                                 *)
MutualExclusion == \A t, u \in Thread : pc[t] = "inside" /\ pc[u] = "inside" => t = u

(* The word tells whether somebody is inside: an exchange over a word that  *)
(* was LOCKED changed nothing, and the unlock of the owner is not undone.   *)
WordIsOwned == word = LOCKED <=> \E t \in Thread : pc[t] = "inside"

(* The lock is never lost: a thread that wants it, or another, gets in.     *)
(* (It may be another for ever: the lock has no queue.)                     *)
SomeoneEnters ==
  (\E t \in Thread : pc[t] \in {"exchange", "spin"}) ~> (\E t \in Thread : pc[t] = "inside")
=============================================================================
