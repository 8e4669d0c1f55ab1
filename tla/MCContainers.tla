---------------------------- MODULE MCContainers ----------------------------
EXTENDS Containers, TLC

CONSTANTS u1, u2, u3, q1, q2

Alone == u1 :> q1 @@ u2 :> q2 @@ u3 :> Null
Together == u1 :> q1 @@ u2 :> q1 @@ u3 :> Null
Mixed == u1 :> q1 @@ u2 :> q1 @@ u3 :> q2

(* Every class of list, with marks given and not, with lists used by one    *)
(* thread and by several.                                                   *)
Instance(class, synchronized, ownerFreed, void, high, user) ==
  [allocator |-> class, synchronized |-> synchronized, ownerFreed |-> ownerFreed, void |-> void,
   marks |-> [high |-> high, low |-> 1], user |-> user]
MCUse ==
  {Instance("dummy", TRUE, FALSE, FALSE, 0, Alone), Instance("dummy", TRUE, FALSE, TRUE, 0, Alone),
   Instance("contention", FALSE, FALSE, FALSE, 2, Alone),
   Instance("contention", TRUE, FALSE, TRUE, 0, Together),
   Instance("contention", TRUE, TRUE, FALSE, 0, Alone),
   Instance("memory", TRUE, FALSE, FALSE, 0, Mixed)}
MCDefault == [high |-> 1, low |-> 0]

Symmetry == Permutations(Key) \cup Permutations(Value)
=============================================================================
