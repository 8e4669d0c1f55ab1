----------------------------- MODULE Containers -----------------------------
(***************************************************************************)
(* The containers of the library next to each other: the two-lock list     *)
(* MsgList, the hash map and the free lists with their allocators. A       *)
(* behaviour is that of one of them, the others stay as they were made or  *)
(* are not made at all.                                                    *)
(***************************************************************************)
EXTENDS MsgList

CONSTANTS
  Key, Value, Empty, MaxBuckets,            \* HashMap
  Taker, Container, Use, Default, MaxNew    \* FreeList, Taker being its threads

VARIABLES
  tried,                                    \* the container in use, fixed
  buckets, used, hashOf,                    \* HashMap
  use, free, fHead, fTail, fSize, fNext, owner, held, fPc, mine, other, home  \* FreeList

Table == INSTANCE HashMap WITH size <- used
Free == INSTANCE FreeList WITH
  Thread <- Taker, list <- free, head <- fHead, tail <- fTail, size <- fSize, next <- fNext,
  pc <- fPc

ASSUME EmptyAssumption == Empty \notin Key \X Value
ASSUME BucketsAssumption == MaxBuckets \in Table!Powers
ASSUME UseAssumption ==
  /\ Use \subseteq Free!Uses /\ Default \in [high : Nat, low : Nat] /\ MaxNew \in Nat
  /\ Null \notin Taker \cup Container \cup (Container \cup {Null}) \X Nat

table == <<buckets, used, hashOf>>
freeLists == <<use, free, fHead, fTail, fSize, fNext, owner, held, fPc, mine, other, home>>

NoTable == buckets = Null /\ used = Null /\ hashOf = Null
NoFreeLists ==
  /\ use = Null /\ free = Null /\ fHead = Null /\ fTail = Null /\ fSize = Null /\ fNext = Null
  /\ owner = Null /\ held = Null /\ fPc = Null /\ mine = Null /\ other = Null
  /\ home = Null

ContainersInit ==
  /\ Init
  /\ \/ tried = "MsgList" /\ NoTable /\ NoFreeLists
     \/ tried = "HashMap" /\ Table!Init /\ NoFreeLists
     \/ tried = "FreeList" /\ NoTable /\ Free!Init
ContainersNext ==
  \/ tried = "MsgList" /\ Next /\ UNCHANGED <<tried, table, freeLists>>
  \/ tried = "HashMap" /\ Table!Next /\ UNCHANGED <<tried, vars, freeLists>>
  \/ tried = "FreeList" /\ Free!Next /\ UNCHANGED <<tried, vars, table>>
ContainersSpec == ContainersInit /\ [][ContainersNext]_<<tried, vars, table, freeLists>>
-----------------------------------------------------------------------------
(* HashMap: size_ never falls below the number of entries, also after a     *)
(* clear, and at most half the buckets are in use, so the unbounded loops   *)
(* of emplace, find and erase meet an empty bucket and end.                 *)
HalfEmpty == tried = "HashMap" => Table!HalfEmpty

(* HashMap: no call does anything to the entries but what a map promises,   *)
(* whatever the hash function: emplace never overwrites, erase removes one  *)
(* key, growth loses nothing.                                               *)
Map == INSTANCE AbstractMap WITH map <- IF tried = "HashMap" THEN Table!MapOf ELSE [k \in {} |-> k]
ImplementsMap == Map!Spec

(* Free lists: no element is handed out to two users, or left in a chain    *)
(* while one has it.                                                        *)
OneUser == tried = "FreeList" => Free!OneUser

(* Free lists: once all calls have returned each list is whole again.       *)
QuietListsWhole == tried = "FreeList" => Free!QuietListsWhole
=============================================================================
