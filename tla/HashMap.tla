------------------------------- MODULE HashMap -------------------------------
(***************************************************************************)
(* obLib::HashMap: open addressing with linear probing in a power of two   *)
(* of buckets. A lookup walks from the ideal bucket of its key to the key  *)
(* or to the first empty bucket, so an erase may not leave a hole on the   *)
(* walk of another key: it moves later entries back instead. One thread    *)
(* uses a map; an action is one call.                                      *)
(***************************************************************************)
EXTENDS Integers, FiniteSetsExt, Functions

CONSTANTS
  Key, Value,
  Empty,          \* an empty bucket (its key is the empty_key of the map)
  MaxBuckets      \* bound on the number of buckets, a power of two

VARIABLES
  buckets,     \* buckets_: index -> entry <<key, value>> or Empty
  size,        \* size_
  hashOf       \* the hash function, any of them, fixed for good

vars == <<buckets, size, hashOf>>

Powers == {b \in 1 .. MaxBuckets : \E e \in 0 .. MaxBuckets : 2^e = b}
Count(b) == Cardinality(DOMAIN b)               \* bucket_count()
Blank(n) == [idx \in 0 .. n - 1 |-> Empty]

Pow2(n) == CHOOSE b \in Powers : b >= n /\ \A c \in Powers : c >= n => b <= c

Ideal(b, k) == hashOf[k] % Count(b)             \* key_to_idx
Probe(b, idx, d) == (idx + d) % Count(b)        \* probe_next, d times
Diff(b, x, y) == (Count(b) + x - y) % Count(b)  \* diff

(* The bucket a walk from the ideal bucket of k stops at, in emplace and in *)
(* find: the first one that is empty or holds k. There must be one.         *)
StopsAt(b, k, idx) == b[idx] = Empty \/ b[idx][1] = k
Walk(b, k) ==
  LET at(d) == Probe(b, Ideal(b, k), d)
      steps == CHOOSE d \in 0 .. Count(b) - 1 :
                 StopsAt(b, k, at(d)) /\ \A c \in 0 .. d - 1 : ~StopsAt(b, k, at(c))
  IN  at(steps)
Found(b, k) == b[Walk(b, k)] # Empty            \* find(k) != end()

Stored(b, k, v) == [b EXCEPT ![Walk(b, k)] = <<k, v>>]

(* HashMap(other, n): the entries of b inserted in iterator order into n    *)
(* buckets.                                                                 *)
Rehashed(b, n) ==
  LET copy[idx \in 0 .. Count(b)] ==
        IF idx = 0 THEN Blank(n)
        ELSE IF b[idx - 1] = Empty THEN copy[idx - 1]
        ELSE Stored(copy[idx - 1], b[idx - 1][1], b[idx - 1][2])
  IN  copy[Count(b)]

(* Mutant of Reserved: the entry about to come is not counted. *)
ReservedLate(b, count) == IF (count - 1) * 2 > Count(b) THEN Rehashed(b, Count(b) * 2) ELSE b

(* reserve(count): double when count would fill more than half. *)
Reserved(b, count) == IF count * 2 > Count(b) THEN Rehashed(b, Count(b) * 2) ELSE b

(* Mutant of Erased: the bucket is emptied and nothing moves back. *)
ErasedInPlace(b, start) == [b EXCEPT ![start] = Empty]

(* erase(iterator): the hole moves to each later entry of the run that is   *)
(* farther from its ideal bucket than the hole is.                          *)
Erased(b, start) ==
  LET at(d) == Probe(b, start, d)
      run == CHOOSE d \in 1 .. Count(b) - 1 :
               b[at(d)] = Empty /\ \A c \in 1 .. d - 1 : b[at(c)] # Empty
      shift[d \in 0 .. run - 1] ==
        IF d = 0 THEN [slots |-> b, hole |-> start]
        ELSE LET before == shift[d - 1]
                 ideal  == Ideal(b, b[at(d)][1])
             IN  IF Diff(b, before.hole, ideal) < Diff(b, at(d), ideal)
                 THEN [slots |-> [before.slots EXCEPT ![before.hole] = b[at(d)]], hole |-> at(d)]
                 ELSE before
      last == shift[run - 1]
  IN  [last.slots EXCEPT ![last.hole] = Empty]
-----------------------------------------------------------------------------
Init ==
  /\ hashOf \in [Key -> 0 .. MaxBuckets - 1]
  /\ \E n \in Powers : buckets = Blank(n)
  /\ size = 0

(* size_ of a copy: its insertions are counted. *)
Used(b) == Cardinality({idx \in DOMAIN b : b[idx] # Empty})
SizeIn(b) == IF Count(b) = Count(buckets) THEN size ELSE Used(b)

(* emplace reserves before it looks: a key that is there already may grow   *)
(* the map too.                                                             *)
Emplace(k, v) ==
  LET b == Reserved(buckets, size + 1)
  IN  /\ (size + 1) * 2 <= MaxBuckets
      /\ IF Found(b, k)
         THEN buckets' = b /\ size' = SizeIn(b)
         ELSE buckets' = Stored(b, k, v) /\ size' = SizeIn(b) + 1
      /\ UNCHANGED hashOf

Erase(k) ==
  /\ Found(buckets, k)
  /\ buckets' = Erased(buckets, Walk(buckets, k))
  /\ size' = size - 1
  /\ UNCHANGED hashOf

(* rehash(count) *)
Rehash(count) ==
  /\ buckets' = Rehashed(buckets, Pow2(Max({count, size * 2})))
  /\ size' = Used(buckets)
  /\ UNCHANGED hashOf

(* clear() empties the buckets and does not set size_ back. *)
Clear ==
  /\ buckets' = Blank(Count(buckets))
  /\ UNCHANGED <<size, hashOf>>

Next ==
  \/ \E k \in Key, v \in Value : Emplace(k, v)
  \/ \E k \in Key : Erase(k)
  \/ \E count \in 1 .. MaxBuckets : Rehash(count)
  \/ Clear

Spec == Init /\ [][Next]_vars
-----------------------------------------------------------------------------
Entries(b) == {b[idx] : idx \in DOMAIN b} \ {Empty}
KeysOf(b) == {e[1] : e \in Entries(b)}

(* size_ never falls below the number of entries, also after a clear, and   *)
(* at most half the buckets are in use, so the unbounded loops of emplace,  *)
(* find and erase meet an empty bucket and end.                             *)
HalfEmpty == Used(buckets) <= size /\ size * 2 <= Count(buckets)

(* No call does anything to the entries but what a map promises: emplace    *)
(* never overwrites, erase removes one key, growth loses nothing.           *)
MapOf == [k \in KeysOf(buckets) |-> (CHOOSE e \in Entries(buckets) : e[1] = k)[2]]
Map == INSTANCE AbstractMap WITH map <- MapOf
ImplementsMap == Map!Spec
=============================================================================
