------------------------------ MODULE FeedProofs ------------------------------
(***************************************************************************)
(* The feed, for any capture files, any subscribers and sockets of any     *)
(* size: the types; that a book sees the messages of its own token; and    *)
(* that a subscriber logs what it is due in order, as long as it is in     *)
(* step with the stream.                                                   *)
(*                                                                         *)
(* The last rests on an invariant of the whole path of a message. While a  *)
(* reader is in step, the cells on their way to it are whole messages, the *)
(* next ones it is due, as far as no write had to wait; the first cell     *)
(* after them cannot be taken for the one that is missing. And what the    *)
(* publisher has still to write follows on what it wrote.                  *)
(***************************************************************************)
EXTENDS Feed, FiniteSetTheorems, SequenceTheorems, WellFoundedInduction, TLAPS

(* The rising numbers of a finite set are all of it, each once.             *)
LEMMA RisingFacts ==
  ASSUME NEW S \in SUBSET Int, IsFiniteSet(S)
  PROVE  /\ Cardinality(S) \in Nat
         /\ Rising(S) \in [1 .. Cardinality(S) -> S]
         /\ \A i, j \in 1 .. Cardinality(S) : i < j => Rising(S)[i] < Rising(S)[j]
         /\ \A x \in S : \E k \in 1 .. Cardinality(S) : Rising(S)[k] = x
<1> DEFINE n == Cardinality(S)
           Below(x) == {y \in S : y < x}
           rank == [x \in S |-> Cardinality(Below(x))]
<1>1. n \in Nat
  BY FS_CardinalityType
<1>2. \A x \in S : IsFiniteSet(Below(x)) /\ rank[x] \in 0 .. n - 1
  <2> SUFFICES ASSUME NEW x \in S PROVE IsFiniteSet(Below(x)) /\ rank[x] \in 0 .. n - 1
    OBVIOUS
  <2>1. Below(x) \in SUBSET S /\ x \notin Below(x)
    OBVIOUS
  <2>2. IsFiniteSet(Below(x)) /\ Cardinality(Below(x)) <= n /\ Cardinality(Below(x)) # n
    BY <2>1, FS_Subset
  <2>3. Cardinality(Below(x)) \in Nat
    BY <2>2, FS_CardinalityType
  <2>4. QED
    BY <1>1, <2>2, <2>3
<1>3. ASSUME NEW x \in S, NEW y \in S, x < y PROVE rank[x] < rank[y]
  <2>1. Below(x) \in SUBSET Below(y)
    <3>1. ASSUME NEW z \in S, z < x PROVE z < y
      BY <1>3, <3>1
    <3>2. QED
      BY <3>1
  <2>2. x \in Below(y) /\ x \notin Below(x)
    BY <1>3
  <2>3. /\ Cardinality(Below(x)) <= Cardinality(Below(y))
        /\ Cardinality(Below(x)) # Cardinality(Below(y))
    BY <1>2, <2>1, <2>2, FS_Subset
  <2>4. QED
    BY <1>2, <2>3
<1>4. rank \in Injection(S, 0 .. n - 1)
  <2>1. \A x, y \in S : rank[x] = rank[y] => x = y
    <3> SUFFICES ASSUME NEW x \in S, NEW y \in S, rank[x] = rank[y], x # y PROVE FALSE
      OBVIOUS
    <3>1. x < y \/ y < x
      OBVIOUS
    <3>2. rank[x] \in 0 .. n - 1 /\ rank[y] \in 0 .. n - 1
      BY <1>2
    <3>3. QED
      BY <1>3, <3>1, <3>2
  <2>2. rank \in [S -> 0 .. n - 1]
    BY <1>2
  <2>3. QED
    BY <2>1, <2>2 DEF Injection, IsInjective
<1>5. rank \in Surjection(S, 0 .. n - 1)
  <2>1. IsFiniteSet(0 .. n - 1) /\ Cardinality(0 .. n - 1) = n
    BY <1>1, FS_Interval
  <2>2. QED
    BY <1>4, <2>1, FS_Injection
<1>6. ASSUME NEW k \in 1 .. n PROVE Rising(S)[k] \in S /\ rank[Rising(S)[k]] = k - 1
  <2>1. k - 1 \in 0 .. n - 1
    BY <1>1
  <2>2. \E x \in S : rank[x] = k - 1
    BY <1>5, <2>1 DEF Surjection
  <2>3. \E x \in S : Cardinality({y \in S : y < x}) = k - 1
    BY <2>2
  <2>4. Nth(S, k) \in S /\ Cardinality({y \in S : y < Nth(S, k)}) = k - 1
    BY <2>3 DEF Nth
  <2>5. Rising(S)[k] = Nth(S, k)
    BY DEF Rising
  <2>6. QED
    BY <2>4, <2>5
<1>7. Rising(S) \in [1 .. n -> S]
  <2>1. Rising(S) = [k \in 1 .. n |-> Rising(S)[k]]
    BY DEF Rising
  <2>2. QED
    BY <1>6, <2>1
<1>8. ASSUME NEW i \in 1 .. n, NEW j \in 1 .. n, i < j PROVE Rising(S)[i] < Rising(S)[j]
  <2> DEFINE x == Rising(S)[i]
             y == Rising(S)[j]
  <2>1. x \in S /\ y \in S /\ rank[x] = i - 1 /\ rank[y] = j - 1
    BY <1>6
  <2> HIDE DEF x, y, rank
  <2>2. ~ (y < x) /\ x # y
    BY <1>3, <1>8, <1>1, <2>1
  <2>3. x < y
    BY <2>1, <2>2
  <2>4. QED
    BY <2>3 DEF x, y
<1>9. ASSUME NEW x \in S PROVE \E k \in 1 .. n : Rising(S)[k] = x
  <2> DEFINE k == rank[x] + 1
  <2>1. k \in 1 .. n /\ k - 1 = rank[x]
    BY <1>1, <1>2
  <2> HIDE DEF k
  <2>2. Rising(S)[k] \in S /\ rank[Rising(S)[k]] = rank[x]
    BY <1>6, <2>1
  <2>3. Rising(S)[k] = x
    BY <1>4, <2>2 DEF Injection, IsInjective
  <2>4. QED
    BY <2>1, <2>3
<1>10. QED
  BY <1>1, <1>7, <1>8, <1>9

(* One number more, above all others, comes last.                           *)
LEMMA RisingMore ==
  ASSUME NEW S \in SUBSET Int, IsFiniteSet(S), NEW m \in Int, \A x \in S : x < m
  PROVE  /\ Cardinality(S \cup {m}) = Cardinality(S) + 1
         /\ \A k \in 1 .. Cardinality(S) : Rising(S \cup {m})[k] = Rising(S)[k]
         /\ Rising(S \cup {m})[Cardinality(S) + 1] = m
<1> DEFINE T == S \cup {m}
           n == Cardinality(S)
<1>1. n \in Nat /\ m \notin S
  BY FS_CardinalityType
<1>2. IsFiniteSet(T) /\ Cardinality(T) = n + 1
  BY <1>1, FS_AddElement
<1>3. \A x \in S : {y \in T : y < x} = {y \in S : y < x}
  OBVIOUS
<1>4. {y \in T : y < m} = S
  <2>1. ~ (m < m)
    OBVIOUS
  <2>2. QED
    BY <2>1
<1>5. ASSUME NEW k \in 1 .. n PROVE Rising(T)[k] = Rising(S)[k]
  <2>1. n # k - 1
    BY <1>1
  <2>2. \A x : (x \in T /\ Cardinality({y \in T : y < x}) = k - 1)
               <=> (x \in S /\ Cardinality({y \in S : y < x}) = k - 1)
    BY <1>3, <1>4, <2>1
  <2>3. Nth(T, k) = Nth(S, k)
    BY <2>2 DEF Nth
  <2>4. k \in 1 .. n + 1
    BY <1>1
  <2>5. Rising(T)[k] = Nth(T, k) /\ Rising(S)[k] = Nth(S, k)
    BY <1>2, <2>4 DEF Rising
  <2>6. QED
    BY <2>3, <2>5
<1>6. Rising(T)[n + 1] = m
  <2>1. T \in SUBSET Int /\ n + 1 \in 1 .. n + 1
    BY <1>1
  <2>2. PICK k \in 1 .. n + 1 : Rising(T)[k] = m
    BY <1>2, <2>1, RisingFacts
  <2>3. CASE k = n + 1
    BY <2>2, <2>3
  <2>4. CASE k # n + 1
    <3>1. k < n + 1
      BY <1>1, <2>2, <2>4
    <3>2. Rising(T)[k] < Rising(T)[n + 1] /\ Rising(T)[n + 1] \in T
      BY <1>2, <2>1, <2>2, <3>1, RisingFacts
    <3>3. m < Rising(T)[n + 1]
      BY <2>2, <3>2
    <3>4. ASSUME NEW y \in Int, m < y PROVE ~ (y < m) /\ y # m
      BY <3>4
    <3>5. Rising(T)[n + 1] \notin S /\ Rising(T)[n + 1] # m
      BY <2>1, <3>2, <3>3, <3>4
    <3>6. QED
      BY <3>2, <3>5
  <2>5. QED
    BY <2>3, <2>4
<1>7. QED
  BY <1>2, <1>5, <1>6

(* The places of seq whose element is in S.                                 *)
At(seq, S) == {i \in DOMAIN seq : seq[i] \in S}
Selected(seq, S, k) == seq[Rising(At(seq, S))[k]]

LEMMA AtFinite ==
  ASSUME NEW T, NEW seq \in Seq(T), NEW S
  PROVE  At(seq, S) \in SUBSET (1 .. Len(seq)) /\ At(seq, S) \in SUBSET Int /\ IsFiniteSet(At(seq, S))
<1>1. IsFiniteSet(1 .. Len(seq)) /\ DOMAIN seq = 1 .. Len(seq)
  BY FS_Interval
<1>2. At(seq, S) \in SUBSET (1 .. Len(seq))
  BY <1>1 DEF At
<1>3. QED
  BY <1>1, <1>2, FS_Subset

(* What is selected is in the sequence and in the set, in order, and all    *)
(* that is in both is selected.                                             *)
LEMMA OnlyFacts ==
  ASSUME NEW T, NEW seq \in Seq(T), NEW S
  PROVE  /\ Only(seq, S) \in Seq(T \cap S)
         /\ Len(Only(seq, S)) = Cardinality(At(seq, S))
         /\ \A i \in 1 .. Cardinality(At(seq, S)) : Only(seq, S)[i] = Selected(seq, S, i)
<1> DEFINE A == At(seq, S)
           n == Cardinality(A)
<1>1. A \in SUBSET (1 .. Len(seq)) /\ A \in SUBSET Int /\ IsFiniteSet(A)
  BY AtFinite
<1>2. n \in Nat /\ Rising(A) \in [1 .. n -> A]
  BY <1>1, RisingFacts
<1>3. Only(seq, S) = [k \in 1 .. n |-> seq[Rising(A)[k]]]
  <2>1. Only(seq, S) = [k \in 1 .. n |-> seq[Nth(A, k)]]
    BY DEF Only, At
  <2>2. \A k \in 1 .. n : Rising(A)[k] = Nth(A, k)
    BY DEF Rising
  <2> HIDE DEF A, n
  <2>3. QED
    BY <2>1, <2>2
<1>4. \A k \in 1 .. n : seq[Rising(A)[k]] \in T \cap S
  BY <1>1, <1>2 DEF At
<1> HIDE DEF A, n
<1>5. [k \in 1 .. n |-> seq[Rising(A)[k]]] \in Seq(T \cap S)
  BY <1>2, <1>4
<1>6. Len([k \in 1 .. n |-> seq[Rising(A)[k]]]) = n
  BY <1>2
<1>7. QED
  BY <1>3, <1>5, <1>6 DEF A, n, Selected

(* Two sets that agree on the elements of a sequence select the same.       *)
LEMMA OnlySame ==
  ASSUME NEW T, NEW seq \in Seq(T), NEW S, NEW R,
         \A i \in 1 .. Len(seq) : seq[i] \in S <=> seq[i] \in R
  PROVE  Only(seq, S) = Only(seq, R)
<1>1. {i \in DOMAIN seq : seq[i] \in S} = {i \in DOMAIN seq : seq[i] \in R}
  OBVIOUS
<1>2. QED
  BY <1>1 DEF Only

(* One element more is selected last, or not at all.                        *)
LEMMA OnlyMore ==
  ASSUME NEW T, NEW seq \in Seq(T), NEW x \in T, NEW S, NEW R,
         \A i \in 1 .. Len(seq) : seq[i] \in S <=> seq[i] \in R
  PROVE  Only(Append(seq, x), R) = IF x \in R THEN Append(Only(seq, S), x) ELSE Only(seq, S)
<1> DEFINE A == At(seq, S)
           B == At(Append(seq, x), R)
           n == Cardinality(A)
           m == Len(seq) + 1
           u == Only(seq, S)
           v == Only(Append(seq, x), R)
<1>1. /\ Append(seq, x) \in Seq(T) /\ Len(Append(seq, x)) = m /\ Append(seq, x)[m] = x
      /\ \A i \in 1 .. Len(seq) : Append(seq, x)[i] = seq[i]
  OBVIOUS
<1>2. A \in SUBSET (1 .. Len(seq)) /\ A \in SUBSET Int /\ IsFiniteSet(A)
  BY AtFinite
<1>3. n \in Nat /\ Rising(A) \in [1 .. n -> A]
  BY <1>2, RisingFacts
<1>4. u \in Seq(T) /\ Len(u) = n /\ \A i \in 1 .. n : u[i] = Selected(seq, S, i)
  <2>1. u \in Seq(T \cap S) /\ Len(u) = n /\ \A i \in 1 .. n : u[i] = Selected(seq, S, i)
    BY OnlyFacts
  <2>2. T \cap S \subseteq T
    OBVIOUS
  <2> HIDE DEF u, n, A
  <2>3. u \in Seq(T)
    BY <2>1, <2>2, SeqMonotonic
  <2>4. QED
    BY <2>1, <2>3
<1>5. v \in Seq(T) /\ Len(v) = Cardinality(B) /\ \A i \in 1 .. Cardinality(B) : v[i] = Selected(Append(seq, x), R, i)
  <2>1. /\ v \in Seq(T \cap R) /\ Len(v) = Cardinality(B)
        /\ \A i \in 1 .. Cardinality(B) : v[i] = Selected(Append(seq, x), R, i)
    BY <1>1, OnlyFacts
  <2>2. T \cap R \subseteq T
    OBVIOUS
  <2> HIDE DEF v, B
  <2>3. v \in Seq(T)
    BY <2>1, <2>2, SeqMonotonic
  <2>4. QED
    BY <2>1, <2>3
<1>6. DOMAIN Append(seq, x) = 1 .. Len(seq) \cup {m} /\ DOMAIN seq = 1 .. Len(seq)
  BY <1>1
<1> HIDE DEF u, v
<1>7. CASE x \in R
  <2>1. B = A \cup {m}
    BY <1>1, <1>6, <1>7 DEF At
  <2>2. m \in Int /\ \A i \in A : i < m
    BY <1>2
  <2>3. /\ Cardinality(B) = n + 1 /\ Rising(B)[n + 1] = m
        /\ \A k \in 1 .. n : Rising(B)[k] = Rising(A)[k]
    <3> HIDE DEF A, B, m
    <3>1. QED
      BY <1>2, <2>1, <2>2, RisingMore DEF n
  <2>4. \A k \in 1 .. n : Rising(A)[k] \in 1 .. Len(seq)
    BY <1>2, <1>3
  <2> HIDE DEF A, B, n
  <2>5. \A k \in 1 .. n : v[k] = u[k]
    <3>1. \A k \in 1 .. n : k \in 1 .. n + 1
      BY <1>3
    <3>2. \A k \in 1 .. n + 1 : v[k] = Append(seq, x)[Rising(B)[k]]
      BY <1>5, <2>3 DEF Selected, B
    <3>3. \A k \in 1 .. n : u[k] = seq[Rising(A)[k]]
      BY <1>4 DEF Selected, A
    <3>4. ASSUME NEW k \in 1 .. n PROVE Append(seq, x)[Rising(A)[k]] = seq[Rising(A)[k]]
      BY <1>1, <2>4
    <3>5. ASSUME NEW k \in 1 .. n PROVE v[k] = Append(seq, x)[Rising(A)[k]]
      BY <2>3, <3>1, <3>2
    <3>6. QED
      BY <3>3, <3>4, <3>5
  <2>6. v[n + 1] = x
    BY <1>1, <1>3, <1>5, <2>3 DEF Selected, B
  <2>7. /\ Append(u, x) \in Seq(T) /\ Len(Append(u, x)) = n + 1 /\ Append(u, x)[n + 1] = x
        /\ \A i \in 1 .. n : Append(u, x)[i] = u[i]
    BY <1>4
  <2>8. \A i \in 1 .. n + 1 : v[i] = Append(u, x)[i]
    BY <1>3, <2>5, <2>6, <2>7
  <2>9. v = Append(u, x)
    BY <1>5, <2>3, <2>7, <2>8, SeqEqual
  <2>10. QED
    BY <1>7, <2>9 DEF u, v
<1>8. CASE x \notin R
  <2>1. B = A
    BY <1>1, <1>6, <1>8 DEF At
  <2>2. \A k \in 1 .. n : Rising(A)[k] \in 1 .. Len(seq)
    BY <1>2, <1>3
  <2>3. \A i \in 1 .. n : v[i] = u[i]
    BY <1>1, <1>4, <1>5, <2>1, <2>2 DEF Selected, A, B
  <2>4. v = u
    BY <1>4, <1>5, <2>1, <2>3, SeqEqual
  <2>5. QED
    BY <1>8, <2>4 DEF u, v
<1>9. QED
  BY <1>7, <1>8
-----------------------------------------------------------------------------
(* What the capture files give *)

LEMMA LeastNat ==
  ASSUME NEW N \in SUBSET Nat, N # {}
  PROVE  \E n \in N : \A m \in N : n <= m
<1>1. PICK n \in N : \A m \in N : <<m, n>> \notin OpToRel(<, Nat)
  BY NatLessThanWellFounded, WFMin, Zenon
<1>2. \A m \in N : ~(m < n)
  BY <1>1 DEF OpToRel
<1>3. QED
  BY <1>2

(* The index of the first message with a number, and that of a token.       *)
NumberAt(q, n) == SelectInSeq(q, LAMBDA p : p.seq = n)
TokenAt(q, n) == SelectInSeq(q, LAMBDA t : t = n)

LEMMA LeastIndex ==
  ASSUME NEW I \in SUBSET (Nat \ {0})
  PROVE  LET k == IF I # {} THEN Min(I) ELSE 0
         IN  (I = {} /\ k = 0) \/ (k \in I /\ \A j \in 1 .. k - 1 : j \notin I)
<1>1. CASE I = {}
  BY <1>1
<1>2. CASE I # {}
  <2>1. \E x \in I : \A y \in I : x <= y
    BY <1>2, LeastNat
  <2>2. Min(I) \in I /\ \A y \in I : Min(I) <= y
    BY <2>1 DEF Min
  <2>3. ASSUME NEW j \in 1 .. Min(I) - 1, j \in I PROVE FALSE
    <3>1. Min(I) \in Nat /\ Min(I) <= j
      BY <2>2, <2>3
    <3> HIDE DEF Min
    <3>2. QED
      BY <3>1
  <2>4. QED
    BY <1>2, <2>2, <2>3
<1>3. QED
  BY <1>1, <1>2

LEMMA NumberAtFirst ==
  ASSUME NEW T, NEW q \in Seq(T), NEW n
  PROVE  \/ NumberAt(q, n) = 0 /\ \A i \in 1 .. Len(q) : q[i].seq # n
         \/ /\ NumberAt(q, n) \in 1 .. Len(q) /\ q[NumberAt(q, n)].seq = n
            /\ \A j \in 1 .. NumberAt(q, n) - 1 : q[j].seq # n
<1> DEFINE I == {i \in 1 .. Len(q) : q[i].seq = n}
           k == IF I # {} THEN Min(I) ELSE 0
<1>1. NumberAt(q, n) = k
  BY DEF NumberAt, SelectInSeq
<1>2. I \in SUBSET (Nat \ {0})
  OBVIOUS
<1>3. (I = {} /\ k = 0) \/ (k \in I /\ \A j \in 1 .. k - 1 : j \notin I)
  <2> HIDE DEF I
  <2>1. QED
    BY <1>2, LeastIndex
<1> HIDE DEF k
<1>4. CASE I = {} /\ k = 0
  BY <1>1, <1>4
<1>5. CASE k \in I /\ \A j \in 1 .. k - 1 : j \notin I
  <2>1. \A j \in 1 .. k - 1 : j \in 1 .. Len(q)
    BY <1>5
  <2>2. QED
    BY <1>1, <1>5, <2>1
<1>6. QED
  BY <1>3, <1>4, <1>5

LEMMA TokenAtFirst ==
  ASSUME NEW T, NEW q \in Seq(T), NEW n
  PROVE  \/ TokenAt(q, n) = 0 /\ \A i \in 1 .. Len(q) : q[i] # n
         \/ TokenAt(q, n) \in 1 .. Len(q) /\ q[TokenAt(q, n)] = n
<1> DEFINE I == {i \in 1 .. Len(q) : q[i] = n}
           k == IF I # {} THEN Min(I) ELSE 0
<1>1. TokenAt(q, n) = k
  BY DEF TokenAt, SelectInSeq
<1>2. I \in SUBSET (Nat \ {0})
  OBVIOUS
<1>3. (I = {} /\ k = 0) \/ (k \in I /\ \A j \in 1 .. k - 1 : j \notin I)
  <2> HIDE DEF I
  <2>1. QED
    BY <1>2, LeastIndex
<1> HIDE DEF k
<1>4. QED
  BY <1>1, <1>3

LEMMA PacketType == \A p \in Packet : p.seq \in Int /\ p.token \in Int
  BY DEF Packet

(* The first message of a file with its number.                             *)
Original(file, p) ==
  \E i \in DOMAIN Messages(file) :
    Messages(file)[i] = p /\ \A j \in 1 .. i - 1 : Messages(file)[j].seq # p.seq

LEMMA MessagesType ==
  ASSUME NEW file \in Seq(Packet)
  PROVE  Messages(file) \in Seq(Packet)
<1>1. Only(file, Message) \in Seq(Packet \cap Message)
  BY OnlyFacts
<1>2. Packet \cap Message \subseteq Packet
  OBVIOUS
<1>3. Only(file, Message) \in Seq(Packet)
  BY <1>1, <1>2, SeqMonotonic
<1>4. QED
  BY <1>3 DEF Messages

(* The values a sequence has are finitely many.                             *)
LEMMA ImageFinite ==
  ASSUME NEW T, NEW q \in Seq(T), NEW f \in [1 .. Len(q) -> Int]
  PROVE  IsFiniteSet({f[i] : i \in 1 .. Len(q)})
<1> DEFINE R == {f[i] : i \in 1 .. Len(q)}
<1>1. IsFiniteSet(1 .. Len(q))
  BY FS_Interval
<1>2. f \in Surjection(1 .. Len(q), R)
  BY DEF Surjection
<1>3. QED
  BY <1>1, <1>2, FS_Surjection

(* The publisher's messages are the first of each number, by rising number. *)
LEMMA MktDataFacts ==
  ASSUME NEW file \in Seq(Packet)
  PROVE  /\ MktData(file) \in Seq(Packet)
         /\ \A i, j \in 1 .. Len(MktData(file)) : i < j => MktData(file)[i].seq < MktData(file)[j].seq
         /\ \A i \in 1 .. Len(MktData(file)) : Original(file, MktData(file)[i])
         /\ \A p : Original(file, p) => \E i \in 1 .. Len(MktData(file)) : MktData(file)[i] = p
<1> DEFINE q == Messages(file)
           N == {p.seq : p \in ToSet(q)}
           n == Cardinality(N)
           r == Rising(N)
           m == MktData(file)
<1>1. q \in Seq(Packet) /\ DOMAIN q = 1 .. Len(q) /\ Len(q) \in Nat
  BY MessagesType
<1> HIDE DEF q
<1>2. \A i \in 1 .. Len(q) : q[i] \in Packet /\ q[i].seq \in Int
  BY <1>1, PacketType
<1>3. N \in SUBSET Int /\ IsFiniteSet(N)
  <2> DEFINE f == [i \in 1 .. Len(q) |-> q[i].seq]
  <2>1. f \in [1 .. Len(q) -> Int]
    BY <1>2
  <2>2. N = {f[i] : i \in 1 .. Len(q)}
    BY <1>1 DEF ToSet
  <2>3. N \in SUBSET Int
    BY <2>1, <2>2
  <2> HIDE DEF f, N
  <2>4. QED
    BY <1>1, <2>1, <2>2, <2>3, ImageFinite
<1>4. /\ n \in Nat /\ r \in [1 .. n -> N]
      /\ \A i, j \in 1 .. n : i < j => r[i] < r[j]
      /\ \A x \in N : \E k \in 1 .. n : r[k] = x
  <2> HIDE DEF N
  <2>1. QED
    BY <1>3, RisingFacts
<1>5. ASSUME NEW i \in 1 .. n
      PROVE  /\ NumberAt(q, r[i]) \in 1 .. Len(q) /\ q[NumberAt(q, r[i])].seq = r[i]
             /\ \A j \in 1 .. NumberAt(q, r[i]) - 1 : q[j].seq # r[i]
  <2>1. r[i] \in N
    BY <1>4
  <2>2. PICK k \in 1 .. Len(q) : q[k].seq = r[i]
    BY <1>1, <2>1 DEF ToSet
  <2> HIDE DEF r, n, N
  <2>3. QED
    BY <1>1, <2>2, NumberAtFirst
<1>6. m = [i \in 1 .. n |-> q[NumberAt(q, r[i])]]
  <2>1. DOMAIN r = 1 .. n
    BY <1>4
  <2>2. QED
    BY <2>1, Zenon DEF MktData, NumberAt, q
<1> HIDE DEF m, r, n, N
<1>7. m \in Seq(Packet) /\ Len(m) = n /\ DOMAIN m = 1 .. n
  <2>1. \A i \in 1 .. n : q[NumberAt(q, r[i])] \in Packet
    BY <1>2, <1>5
  <2>2. [i \in 1 .. n |-> q[NumberAt(q, r[i])]] \in Seq(Packet)
    BY <1>4, <2>1
  <2>3. QED
    BY <1>4, <1>6, <2>2
<1>8. \A i \in 1 .. n : m[i] = q[NumberAt(q, r[i])] /\ m[i].seq = r[i]
  BY <1>5, <1>6
<1>9. ASSUME NEW i \in 1 .. n, NEW j \in 1 .. n, i < j PROVE m[i].seq < m[j].seq
  BY <1>4, <1>8, <1>9
<1>10. ASSUME NEW i \in 1 .. n PROVE Original(file, m[i])
  BY <1>1, <1>5, <1>8 DEF Original, q
<1>11. ASSUME NEW p, Original(file, p) PROVE \E i \in 1 .. n : m[i] = p
  <2>1. PICK k \in 1 .. Len(q) : q[k] = p /\ \A j \in 1 .. k - 1 : q[j].seq # p.seq
    BY <1>1, <1>11 DEF Original, q
  <2>2. p.seq \in N
    BY <1>1, <2>1 DEF N, ToSet
  <2>3. PICK i \in 1 .. n : r[i] = p.seq
    BY <1>4, <2>2
  <2>4. NumberAt(q, r[i]) = k
    <3> DEFINE l == NumberAt(q, r[i])
    <3>1. /\ l \in 1 .. Len(q) /\ q[l].seq = p.seq
          /\ \A j \in 1 .. l - 1 : q[j].seq # p.seq
      BY <1>5, <2>3
    <3> HIDE DEF l
    <3>2. k \notin 1 .. l - 1 /\ l \notin 1 .. k - 1
      BY <2>1, <3>1
    <3>3. k = l
      BY <2>1, <3>1, <3>2
    <3>4. QED
      BY <3>3 DEF l
  <2>5. QED
    BY <1>8, <2>1, <2>3, <2>4
<1>12. QED
  BY <1>7, <1>9, <1>10, <1>11 DEF m

(* The tokens of the books: each once, and never 0.                         *)
LEMMA SubscribedFacts ==
  ASSUME NEW file \in Seq(Packet)
  PROVE  /\ Subscribed(file) \in Seq(Int \ {0})
         /\ \A i, j \in 1 .. Len(Subscribed(file)) : Subscribed(file)[i] = Subscribed(file)[j] => i = j
<1> DEFINE q == Messages(file)
           N == Tokens(file) \ {0}
           n == Cardinality(N)
           r == Rising(N)
<1>1. q \in Seq(Packet) /\ DOMAIN q = 1 .. Len(q)
  BY MessagesType
<1> HIDE DEF q
<1>2. N \in SUBSET (Int \ {0}) /\ N \in SUBSET Int /\ IsFiniteSet(N)
  <2> DEFINE f == [i \in 1 .. Len(q) |-> q[i].token]
             T == {f[i] : i \in 1 .. Len(q)}
  <2>1. f \in [1 .. Len(q) -> Int]
    BY <1>1, PacketType
  <2>2. Tokens(file) = T
    BY <1>1 DEF ToSet, Tokens, q
  <2>3. T \in SUBSET Int
    BY <2>1
  <2>4. IsFiniteSet(T)
    <3> HIDE DEF f
    <3>1. QED
      BY <1>1, <2>1, ImageFinite
  <2>5. N \in SUBSET T
    BY <2>2
  <2> HIDE DEF T, N
  <2>6. IsFiniteSet(N)
    BY <2>4, <2>5, FS_Subset
  <2>7. N \in SUBSET Int
    BY <2>3, <2>5
  <2>8. QED
    BY <2>6, <2>7 DEF N
<1> HIDE DEF N
<1>3. n \in Nat /\ r \in [1 .. n -> N] /\ \A i, j \in 1 .. n : i < j => r[i] < r[j]
  BY <1>2, RisingFacts
<1>4. Subscribed(file) = r
  BY DEF Subscribed, N
<1> HIDE DEF r, n
<1>5. r \in [1 .. n -> Int \ {0}]
  BY <1>2, <1>3
<1>6. r \in Seq(Int \ {0}) /\ Len(r) = n
  BY <1>3, <1>5
<1>7. ASSUME NEW i \in 1 .. n, NEW j \in 1 .. n, r[i] = r[j], i # j PROVE FALSE
  <2>1. r[i] \in Int /\ r[j] \in Int
    BY <1>5
  <2>2. i < j \/ j < i
    BY <1>3, <1>7
  <2>3. r[i] < r[j] \/ r[j] < r[i]
    BY <1>3, <2>2
  <2>4. QED
    BY <1>7, <2>1, <2>3
<1>8. QED
  BY <1>4, <1>6, <1>7
-----------------------------------------------------------------------------
(* Types *)

LEMMA SetupType ==
  ASSUME TypeOK
  PROVE  setup.sent \in Seq(Packet) /\ setup.known \in Seq(Packet) /\ setup.single \in BOOLEAN
  BY SetupAssumption DEF TypeOK

LEMMA RoomKept ==
  ASSUME NEW v \in Seq(Cell), NEW w \in Seq(Cell), Len(v) + Len(w) <= Room
  PROVE  v \o w \in Seq(Cell) /\ Len(v \o w) <= Room
<1>1. v \o w \in Seq(Cell) /\ Len(v \o w) = Len(v) + Len(w)
  BY ConcatProperties
<1>2. QED
  BY <1>1

LEMMA InitType == Init => TypeOK
<1> SUFFICES ASSUME Init PROVE TypeOK
  OBVIOUS
<1>1. Len(<<>>) = 0 /\ \A S : <<>> \in Seq(S)
  OBVIOUS
<1>2. 0 <= Room
  BY BoundAssumption
<1>3. QED
  BY <1>1, <1>2 DEF Init, TypeOK

LEMMA PublishType == TypeOK /\ Publish => TypeOK'
<1> SUFFICES ASSUME TypeOK, Publish PROVE TypeOK'
  OBVIOUS
<1> USE BoundAssumption, ValueAssumption DEF TypeOK, pubVars, subVars
<1>0. todo # <<>> => Head(todo) \in Packet /\ Tail(todo) \in Seq(Packet)
  OBVIOUS
<1>1. CASE Skip
  <2>1. todo' \in Seq(Packet) /\ UNCHANGED <<setup, pub, serving, failed, conn, wire, rest, pace, subVars>>
    BY <1>0, <1>1 DEF Skip
  <2>2. QED
    BY <2>1
<1>2. CASE Write
  <2> DEFINE p == Head(todo)
             n == Taken(serving, 2)
             both == << <<"head", p>>, <<"body", p>> >>
  <2>1. serving \in Sub /\ p \in Packet /\ todo' \in Seq(Packet)
    BY <1>0, <1>2 DEF Write
  <2>2. both \in Seq(Cell) /\ Len(both) = 2
    BY <2>1 DEF Cell
  <2>3. n \in 0 .. 2 /\ n <= Room - Len(wire[serving])
    BY <2>1 DEF Taken
  <2>4. SubSeq(both, 1, n) \in Seq(Cell) /\ Len(SubSeq(both, 1, n)) = n
    <3> HIDE DEF both, n
    <3>1. \A i \in 1 .. 2 : both[i] \in Cell
      BY <2>2, ElementOfSeq
    <3>2. QED
      BY <2>3, <3>1, SubSeqProperties
  <2>5. wire' = [wire EXCEPT ![serving] = @ \o SubSeq(both, 1, n)]
    BY <1>2 DEF Write
  <2> DEFINE more == SubSeq(both, 1, n)
  <2>6. wire[serving] \o more \in Seq(Cell) /\ Len(wire[serving] \o more) <= Room
    <3>1. more \in Seq(Cell) /\ Len(more) = n
      BY <2>4
    <3>2. wire[serving] \in Seq(Cell) /\ Len(wire[serving]) \in Nat
      BY <2>1
    <3>3. Len(wire[serving]) + Len(more) <= Room
      <4> HIDE DEF more, n
      <4>1. QED
        BY <2>3, <3>1, <3>2
    <3> HIDE DEF more, n, TypeOK
    <3>4. QED
      BY <3>1, <3>2, <3>3, RoomKept
  <2> HIDE DEF both, p, n, more
  <2>7. wire' \in [Sub -> Seq(Cell)] /\ \A s \in Sub : Len(wire'[s]) <= Room
    BY <2>1, <2>5, <2>6 DEF more
  <2>8. rest' \in [Sub -> Nat]
    <3>1. rest' = [rest EXCEPT ![serving] = @ + 2 - n]
      BY <1>2 DEF Write, n
    <3>2. QED
      BY <2>1, <2>3, <3>1
  <2>9. pace' \in [Sub -> {"direct", "partial", "stuck"}]
    <3>1. pace' = [pace EXCEPT ![serving] = CASE n = 2 -> @ [] n = 1 -> "partial" [] n = 0 -> "stuck"]
      BY <1>2 DEF Write, n
    <3>2. n = 2 \/ n = 1 \/ n = 0
      BY <2>3
    <3>3. QED
      BY <2>1, <3>1, <3>2
  <2>10. UNCHANGED <<setup, pub, serving, failed, conn, subVars>>
    BY <1>2 DEF Write
  <2>11. QED
    BY <2>1, <2>7, <2>8, <2>9, <2>10
<1>3. CASE WriteToClosed
  <2>1. todo' \in Seq(Packet) /\ failed' \in BOOLEAN
    BY <1>0, <1>3, Zenon DEF WriteToClosed
  <2>2. UNCHANGED <<setup, pub, serving, conn, wire, rest, pace, subVars>>
    BY <1>3 DEF WriteToClosed
  <2>3. QED
    BY <2>1, <2>2
<1>4. CASE EndReplay
  BY <1>4 DEF EndReplay
<1>5. CASE Fail \/ RunReturns
  BY <1>5 DEF Fail, RunReturns, Free, Down
<1>6. ASSUME NEW s \in Sub, Accept(s) PROVE TypeOK'
  <2>1. setup.sent \in Seq(Packet)
    BY SetupType
  <2>2. MktData(setup.sent) \in Seq(Packet)
    BY <2>1, MktDataFacts
  <2>3. QED
    <3>1. UNCHANGED <<setup, failed, wire, rest, pace, subVars>>
      BY <1>6 DEF Accept
    <3>2. conn' \in [Sub -> {"none", "backlog", "open", "shut"}]
      <4>1. \/ conn' = [conn EXCEPT ![s] = "open"]
            \/ conn' = [x \in Sub |-> IF conn[x] = "none" THEN "none" ELSE "shut"]
        BY <1>6 DEF Accept, Down
      <4>2. QED
        BY <4>1
    <3>3. \/ pub' = "replay" /\ serving' = s /\ todo' = MktData(setup.sent)
          \/ pub' = "down" /\ pub = "idle" /\ UNCHANGED <<serving, todo>>
      BY <1>6 DEF Accept, Down
    <3>4. QED
      BY <2>2, <3>1, <3>2, <3>3
<1>7. ASSUME NEW s \in Sub, Flush(s) PROVE TypeOK'
  <2>1. Junk \in Cell
    BY DEF Cell
  <2>2. Append(wire[s], Junk) \in Seq(Cell) /\ Len(Append(wire[s], Junk)) <= Room
    BY <1>7, <2>1 DEF Flush
  <2>3. wire' \in [Sub -> Seq(Cell)] /\ \A x \in Sub : Len(wire'[x]) <= Room
    BY <1>7, <2>2 DEF Flush
  <2>4. rest' \in [Sub -> Nat]
    BY <1>7 DEF Flush
  <2>5. QED
    BY <1>7, <2>3, <2>4 DEF Flush
<1>8. ASSUME NEW s \in Sub, FlushFails(s) PROVE TypeOK'
  BY <1>8 DEF FlushFails
<1>9. ASSUME NEW s \in Sub, CloseSession(s) PROVE TypeOK'
  BY <1>9 DEF CloseSession
<1>10. QED
  BY <1>1, <1>2, <1>3, <1>4, <1>5, <1>6, <1>7, <1>8, <1>9 DEF Publish

LEMMA ConnectType == ASSUME NEW s \in Sub, TypeOK, Connect(s) \/ ConnectFails(s) PROVE TypeOK'
<1>1. CASE Connect(s)
  <2>1. setup.known \in Seq(Packet)
    BY SetupType
  <2>2. DOMAIN Subscribed(setup.known) = 1 .. Len(Subscribed(setup.known))
    BY <2>1, SubscribedFacts
  <2>3. Len(Subscribed(setup.known)) \in Nat
    BY <2>1, SubscribedFacts
  <2>4. [i \in DOMAIN Subscribed(setup.known) |-> <<>>] \in Seq(Seq(Packet \cup {Junk}))
    BY <2>2, <2>3
  <2>5. QED
    BY <1>1, <2>4 DEF Connect, TypeOK, pubVars
<1>2. CASE ConnectFails(s)
  BY <1>2 DEF ConnectFails, TypeOK, pubVars
<1>3. QED
  BY <1>1, <1>2

LEMMA BodyType ==
  ASSUME NEW s \in Sub, TypeOK, ReadBody(s)
  PROVE  Body(s) \in Packet \cup {Junk}
<1> USE ValueAssumption DEF TypeOK
<1>1. got[s] # Junk /\ Head(wire[s]) = <<"body", got[s]>> => got[s] \in Packet
  <2> SUFFICES ASSUME Head(wire[s]) = <<"body", got[s]>>, got[s] # Junk PROVE got[s] \in Packet
    OBVIOUS
  <2>1. wire[s] # <<>> /\ wire[s] \in Seq(Cell)
    BY DEF ReadBody
  <2>2. Head(wire[s]) \in Cell
    BY <2>1
  <2>3. Head(wire[s]) = Junk \/ Head(wire[s])[2] \in Packet
    BY <2>2 DEF Cell
  <2>4. CASE got[s] = None
    <3>1. Junk # <<"body", None>>
      OBVIOUS
    <3>2. Head(wire[s]) = <<"body", None>> /\ <<"body", None>>[2] = None
      BY <2>4
    <3>3. QED
      BY <2>3, <3>1, <3>2
  <2>5. QED
    BY <2>4
<1>2. QED
  BY <1>1 DEF Body

LEMMA ReceiveType == ASSUME NEW s \in Sub, TypeOK, Receive(s) PROVE TypeOK'
<1> USE BoundAssumption, ValueAssumption DEF TypeOK, pubVars
<1>1. wire[s] # <<>> => /\ Head(wire[s]) \in Cell /\ Tail(wire[s]) \in Seq(Cell)
                        /\ Len(Tail(wire[s])) <= Room
  <2>1. wire[s] \in Seq(Cell) /\ Len(wire[s]) <= Room
    OBVIOUS
  <2>2. QED
    BY <2>1
<1>2. CASE ReadHead(s)
  <2> DEFINE cell == Head(wire[s])
             right == got[s] # Junk /\ cell # Junk /\ cell[1] = "head"
  <2>1. right => cell[2] \in Packet
    BY <1>1, <1>2 DEF ReadHead, Cell
  <2>2. \/ /\ got' = [got EXCEPT ![s] = IF right THEN cell[2] ELSE Junk]
           /\ sub' = [sub EXCEPT ![s] = "body"]
           /\ wire' = [wire EXCEPT ![s] = Tail(@)]
        \/ /\ got' = [got EXCEPT ![s] = Junk]
           /\ \/ sub' = [sub EXCEPT ![s] = "closed"] /\ wire' = [wire EXCEPT ![s] = <<>>]
              \/ sub' = [sub EXCEPT ![s] = "hung"] /\ wire' = [wire EXCEPT ![s] = Tail(@)]
    BY <1>2 DEF ReadHead
  <2>3. UNCHANGED <<setup, pubVars, conn, rest, pace, books, logged>> /\ wire[s] # <<>>
    BY <1>2 DEF ReadHead
  <2> DEFINE next == IF right THEN cell[2] ELSE Junk
  <2>4. next \in Packet \cup {None, Junk}
    BY <2>1
  <2>5. got' \in [Sub -> Packet \cup {None, Junk}]
    <3> HIDE DEF next
    <3>1. got' = [got EXCEPT ![s] = next] \/ got' = [got EXCEPT ![s] = Junk]
      BY <2>2 DEF next
    <3>2. QED
      BY <2>4, <3>1
  <2>6. wire' \in [Sub -> Seq(Cell)] /\ \A x \in Sub : Len(wire'[x]) <= Room
    <3>1. wire' = [wire EXCEPT ![s] = Tail(@)] \/ wire' = [wire EXCEPT ![s] = <<>>]
      BY <2>2
    <3>2. <<>> \in Seq(Cell) /\ Len(<<>>) <= Room
      OBVIOUS
    <3> DEFINE last == IF wire' = [wire EXCEPT ![s] = <<>>] THEN <<>> ELSE Tail(wire[s])
    <3>3. last \in Seq(Cell) /\ Len(last) <= Room
      BY <1>1, <2>3, <3>2
    <3>4. wire' = [wire EXCEPT ![s] = last]
      BY <3>1
    <3> HIDE DEF last
    <3>5. QED
      BY <3>3, <3>4
  <2>7. sub' \in [Sub -> {"out", "head", "body", "hung", "closed", "crashed"}]
    BY <2>2
  <2>8. QED
    BY <2>3, <2>5, <2>6, <2>7
<1>3. CASE ReadBody(s)
  <2>1. Body(s) \in Packet \cup {Junk}
    BY <1>3, BodyType
  <2>2. logged' \in [Sub -> Seq(Packet \cup {Junk})]
    BY <1>3, <2>1 DEF ReadBody
  <2>3. books' \in [Sub -> Seq(Seq(Packet \cup {Junk}))]
    <3>1. PICK b \in Targets(s) :
            books' = IF b = 0 THEN books ELSE [books EXCEPT ![s][b] = Append(@, Body(s))]
      BY <1>3 DEF ReadBody
    <3>2. b \in 0 .. Len(books[s]) /\ books[s] \in Seq(Seq(Packet \cup {Junk}))
      BY <3>1 DEF Targets
    <3>3. CASE b = 0
      BY <3>1, <3>3
    <3>4. CASE b # 0
      <4>1. b \in 1 .. Len(books[s])
        BY <3>2, <3>4
      <4>2. Append(books[s][b], Body(s)) \in Seq(Packet \cup {Junk})
        BY <2>1, <3>2, <4>1
      <4> DEFINE seen == [books[s] EXCEPT ![b] = Append(@, Body(s))]
      <4>3. seen \in Seq(Seq(Packet \cup {Junk}))
        BY <3>2, <4>1, <4>2, ExceptSeq
      <4>4. books' = [books EXCEPT ![s] = seen]
        BY <3>1, <3>4
      <4> HIDE DEF seen
      <4>5. QED
        BY <4>3, <4>4
    <3>5. QED
      BY <3>3, <3>4
  <2>4. got' \in [Sub -> Packet \cup {None, Junk}]
    BY <1>3 DEF ReadBody
  <2>5. QED
    BY <1>1, <1>3, <2>2, <2>3, <2>4 DEF ReadBody
<1>4. CASE Crash(s)
  <2>1. <<>> \in Seq(Cell) /\ Len(<<>>) <= Room
    OBVIOUS
  <2>2. wire' \in [Sub -> Seq(Cell)] /\ \A x \in Sub : Len(wire'[x]) <= Room
    BY <1>4, <2>1 DEF Crash
  <2>3. sub' \in [Sub -> {"out", "head", "body", "hung", "closed", "crashed"}]
    BY <1>4 DEF Crash
  <2>4. QED
    BY <1>4, <2>2, <2>3 DEF Crash
<1>5. CASE ReadEof(s)
  BY <1>5 DEF ReadEof
<1>6. QED
  BY <1>2, <1>3, <1>4, <1>5 DEF Receive

LEMMA StepType == TypeOK /\ [Next]_vars => TypeOK'
<1> SUFFICES ASSUME TypeOK, [Next]_vars PROVE TypeOK'
  OBVIOUS
<1>1. CASE UNCHANGED vars
  BY <1>1 DEF vars, TypeOK, pubVars, subVars
<1>2. CASE AcceptFails
  BY <1>2 DEF AcceptFails, TypeOK, subVars
<1>3. QED
  BY <1>1, <1>2, PublishType, ConnectType, ReceiveType DEF Next

(* The variables keep their types, and no socket holds more than it can     *)
(* (Publisher.hpp:37, Subscriber.hpp:79).                                   *)
THEOREM TypeCorrect == Spec => []TypeOK
  BY InitType, StepType, PTL DEF Spec
-----------------------------------------------------------------------------
(* The books *)

LEMMA OnlyNothing == \A S : Only(<<>>, S) = <<>>
<1> SUFFICES ASSUME NEW S PROVE Only(<<>>, S) = <<>>
  OBVIOUS
<1>1. At(<<>>, S) = {}
  BY DEF At
<1>2. Cardinality({}) = 0
  BY FS_EmptySet
<1>3. <<>> \in Seq({})
  OBVIOUS
<1> DEFINE nothing == <<>>
<1>4. nothing \in Seq({}) /\ At(nothing, S) = {}
  BY <1>1, <1>3
<1> HIDE DEF nothing
<1>5. Only(nothing, S) \in Seq({} \cap S) /\ Len(Only(nothing, S)) = Cardinality(At(nothing, S))
  BY <1>4, OnlyFacts
<1>6. Only(nothing, S) = <<>>
  BY <1>2, <1>4, <1>5
<1>7. QED
  BY <1>6 DEF nothing

LEMMA CleanMore ==
  ASSUME NEW q \in Seq(Packet \cup {Junk}), NEW x \in Packet \cup {Junk}
  PROVE  Clean(Append(q, x)) = IF x = Junk THEN Clean(q) ELSE Append(Clean(q), x)
<1> DEFINE S == ToSet(q) \ {Junk}
           R == ToSet(Append(q, x)) \ {Junk}
<1>1. /\ Append(q, x) \in Seq(Packet \cup {Junk}) /\ Len(Append(q, x)) = Len(q) + 1
      /\ \A i \in 1 .. Len(q) : Append(q, x)[i] = q[i]
      /\ Append(q, x)[Len(q) + 1] = x
  OBVIOUS
<1>2. ToSet(Append(q, x)) = ToSet(q) \cup {x}
  BY <1>1 DEF ToSet
<1>3. \A i \in 1 .. Len(q) : q[i] \in ToSet(q)
  BY DEF ToSet
<1>4. \A i \in 1 .. Len(q) : q[i] \in S <=> q[i] \in R
  BY <1>2, <1>3
<1>5. x \in R <=> x # Junk
  BY <1>2
<1> HIDE DEF S, R
<1>6. Only(Append(q, x), R) = IF x \in R THEN Append(Only(q, S), x) ELSE Only(q, S)
  BY <1>4, OnlyMore
<1>7. Clean(q) = Only(q, S) /\ Clean(Append(q, x)) = Only(Append(q, x), R)
  BY DEF Clean, S, R
<1>8. QED
  BY <1>5, <1>6, <1>7

(* What of the log belongs to a book.                                       *)
OwnToken(tokens, i, p) == p.token = tokens[i] \/ (i = 1 /\ p.token = 0)
OwnSet(tokens, i, q) == {p \in ToSet(q) \ {Junk} : OwnToken(tokens, i, p)}

LEMMA OwnMore ==
  ASSUME NEW q \in Seq(Packet \cup {Junk}), NEW x \in Packet \cup {Junk}, NEW tokens, NEW i
  PROVE  Only(Append(q, x), OwnSet(tokens, i, Append(q, x)))
         = IF x # Junk /\ OwnToken(tokens, i, x) THEN Append(Only(q, OwnSet(tokens, i, q)), x) ELSE Only(q, OwnSet(tokens, i, q))
<1> DEFINE S == OwnSet(tokens, i, q)
           R == OwnSet(tokens, i, Append(q, x))
<1>1. /\ Append(q, x) \in Seq(Packet \cup {Junk}) /\ Len(Append(q, x)) = Len(q) + 1
      /\ \A k \in 1 .. Len(q) : Append(q, x)[k] = q[k]
      /\ Append(q, x)[Len(q) + 1] = x
  OBVIOUS
<1>2. ToSet(Append(q, x)) = ToSet(q) \cup {x}
  BY <1>1 DEF ToSet
<1>3. \A k \in 1 .. Len(q) : q[k] \in ToSet(q)
  BY DEF ToSet
<1>4. \A k \in 1 .. Len(q) : q[k] \in S <=> q[k] \in R
  BY <1>2, <1>3 DEF OwnSet
<1>5. x \in R <=> x # Junk /\ OwnToken(tokens, i, x)
  BY <1>2 DEF OwnSet
<1> HIDE DEF S, R
<1>6. Only(Append(q, x), R) = IF x \in R THEN Append(Only(q, S), x) ELSE Only(q, S)
  BY <1>4, OnlyMore
<1>7. QED
  BY <1>5, <1>6 DEF S, R

(* The index a token is found at is that of its book.                       *)
LEMMA BookOfFacts ==
  ASSUME TypeOK, NEW t \in Int, NEW i \in 1 .. Len(Subscribed(setup.known))
  PROVE  BookOf(t) = i <=> t = Subscribed(setup.known)[i] \/ (i = 1 /\ t = 0)
<1> DEFINE q == Subscribed(setup.known)
<1>1. q \in Seq(Int \ {0}) /\ \A j, k \in 1 .. Len(q) : q[j] = q[k] => j = k
  BY SetupType, SubscribedFacts
<1>2. BookOf(t) = IF t = 0 THEN 1 ELSE TokenAt(q, t)
  BY DEF BookOf, TokenAt
<1> HIDE DEF q
<1>3. q[i] \in Int \ {0}
  BY <1>1 DEF q
<1>4. CASE t = 0
  BY <1>2, <1>3, <1>4 DEF q
<1>5. CASE t # 0
  <2>1. \/ TokenAt(q, t) = 0 /\ \A j \in 1 .. Len(q) : q[j] # t
        \/ TokenAt(q, t) \in 1 .. Len(q) /\ q[TokenAt(q, t)] = t
    BY <1>1, TokenAtFirst
  <2>2. i \in 1 .. Len(q) /\ i # 0
    BY DEF q
  <2>3. TokenAt(q, t) = i <=> t = q[i]
    BY <1>1, <2>1, <2>2
  <2>4. QED
    BY <1>2, <1>5, <2>3 DEF q
<1>6. QED
  BY <1>4, <1>5

BookInv ==
  \A s \in Sub :
    /\ sub[s] = "out" => logged[s] = <<>>
    /\ books[s] = <<>> \/ Len(books[s]) = Len(Subscribed(setup.known))
    /\ \A i \in DOMAIN books[s] : Clean(books[s][i]) = Only(logged[s], OwnSet(Subscribed(setup.known), i, logged[s]))

LEMMA SetupStays == [Next]_vars => setup' = setup
<1> SUFFICES ASSUME [Next]_vars PROVE setup' = setup
  OBVIOUS
<1>1. CASE UNCHANGED vars
  BY <1>1 DEF vars
<1>2. CASE Publish
  BY <1>2 DEF Publish, Skip, Write, WriteToClosed, EndReplay, Fail, Accept, Flush, FlushFails, CloseSession,
              RunReturns, Down
<1>3. ASSUME NEW s \in Sub, Connect(s) \/ ConnectFails(s) PROVE setup' = setup
  BY <1>3 DEF Connect, ConnectFails
<1>4. ASSUME NEW s \in Sub, Receive(s) PROVE setup' = setup
  BY <1>4 DEF Receive, ReadHead, ReadBody, Crash, ReadEof
<1>5. CASE AcceptFails
  BY <1>5 DEF AcceptFails
<1>6. QED
  BY <1>1, <1>2, <1>3, <1>4, <1>5 DEF Next

(* Only Connect and ReadBody change the books or the log of a subscriber.   *)
LEMMA BooksFrame ==
  ASSUME TypeOK, [Next]_vars, NEW s \in Sub
  PROVE  /\ setup' = setup
         /\ \/ Connect(s) \/ ReadBody(s)
            \/ UNCHANGED <<books[s], logged[s]>> /\ (sub'[s] = "out" => sub[s] = "out")
<1> USE DEF TypeOK, pubVars, subVars
<1>1. CASE UNCHANGED vars
  BY <1>1 DEF vars
<1>2. CASE Publish
  BY <1>2 DEF Publish, Skip, Write, WriteToClosed, EndReplay, Fail, Accept, Flush, FlushFails, CloseSession,
              RunReturns, Down
<1>3. ASSUME NEW x \in Sub, Connect(x) PROVE x = s \/ (setup' = setup /\ UNCHANGED <<books[s], logged[s], sub[s]>>)
  BY <1>3 DEF Connect
<1>4. ASSUME NEW x \in Sub, ConnectFails(x) PROVE setup' = setup /\ UNCHANGED <<books[s], logged[s]>> /\ (sub'[s] = "out" => sub[s] = "out")
  BY <1>4 DEF ConnectFails
<1>5. ASSUME NEW x \in Sub, ReadBody(x) PROVE x = s \/ (setup' = setup /\ UNCHANGED <<books[s], logged[s], sub[s]>>)
  BY <1>5 DEF ReadBody
<1>6. ASSUME NEW x \in Sub, ReadHead(x) \/ Crash(x) \/ ReadEof(x)
      PROVE setup' = setup /\ UNCHANGED <<books[s], logged[s]>> /\ (sub'[s] = "out" => sub[s] = "out")
  BY <1>6 DEF ReadHead, Crash, ReadEof
<1>7. ASSUME Connect(s) \/ ReadBody(s) PROVE setup' = setup
  BY <1>7 DEF Connect, ReadBody
<1>8. CASE AcceptFails
  BY <1>8 DEF AcceptFails
<1>9. QED
  BY <1>1, <1>2, <1>3, <1>4, <1>5, <1>6, <1>7, <1>8 DEF Next, Receive

LEMMA InitBooks == Init => BookInv
  BY DEF Init, BookInv

LEMMA StepBooks == TypeOK /\ BookInv /\ [Next]_vars => BookInv'
<1> SUFFICES ASSUME TypeOK, BookInv, [Next]_vars PROVE BookInv'
  OBVIOUS
<1>0. setup' = setup
  BY SetupStays
<1> SUFFICES ASSUME NEW s \in Sub
             PROVE  /\ sub'[s] = "out" => logged'[s] = <<>>
                    /\ books'[s] = <<>> \/ Len(books'[s]) = Len(Subscribed(setup.known))
                    /\ \A i \in DOMAIN books'[s] :
                         Clean(books'[s][i]) = Only(logged'[s], OwnSet(Subscribed(setup.known), i, logged'[s]))
  BY <1>0 DEF BookInv
<1> DEFINE q == Subscribed(setup.known)
<1>1. q \in Seq(Int \ {0}) /\ DOMAIN q = 1 .. Len(q) /\ Len(q) \in Nat
  BY SetupType, SubscribedFacts
<1>2. CASE UNCHANGED <<books[s], logged[s]>> /\ (sub'[s] = "out" => sub[s] = "out")
  BY <1>2 DEF BookInv
<1>3. CASE Connect(s)
  <2>1. books'[s] = [i \in DOMAIN q |-> <<>>] /\ logged'[s] = logged[s] /\ sub[s] = "out" /\ sub'[s] = "head"
    BY <1>3 DEF Connect, TypeOK
  <2>2. logged'[s] = <<>>
    BY <2>1 DEF BookInv
  <2> HIDE DEF q
  <2>3. DOMAIN books'[s] = 1 .. Len(q) /\ Len(books'[s]) = Len(q) /\ \A i \in 1 .. Len(q) : books'[s][i] = <<>>
    BY <1>1, <2>1
  <2>4. Clean(<<>>) = <<>>
    BY OnlyNothing DEF Clean
  <2>5. \A i \in DOMAIN books'[s] : Clean(books'[s][i]) = Only(logged'[s], OwnSet(Subscribed(setup.known), i, logged'[s]))
    BY <2>2, <2>3, <2>4, OnlyNothing
  <2>6. QED
    BY <2>1, <2>3, <2>5 DEF q
<1>4. CASE ReadBody(s)
  <2> DEFINE x == Body(s)
  <2>1. x \in Packet \cup {Junk}
    BY <1>4, BodyType
  <2>2. logged'[s] = Append(logged[s], x) /\ sub'[s] = "head"
    BY <1>4 DEF ReadBody, TypeOK
  <2>3. PICK b \in Targets(s) :
          books' = IF b = 0 THEN books ELSE [books EXCEPT ![s][b] = Append(@, x)]
    BY <1>4 DEF ReadBody
  <2>4. /\ books[s] \in Seq(Seq(Packet \cup {Junk})) /\ logged[s] \in Seq(Packet \cup {Junk})
        /\ b \in 0 .. Len(books[s]) /\ DOMAIN books[s] = 1 .. Len(books[s])
    <3>1. b \in 0 .. Len(books[s])
      BY <2>3, Zenon DEF Targets
    <3>2. books[s] \in Seq(Seq(Packet \cup {Junk})) /\ logged[s] \in Seq(Packet \cup {Junk})
      BY DEF TypeOK
    <3>3. QED
      BY <3>1, <3>2
  <2>5. x = Junk \/ b = BookOf(x.token)
    BY <2>3 DEF Targets
  <2> HIDE DEF x
  <2>6. /\ DOMAIN books'[s] = DOMAIN books[s] /\ Len(books'[s]) = Len(books[s])
        /\ \A i \in 1 .. Len(books[s]) : books'[s][i] = IF i = b THEN Append(books[s][i], x) ELSE books[s][i]
    <3>1. CASE b = 0
      BY <2>3, <2>4, <3>1
    <3>2. CASE b # 0
      <4> DEFINE seen == [books[s] EXCEPT ![b] = Append(@, x)]
      <4>1. books' = [books EXCEPT ![s] = seen]
        BY <2>3, <3>2
      <4>2. b \in 1 .. Len(books[s]) /\ Append(books[s][b], x) \in Seq(Packet \cup {Junk})
        BY <2>1, <2>4, <3>2
      <4>3. /\ seen \in Seq(Seq(Packet \cup {Junk})) /\ Len(seen) = Len(books[s])
            /\ \A i \in 1 .. Len(books[s]) : seen[i] = IF i = b THEN Append(books[s][b], x) ELSE books[s][i]
        BY <2>4, <4>2, ExceptSeq
      <4> HIDE DEF seen
      <4>4. books'[s] = seen
        BY <4>1 DEF TypeOK
      <4>5. QED
        BY <2>4, <4>3, <4>4
    <3>3. QED
      BY <3>1, <3>2
  <2>7. ASSUME NEW i \in DOMAIN books[s]
        PROVE Clean(books'[s][i]) = Only(logged'[s], OwnSet(Subscribed(setup.known), i, logged'[s]))
    <3>1. Clean(books[s][i]) = Only(logged[s], OwnSet(Subscribed(setup.known), i, logged[s]))
      BY DEF BookInv
    <3>2. i \in 1 .. Len(q) /\ i \in 1 .. Len(books[s])
      BY <2>4 DEF BookInv
    <3>3. books[s][i] \in Seq(Packet \cup {Junk})
      BY <2>4
    <3>4. Only(logged'[s], OwnSet(Subscribed(setup.known), i, logged'[s]))
          = IF x # Junk /\ OwnToken(Subscribed(setup.known), i, x) THEN Append(Only(logged[s], OwnSet(Subscribed(setup.known), i, logged[s])), x)
            ELSE Only(logged[s], OwnSet(Subscribed(setup.known), i, logged[s]))
      <4> DEFINE l == logged[s]
      <4>1. l \in Seq(Packet \cup {Junk}) /\ logged'[s] = Append(l, x)
        BY <2>2, <2>4
      <4> HIDE DEF l, q
      <4>2. Only(Append(l, x), OwnSet(q, i, Append(l, x)))
            = IF x # Junk /\ OwnToken(q, i, x) THEN Append(Only(l, OwnSet(q, i, l)), x) ELSE Only(l, OwnSet(q, i, l))
        BY <2>1, <4>1, OwnMore
      <4>3. QED
        BY <4>1, <4>2 DEF l, q
    <3>5. Clean(Append(books[s][i], x)) = IF x = Junk THEN Clean(books[s][i]) ELSE Append(Clean(books[s][i]), x)
      BY <2>1, <3>3, CleanMore
    <3>6. CASE x = Junk
      BY <2>6, <3>1, <3>2, <3>4, <3>5, <3>6
    <3>7. CASE x # Junk
      <4>1. x.token \in Int
        BY <2>1, <3>7, PacketType
      <4>2. b = i <=> OwnToken(Subscribed(setup.known), i, x)
        <5> HIDE DEF q
        <5>1. BookOf(x.token) = i <=> x.token = Subscribed(setup.known)[i] \/ (i = 1 /\ x.token = 0)
          BY <3>2, <4>1, BookOfFacts DEF q
        <5>2. QED
          BY <2>5, <3>7, <5>1 DEF OwnToken
      <4>3. QED
        BY <2>6, <3>1, <3>2, <3>4, <3>5, <3>7, <4>2
    <3>8. QED
      BY <3>6, <3>7
  <2>8. QED
    BY <2>2, <2>4, <2>6, <2>7 DEF BookInv
<1>5. QED
  BY <1>2, <1>3, <1>4, BooksFrame

(* For any files and subscribers, and however the stream was torn: a book   *)
(* has seen the messages of its own token in the order of the log, and none *)
(* of another but those of token 0 (OrderBookManager.hpp:114, 145).         *)
THEOREM BooksSeeTheirOwn == Spec => []OwnBook
<1>1. BookInv => OwnBook
  BY DEF BookInv, OwnBook, OwnSet, OwnToken
<1>2. QED
  BY <1>1, InitType, StepType, InitBooks, StepBooks, PTL DEF Spec
-----------------------------------------------------------------------------
(* What a subscriber is due: the messages that are wanted, in their order.  *)

LEMMA OnlyPlaces ==
  ASSUME NEW T, NEW seq \in Seq(T), NEW S
  PROVE  /\ Only(seq, S) \in Seq(T)
         /\ \E at \in [1 .. Len(Only(seq, S)) -> 1 .. Len(seq)] :
              /\ \A i, j \in 1 .. Len(Only(seq, S)) : i < j => at[i] < at[j]
              /\ \A i \in 1 .. Len(Only(seq, S)) : Only(seq, S)[i] = seq[at[i]] /\ seq[at[i]] \in S
              /\ \A k \in 1 .. Len(seq) : seq[k] \in S => \E i \in 1 .. Len(Only(seq, S)) : at[i] = k
<1> DEFINE A == At(seq, S)
           v == Only(seq, S)
           at == Rising(A)
<1>1. A \in SUBSET (1 .. Len(seq)) /\ A \in SUBSET Int /\ IsFiniteSet(A)
  BY AtFinite
<1>2. \A i : i \in A <=> i \in 1 .. Len(seq) /\ seq[i] \in S
  BY DEF At
<1>3. /\ v \in Seq(T \cap S) /\ Len(v) = Cardinality(A)
      /\ \A i \in 1 .. Cardinality(A) : v[i] = Selected(seq, S, i)
  BY OnlyFacts
<1>4. \A i \in 1 .. Cardinality(A) : v[i] = seq[at[i]]
  BY <1>3 DEF Selected
<1> HIDE DEF v, A
<1>5. /\ Cardinality(A) \in Nat /\ at \in [1 .. Cardinality(A) -> A]
      /\ \A i, j \in 1 .. Cardinality(A) : i < j => at[i] < at[j]
      /\ \A x \in A : \E k \in 1 .. Cardinality(A) : at[k] = x
  BY <1>1, RisingFacts
<1> HIDE DEF at
<1>6. at \in [1 .. Len(v) -> 1 .. Len(seq)]
  BY <1>1, <1>3, <1>5
<1>7. v \in Seq(T)
  BY <1>3, SeqMonotonic, T \cap S \subseteq T
<1>8. /\ \A i, j \in 1 .. Len(v) : i < j => at[i] < at[j]
      /\ \A i \in 1 .. Len(v) : v[i] = seq[at[i]] /\ seq[at[i]] \in S
  BY <1>2, <1>3, <1>4, <1>5
<1>9. \A k \in 1 .. Len(seq) : seq[k] \in S => \E i \in 1 .. Len(v) : at[i] = k
  BY <1>2, <1>3, <1>5
<1>10. QED
  BY <1>6, <1>7, <1>8, <1>9 DEF v

Due(u) ==
  LET data == MktData(u.sent) IN Only(data, {p \in ToSet(data) : u.single => p.token = Single})

LEMMA DueFacts ==
  ASSUME NEW u \in Setup
  PROVE  /\ Due(u) \in Seq(Packet)
         /\ \A i, j \in 1 .. Len(Due(u)) : i < j => Due(u)[i].seq < Due(u)[j].seq
         /\ \A i \in 1 .. Len(Due(u)) : /\ u.single => Due(u)[i].token = Single
                                        /\ \E k \in 1 .. Len(MktData(u.sent)) : MktData(u.sent)[k] = Due(u)[i]
         /\ \A k \in 1 .. Len(MktData(u.sent)) : (u.single => MktData(u.sent)[k].token = Single)
              => \E i \in 1 .. Len(Due(u)) : Due(u)[i] = MktData(u.sent)[k]
<1> DEFINE data == MktData(u.sent)
           S == {p \in ToSet(data) : u.single => p.token = Single}
           v == Only(data, S)
<1>1. u.sent \in Seq(Packet)
  BY SetupAssumption
<1>2. data \in Seq(Packet) /\ \A i, j \in 1 .. Len(data) : i < j => data[i].seq < data[j].seq
  BY <1>1, MktDataFacts
<1>3. \A k \in 1 .. Len(data) : data[k] \in S <=> (u.single => data[k].token = Single)
  BY <1>2 DEF ToSet
<1>4. Due(u) = v
  BY DEF Due
<1> HIDE DEF data, S
<1>5. /\ v \in Seq(Packet)
      /\ \E at \in [1 .. Len(v) -> 1 .. Len(data)] :
              /\ \A i, j \in 1 .. Len(v) : i < j => at[i] < at[j]
              /\ \A i \in 1 .. Len(v) : v[i] = data[at[i]] /\ data[at[i]] \in S
              /\ \A k \in 1 .. Len(data) : data[k] \in S => \E i \in 1 .. Len(v) : at[i] = k
  BY <1>2, OnlyPlaces
<1> HIDE DEF v
<1>6. PICK at \in [1 .. Len(v) -> 1 .. Len(data)] :
              /\ \A i, j \in 1 .. Len(v) : i < j => at[i] < at[j]
              /\ \A i \in 1 .. Len(v) : v[i] = data[at[i]] /\ data[at[i]] \in S
              /\ \A k \in 1 .. Len(data) : data[k] \in S => \E i \in 1 .. Len(v) : at[i] = k
  BY <1>5
<1>7. \A i \in 1 .. Len(v) : at[i] \in 1 .. Len(data)
  BY <1>6
<1>8. \A i, j \in 1 .. Len(v) : i < j => v[i].seq < v[j].seq
  BY <1>2, <1>6, <1>7
<1>9. \A i \in 1 .. Len(v) : (u.single => v[i].token = Single) /\ \E k \in 1 .. Len(data) : data[k] = v[i]
  BY <1>3, <1>6, <1>7
<1>10. \A k \in 1 .. Len(data) : (u.single => data[k].token = Single) => \E i \in 1 .. Len(v) : v[i] = data[k]
  BY <1>3, <1>6
<1>11. QED
  BY <1>4, <1>5, <1>8, <1>9, <1>10 DEF data

(* What is wanted is exactly what is due.                                   *)
LEMMA WantedIsDue ==
  ASSUME setup \in Setup
  PROVE  \A p : Wanted(p) <=> \E i \in 1 .. Len(Due(setup)) : Due(setup)[i] = p
<1> SUFFICES ASSUME NEW p PROVE Wanted(p) <=> \E i \in 1 .. Len(Due(setup)) : Due(setup)[i] = p
  OBVIOUS
<1> DEFINE data == MktData(setup.sent)
           due == Due(setup)
<1>1. setup.sent \in Seq(Packet)
  BY SetupAssumption
<1>2. Wanted(p) <=> Original(setup.sent, p) /\ (setup.single => p.token = Single)
  BY DEF Wanted, Original
<1>3. /\ \A i \in 1 .. Len(data) : Original(setup.sent, data[i])
      /\ Original(setup.sent, p) => \E i \in 1 .. Len(data) : data[i] = p
  BY <1>1, MktDataFacts
<1>4. /\ \A i \in 1 .. Len(due) : (setup.single => due[i].token = Single) /\ \E k \in 1 .. Len(data) : data[k] = due[i]
      /\ \A k \in 1 .. Len(data) : (setup.single => data[k].token = Single) => \E i \in 1 .. Len(due) : due[i] = data[k]
  BY DueFacts
<1> HIDE DEF data, due
<1>5. QED
  BY <1>2, <1>3, <1>4 DEF due
-----------------------------------------------------------------------------
(* The stream of a connection                                               *)
(*                                                                          *)
(* c is what is still to be read, from a header on, n how many messages the *)
(* reader has logged, h how many whole messages are at the front of c, and  *)
(* p how the writes went. Behind them comes nothing, or a header without    *)
(* its body, or bytes that are Junk.                                        *)

IsBody(x) == x # Junk /\ x[1] = "body"
Torn(due, n, c, h) ==
  /\ n + h < Len(due) /\ 2 * h < Len(c)
  /\ c[2 * h + 1] = <<"head", due[n + h + 1]>>
  /\ 2 * h + 1 < Len(c) => ~ IsBody(c[2 * h + 2])
Pairs(due, n, c, h) ==
  /\ n + h <= Len(due) /\ 2 * h <= Len(c)
  /\ \A i \in 1 .. h : c[2 * i - 1] = <<"head", due[n + i]>> /\ c[2 * i] = <<"body", due[n + i]>>
Follows(due, n, c, h, p) ==
  /\ Pairs(due, n, c, h)
  /\ p = "direct" => Len(c) = 2 * h
  /\ p = "partial" => Torn(due, n, c, h)
  /\ p = "stuck" => Torn(due, n, c, h) \/ (2 * h < Len(c) => c[2 * h + 1] = Junk)
Stream(g, w) == IF g = None THEN w ELSE << <<"head", g>> >> \o w

(* What is appended changes nothing before it.                              *)
LEMMA Appended ==
  ASSUME NEW c \in Seq(Cell), NEW v \in Seq(Cell)
  PROVE  /\ c \o v \in Seq(Cell) /\ Len(c \o v) = Len(c) + Len(v)
         /\ \A k \in 1 .. Len(c) : (c \o v)[k] = c[k]
         /\ \A k \in 1 .. Len(v) : (c \o v)[Len(c) + k] = v[k]
  BY ConcatProperties

LEMMA PairsKept ==
  ASSUME NEW due \in Seq(Packet), NEW n \in Nat, NEW h \in Nat,
         NEW c \in Seq(Cell), NEW v \in Seq(Cell), Pairs(due, n, c, h)
  PROVE  Pairs(due, n, c \o v, h)
<1>1. /\ Len(c \o v) = Len(c) + Len(v) /\ Len(c) \in Nat /\ Len(v) \in Nat
      /\ \A k \in 1 .. Len(c) : (c \o v)[k] = c[k]
  BY Appended
<1>2. 2 * h <= Len(c) /\ n + h <= Len(due)
  BY DEF Pairs
<1>3. ASSUME NEW i \in 1 .. h
      PROVE (c \o v)[2 * i - 1] = <<"head", due[n + i]>> /\ (c \o v)[2 * i] = <<"body", due[n + i]>>
  <2>1. 2 * i - 1 \in 1 .. Len(c) /\ 2 * i \in 1 .. Len(c)
    BY <1>1, <1>2
  <2>2. c[2 * i - 1] = <<"head", due[n + i]>> /\ c[2 * i] = <<"body", due[n + i]>>
    BY DEF Pairs
  <2>3. QED
    BY <1>1, <2>1, <2>2
<1>4. QED
  BY <1>1, <1>2, <1>3 DEF Pairs

(* A message written whole follows those before it.                         *)
LEMMA WrittenWhole ==
  ASSUME NEW due \in Seq(Packet), NEW n \in Nat, NEW h \in Nat, NEW c \in Seq(Cell),
         n + h < Len(due), Follows(due, n, c, h, "direct")
  PROVE  Follows(due, n, c \o << <<"head", due[n + h + 1]>>, <<"body", due[n + h + 1]>> >>, h + 1, "direct")
<1> DEFINE x == due[n + h + 1]
           v == << <<"head", x>>, <<"body", x>> >>
           d == c \o v
<1>1. x \in Packet
  <2>1. n + h + 1 \in 1 .. Len(due)
    OBVIOUS
  <2>2. QED
    BY <2>1
<1>2. v \in Seq(Cell) /\ Len(v) = 2 /\ v[1] = <<"head", x>> /\ v[2] = <<"body", x>>
  BY <1>1 DEF Cell
<1> HIDE DEF v, x
<1>3. Pairs(due, n, c, h) /\ Len(c) = 2 * h
  BY DEF Follows
<1>4. Pairs(due, n, d, h)
  BY <1>2, <1>3, PairsKept
<1>5. /\ Len(d) = 2 * h + 2
      /\ d[2 * h + 1] = <<"head", x>> /\ d[2 * h + 2] = <<"body", x>>
  <2>1. Len(d) = Len(c) + Len(v) /\ \A k \in 1 .. Len(v) : d[Len(c) + k] = v[k]
    BY <1>2, Appended
  <2> HIDE DEF d
  <2>2. d[Len(c) + 1] = v[1] /\ d[Len(c) + 2] = v[2]
    BY <1>2, <2>1
  <2>3. QED
    BY <1>2, <1>3, <2>1, <2>2
<1> HIDE DEF d
<1>6. ASSUME NEW i \in 1 .. h + 1
      PROVE d[2 * i - 1] = <<"head", due[n + i]>> /\ d[2 * i] = <<"body", due[n + i]>>
  <2>1. CASE i = h + 1
    <3>1. 2 * i - 1 = 2 * h + 1 /\ 2 * i = 2 * h + 2 /\ n + i = n + h + 1
      BY <2>1
    <3>2. QED
      BY <1>5, <3>1 DEF x
  <2>2. CASE i # h + 1
    <3>1. i \in 1 .. h
      BY <2>2
    <3>2. QED
      BY <1>4, <3>1 DEF Pairs
  <2>3. QED
    BY <2>1, <2>2
<1>7. n + (h + 1) <= Len(due) /\ 2 * (h + 1) <= Len(d) /\ Len(d) = 2 * (h + 1)
  BY <1>5
<1>8. Follows(due, n, d, h + 1, "direct")
  BY <1>6, <1>7 DEF Follows, Pairs
<1>9. QED
  BY <1>8 DEF d, v, x

(* A message of which only the header fits.                                 *)
LEMMA WrittenHalf ==
  ASSUME NEW due \in Seq(Packet), NEW n \in Nat, NEW h \in Nat, NEW c \in Seq(Cell),
         n + h < Len(due), Follows(due, n, c, h, "direct")
  PROVE  Follows(due, n, c \o << <<"head", due[n + h + 1]>> >>, h, "partial")
<1> DEFINE x == due[n + h + 1]
           v == << <<"head", x>> >>
           d == c \o v
<1>1. x \in Packet
  <2>1. n + h + 1 \in 1 .. Len(due)
    OBVIOUS
  <2>2. QED
    BY <2>1
<1>2. v \in Seq(Cell) /\ Len(v) = 1 /\ v[1] = <<"head", x>>
  BY <1>1 DEF Cell
<1> HIDE DEF v, x
<1>3. Pairs(due, n, c, h) /\ Len(c) = 2 * h
  BY DEF Follows
<1>4. Pairs(due, n, d, h)
  BY <1>2, <1>3, PairsKept
<1>5. Len(d) = 2 * h + 1 /\ d[2 * h + 1] = <<"head", x>>
  <2>1. Len(d) = Len(c) + Len(v) /\ \A k \in 1 .. Len(v) : d[Len(c) + k] = v[k]
    BY <1>2, Appended
  <2> HIDE DEF d
  <2>2. d[Len(c) + 1] = v[1]
    BY <1>2, <2>1
  <2>3. QED
    BY <1>2, <1>3, <2>1, <2>2
<1> HIDE DEF d
<1>6. Torn(due, n, d, h)
  BY <1>5 DEF Torn, x
<1>7. Follows(due, n, d, h, "partial")
  BY <1>4, <1>6 DEF Follows
<1>8. QED
  BY <1>7 DEF d, v, x

(* A write had to wait: what comes later does not mend the stream.          *)
LEMMA WrittenLater ==
  ASSUME NEW due \in Seq(Packet), NEW n \in Nat, NEW h \in Nat,
         NEW c \in Seq(Cell), NEW v \in Seq(Cell), NEW p \in {"partial", "stuck"}, NEW r \in {"partial", "stuck"},
         Follows(due, n, c, h, p), v # <<>> => ~ IsBody(v[1]),
         r = "partial" => p = "partial",
         p = "stuck" /\ v # <<>> => v[1] = Junk
  PROVE  Follows(due, n, c \o v, h, r)
<1> DEFINE d == c \o v
<1>1. /\ Len(d) = Len(c) + Len(v) /\ Len(c) \in Nat /\ Len(v) \in Nat
      /\ \A k \in 1 .. Len(c) : d[k] = c[k]
      /\ \A k \in 1 .. Len(v) : d[Len(c) + k] = v[k]
  BY Appended
<1>2. Pairs(due, n, d, h)
  BY PairsKept DEF Follows
<1>3. Len(v) # 0 => v # <<>> /\ d[Len(c) + 1] = v[1]
  BY <1>1
<1> HIDE DEF d
<1>4. CASE Torn(due, n, c, h)
  <2>1. n + h < Len(due) /\ 2 * h < Len(c) /\ 2 * h + 1 \in 1 .. Len(c)
    <3>1. n + h < Len(due) /\ 2 * h < Len(c)
      BY <1>4 DEF Torn
    <3>2. Len(c) \in Nat
      BY <1>1
    <3>3. QED
      BY <3>1, <3>2
  <2>2. d[2 * h + 1] = <<"head", due[n + h + 1]>>
    BY <1>1, <1>4, <2>1 DEF Torn
  <2>3. ASSUME 2 * h + 1 < Len(d) PROVE ~ IsBody(d[2 * h + 2])
    <3>1. CASE 2 * h + 1 < Len(c)
      <4>1. 2 * h + 2 \in 1 .. Len(c)
        BY <1>1, <3>1
      <4>2. QED
        BY <1>1, <1>4, <3>1, <4>1 DEF Torn
    <3>2. CASE 2 * h + 1 = Len(c)
      <4>1. Len(d) = Len(c) + Len(v) /\ Len(v) \in Nat
        BY <1>1
      <4>2. Len(v) # 0 /\ Len(c) + 1 = 2 * h + 2
        BY <2>3, <3>2, <4>1
      <4>3. QED
        BY <1>3, <4>2
    <3>3. QED
      BY <1>1, <2>1, <3>1, <3>2
  <2>4. Torn(due, n, d, h)
    BY <1>1, <2>1, <2>2, <2>3 DEF Torn
  <2>5. QED
    BY <1>2, <2>4 DEF Follows, d
<1>5. CASE ~ Torn(due, n, c, h)
  <2>1. p = "stuck" /\ r = "stuck" /\ 2 * h <= Len(c) /\ (2 * h < Len(c) => c[2 * h + 1] = Junk)
    BY <1>5 DEF Follows, Pairs
  <2>2. 2 * h < Len(d) => d[2 * h + 1] = Junk
    <3>1. CASE 2 * h < Len(c)
      <4>1. 2 * h + 1 \in 1 .. Len(c)
        BY <1>1, <3>1
      <4>2. QED
        BY <1>1, <2>1, <3>1, <4>1
    <3>2. CASE 2 * h = Len(c)
      <4>1. 2 * h < Len(d) => Len(v) # 0 /\ Len(c) + 1 = 2 * h + 1
        BY <1>1, <3>2
      <4>2. QED
        BY <1>3, <2>1, <4>1
    <3>3. QED
      BY <1>1, <2>1, <3>1, <3>2
  <2>3. QED
    BY <1>2, <2>1, <2>2 DEF Follows, d
<1>6. QED
  BY <1>4, <1>5

LEMMA CellsAreNotJunk == \A g \in Packet : <<"head", g>> # Junk /\ <<"body", g>> # Junk
  BY ValueAssumption

(* What a reader finds that expects a header.                               *)
LEMMA HeadIsNext ==
  ASSUME NEW due \in Seq(Packet), NEW n \in Nat, NEW h \in Nat, NEW c \in Seq(Cell), Len(c) # 0,
         NEW p \in {"direct", "partial", "stuck"}, Follows(due, n, c, h, p)
  PROVE  \/ n < Len(due) /\ c[1] = <<"head", due[n + 1]>>
         \/ c[1] = Junk /\ p # "direct"
<1>1. Len(c) \in Nat /\ Len(due) \in Nat
  OBVIOUS
<1>2. Pairs(due, n, c, h) /\ n + h <= Len(due)
  BY DEF Follows, Pairs
<1>3. CASE h # 0
  <2>1. 1 \in 1 .. h /\ n < Len(due)
    BY <1>1, <1>2, <1>3
  <2>2. c[2 * 1 - 1] = <<"head", due[n + 1]>>
    BY <1>2, <2>1 DEF Pairs
  <2>3. QED
    BY <2>1, <2>2
<1>4. CASE h = 0
  <2>1. Len(c) = 0 => p # "direct"
    BY <1>4 DEF Follows
  <2>2. p # "direct"
    BY <1>4 DEF Follows
  <2>3. CASE Torn(due, n, c, h)
    BY <1>4, <2>3 DEF Torn
  <2>4. CASE ~ Torn(due, n, c, h)
    <3>1. 2 * h < Len(c) => c[2 * h + 1] = Junk
      BY <2>2, <2>4 DEF Follows
    <3>2. QED
      BY <1>1, <1>4, <2>2, <3>1
  <2>5. QED
    BY <2>3, <2>4
<1>5. QED
  BY <1>3, <1>4

(* d is c without its first two cells.                                      *)
Behind(c, d) == Len(c) = Len(d) + 2 /\ \A k \in 1 .. Len(d) : d[k] = c[k + 2]

(* Two cells of one message are read: the rest follows.                     *)
LEMMA MessageRead ==
  ASSUME NEW due \in Seq(Packet), NEW n \in Nat, NEW h \in Nat, NEW c \in Seq(Cell), NEW d \in Seq(Cell),
         NEW p \in {"direct", "partial", "stuck"}, Follows(due, n, c, h, p), NEW g \in Packet,
         c[1] = <<"head", g>>, c[2] = <<"body", g>>, Behind(c, d)
  PROVE  /\ n < Len(due) /\ g = due[n + 1]
         /\ h - 1 \in Nat /\ Follows(due, n + 1, d, h - 1, p)
<1>0. Len(c) = Len(d) + 2 /\ \A k \in 1 .. Len(d) : d[k] = c[k + 2]
  BY DEF Behind
<1>1. Len(c) \in Nat /\ Len(d) \in Nat /\ Len(due) \in Nat /\ Len(c) = Len(d) + 2
  BY <1>0
<1>2. Pairs(due, n, c, h) /\ n + h <= Len(due) /\ 2 * h <= Len(c)
  BY DEF Follows, Pairs
<1>3. c[1] # Junk /\ IsBody(c[2])
  BY CellsAreNotJunk DEF IsBody
<1>4. ~ (h = 0)
  <2> SUFFICES ASSUME h = 0 PROVE FALSE
    OBVIOUS
  <2>1. ~ Torn(due, n, c, h)
    <3>1. 2 * h + 1 < Len(c) /\ 2 * h + 2 = 2
      BY <1>1
    <3>2. QED
      BY <1>3, <3>1 DEF Torn
  <2>2. 2 * h < Len(c) /\ 2 * h + 1 = 1 /\ Len(c) # 2 * h
    BY <1>1
  <2>3. QED
    BY <1>3, <2>1, <2>2 DEF Follows
<1>5. 1 \in 1 .. h /\ h - 1 \in Nat /\ n < Len(due)
  BY <1>1, <1>2, <1>4
<1>6. g = due[n + 1]
  <2>1. c[2 * 1 - 1] = <<"head", due[n + 1]>>
    BY <1>2, <1>5 DEF Pairs
  <2>2. QED
    BY <2>1
<1>7. Pairs(due, n + 1, d, h - 1)
  <2>1. (n + 1) + (h - 1) <= Len(due) /\ 2 * (h - 1) <= Len(d)
    BY <1>1, <1>2, <1>5
  <2>2. ASSUME NEW i \in 1 .. h - 1
        PROVE d[2 * i - 1] = <<"head", due[(n + 1) + i]>> /\ d[2 * i] = <<"body", due[(n + 1) + i]>>
    <3>1. i + 1 \in 1 .. h /\ 2 * i - 1 \in 1 .. Len(d) /\ 2 * i \in 1 .. Len(d)
      BY <1>1, <2>1
    <3>2. c[2 * (i + 1) - 1] = <<"head", due[n + (i + 1)]>> /\ c[2 * (i + 1)] = <<"body", due[n + (i + 1)]>>
      BY <1>2, <3>1 DEF Pairs
    <3>3. d[2 * i - 1] = c[(2 * i - 1) + 2] /\ d[2 * i] = c[(2 * i) + 2]
      BY <1>0, <3>1
    <3>4. (2 * i - 1) + 2 = 2 * (i + 1) - 1 /\ (2 * i) + 2 = 2 * (i + 1) /\ n + (i + 1) = (n + 1) + i
      OBVIOUS
    <3>5. QED
      BY <3>2, <3>3, <3>4
  <2>3. QED
    BY <2>1, <2>2 DEF Pairs
<1>8. 2 * (h - 1) < Len(d) <=> 2 * h < Len(c)
  BY <1>1
<1>9. ASSUME 2 * (h - 1) < Len(d) PROVE d[2 * (h - 1) + 1] = c[2 * h + 1]
  <2>1. 2 * (h - 1) + 1 \in 1 .. Len(d) /\ (2 * (h - 1) + 1) + 2 = 2 * h + 1
    BY <1>1, <1>5, <1>9
  <2>2. QED
    BY <1>0, <2>1
<1>10. Torn(due, n, c, h) => Torn(due, n + 1, d, h - 1)
  <2> SUFFICES ASSUME Torn(due, n, c, h) PROVE Torn(due, n + 1, d, h - 1)
    OBVIOUS
  <2>1. n + h < Len(due) /\ 2 * h < Len(c) /\ c[2 * h + 1] = <<"head", due[n + h + 1]>>
    BY DEF Torn
  <2>2. (n + 1) + (h - 1) < Len(due) /\ (n + 1) + (h - 1) + 1 = n + h + 1
    BY <2>1
  <2>3. ASSUME 2 * (h - 1) + 1 < Len(d) PROVE ~ IsBody(d[2 * (h - 1) + 2])
    <3>1. /\ 2 * (h - 1) + 2 \in 1 .. Len(d) /\ (2 * (h - 1) + 2) + 2 = 2 * h + 2
          /\ 2 * h + 1 < Len(c)
      BY <1>1, <1>5, <2>3
    <3>2. d[2 * (h - 1) + 2] = c[2 * h + 2]
      BY <1>0, <3>1
    <3>3. QED
      BY <3>1, <3>2 DEF Torn
  <2>4. QED
    BY <1>8, <1>9, <2>1, <2>2, <2>3 DEF Torn
<1>11. Len(c) = 2 * h => Len(d) = 2 * (h - 1)
  BY <1>1
<1>12. Follows(due, n + 1, d, h - 1, p)
  BY <1>7, <1>8, <1>9, <1>10, <1>11 DEF Follows
<1>13. QED
  BY <1>5, <1>6, <1>12

(* A header without its body: some write had to wait.                       *)
LEMMA BodyMissing ==
  ASSUME NEW due \in Seq(Packet), NEW n \in Nat, NEW h \in Nat, NEW c \in Seq(Cell), Len(c) >= 2,
         NEW p \in {"direct", "partial", "stuck"}, Follows(due, n, c, h, p), NEW g \in Packet,
         c[1] = <<"head", g>>, c[2] # <<"body", g>>
  PROVE  p # "direct"
<1> SUFFICES ASSUME p = "direct" PROVE FALSE
  OBVIOUS
<1>1. Pairs(due, n, c, h) /\ Len(c) = 2 * h
  BY DEF Follows
<1>2. 1 \in 1 .. h
  BY <1>1
<1>3. c[2 * 1 - 1] = <<"head", due[n + 1]>> /\ c[2 * 1] = <<"body", due[n + 1]>>
  BY <1>1, <1>2 DEF Pairs
<1>4. QED
  BY <1>3
-----------------------------------------------------------------------------
(* The invariant of the feed                                                *)

(* What is still to be written is the end of the publisher's messages.      *)
Replayed(data) ==
  /\ \A i, j \in 1 .. Len(todo) : i < j => todo[i].seq < todo[j].seq
  /\ \A i \in 1 .. Len(todo) : \E k \in 1 .. Len(data) : data[k] = todo[i]

(* After k messages, those still to be written are the later ones.          *)
Left(due, q, k) == \A j \in 1 .. Len(due) : (\E i \in 1 .. Len(q) : q[i] = due[j]) <=> j > k

InStep(s) == sub[s] \in {"head", "body"} /\ got[s] # Junk
Reader(due, s) ==
  InStep(s) =>
    /\ sub[s] = "head" <=> got[s] = None
    /\ \E h \in Nat :
         /\ Follows(due, Len(logged[s]), Stream(got[s], wire[s]), h, pace[s])
         /\ serving = s /\ pace[s] = "direct" => Left(due, todo, Len(logged[s]) + h)

Log(due, s) ==
  /\ \A i \in 1 .. Len(logged[s]) : logged[s][i] # Junk =>
       /\ i <= Len(due) /\ logged[s][i] = due[i]
       /\ \A j \in 1 .. i - 1 : logged[s][j] # Junk
  /\ got[s] # Junk => \A i \in 1 .. Len(logged[s]) : logged[s][i] # Junk
  /\ pace[s] = "direct" => got[s] # Junk

Conns(s) ==
  /\ sub[s] = "out" => conn[s] = "none"
  /\ conn[s] \in {"none", "backlog"} =>
       wire[s] = <<>> /\ rest[s] = 0 /\ pace[s] = "direct" /\ got[s] = None /\ logged[s] = <<>>
  /\ serving = s => conn[s] = "open"
  /\ pace[s] = "direct" => rest[s] = 0

FeedInv == /\ Replayed(MktData(setup.sent))
           /\ \A s \in Sub : Reader(Due(setup), s) /\ Log(Due(setup), s) /\ Conns(s)

LEMMA NothingFollows ==
  ASSUME NEW due \in Seq(Packet)
  PROVE  Follows(due, 0, <<>>, 0, "direct")
<1>1. Len(due) \in Nat /\ Len(<<>>) = 0 /\ 1 .. 0 = {}
  OBVIOUS
<1>2. Pairs(due, 0, <<>>, 0)
  BY <1>1 DEF Pairs
<1>3. QED
  BY <1>1, <1>2 DEF Follows

LEMMA TailFacts ==
  ASSUME NEW q \in Seq(Packet), q # <<>>
  PROVE  /\ Head(q) = q[1] /\ Head(q) \in Packet /\ Len(q) \in Nat \ {0}
         /\ Tail(q) \in Seq(Packet) /\ Len(Tail(q)) = Len(q) - 1
         /\ \A i \in 1 .. Len(q) - 1 : Tail(q)[i] = q[i + 1]
  OBVIOUS

(* The next message that is due is the next that is written.                *)
LEMMA LeftNext ==
  ASSUME NEW due \in Seq(Packet), NEW q \in Seq(Packet), q # <<>>, NEW k \in 0 .. Len(due),
         \A i, j \in 1 .. Len(due) : i < j => due[i].seq < due[j].seq,
         \A i, j \in 1 .. Len(q) : i < j => q[i].seq < q[j].seq,
         Left(due, q, k)
  PROVE  /\ (\A j \in 1 .. Len(due) : due[j] # Head(q)) => Left(due, Tail(q), k)
         /\ (\E j \in 1 .. Len(due) : due[j] = Head(q)) =>
              k < Len(due) /\ Head(q) = due[k + 1] /\ Left(due, Tail(q), k + 1)
<1> DEFINE r == Tail(q)
<1>1. /\ Head(q) = q[1] /\ Len(q) \in Nat \ {0} /\ r \in Seq(Packet) /\ Len(r) = Len(q) - 1
      /\ \A i \in 1 .. Len(q) - 1 : r[i] = q[i + 1]
  BY TailFacts
<1> HIDE DEF r
<1>2. \A i \in 1 .. Len(q) : q[i].seq \in Int
  BY PacketType
<1>3. \A i \in 1 .. Len(due) : due[i].seq \in Int
  BY PacketType
<1>4. ASSUME NEW x PROVE (\E i \in 1 .. Len(q) : q[i] = x) <=> x = q[1] \/ \E i \in 1 .. Len(r) : r[i] = x
  <2>1. ASSUME NEW i \in 1 .. Len(q), q[i] = x, i # 1 PROVE \E j \in 1 .. Len(r) : r[j] = x
    <3>1. i - 1 \in 1 .. Len(r) /\ r[i - 1] = q[(i - 1) + 1] /\ (i - 1) + 1 = i
      BY <1>1, <2>1
    <3>2. QED
      BY <2>1, <3>1
  <2>2. ASSUME NEW i \in 1 .. Len(r), r[i] = x PROVE i + 1 \in 1 .. Len(q) /\ q[i + 1] = x
    BY <1>1, <2>2
  <2>3. 1 \in 1 .. Len(q)
    BY <1>1
  <2>4. QED
    BY <2>1, <2>2, <2>3
<1>5. ASSUME NEW i \in 1 .. Len(r) PROVE r[i].seq \in Int /\ q[1].seq < r[i].seq
  <2>1. r[i] = q[i + 1] /\ i + 1 \in 1 .. Len(q) /\ 1 \in 1 .. Len(q) /\ 1 < i + 1
    BY <1>1
  <2>2. QED
    BY <1>2, <2>1
<1>6. ASSUME \A j \in 1 .. Len(due) : due[j] # q[1] PROVE Left(due, r, k)
  BY <1>4, <1>6 DEF Left
<1>7. ASSUME NEW j \in 1 .. Len(due), due[j] = q[1]
      PROVE k < Len(due) /\ q[1] = due[k + 1] /\ Left(due, r, k + 1)
  <2>1. j > k
    <3>1. \E i \in 1 .. Len(q) : q[i] = due[j]
      BY <1>4, <1>7
    <3>2. QED
      BY <3>1 DEF Left
  <2>2. k < Len(due) /\ k + 1 \in 1 .. Len(due) /\ k + 1 > k
    BY <2>1
  <2>3. j = k + 1
    <3> SUFFICES ASSUME j # k + 1 PROVE FALSE
      OBVIOUS
    <3>1. k + 1 < j
      BY <2>1, <2>2
    <3>2. due[k + 1].seq < due[j].seq
      BY <2>2, <3>1
    <3>3. \E i \in 1 .. Len(q) : q[i] = due[k + 1]
      BY <2>2 DEF Left
    <3>4. due[k + 1] = q[1] \/ \E i \in 1 .. Len(r) : r[i] = due[k + 1]
      BY <1>4, <3>3
    <3>5. ~ (due[k + 1].seq < q[1].seq)
      <4>1. q[1].seq \in Int /\ due[k + 1].seq \in Int
        BY <1>2, <1>3, <2>2, <1>1
      <4>2. CASE due[k + 1] = q[1]
        BY <4>1, <4>2
      <4>3. CASE \E i \in 1 .. Len(r) : r[i] = due[k + 1]
        <5>1. q[1].seq < due[k + 1].seq
          BY <1>5, <4>3
        <5>2. QED
          BY <4>1, <5>1
      <4>4. QED
        BY <3>4, <4>2, <4>3
    <3>6. QED
      BY <1>7, <3>2, <3>5
  <2>4. ASSUME NEW l \in 1 .. Len(due) PROVE (\E i \in 1 .. Len(r) : r[i] = due[l]) <=> l > k + 1
    <3>1. CASE l = k + 1
      <4>1. due[l] = q[1] /\ due[l].seq \in Int
        BY <1>3, <1>7, <2>3, <3>1
      <4>2. ~ \E i \in 1 .. Len(r) : r[i] = due[l]
        BY <1>5, <4>1
      <4>3. QED
        BY <3>1, <4>2
    <3>2. CASE l # k + 1
      <4>1. due[l] # q[1]
        <5>1. l < k + 1 \/ k + 1 < l
          BY <3>2
        <5>2. due[l].seq < due[k + 1].seq \/ due[k + 1].seq < due[l].seq
          BY <2>2, <5>1
        <5>3. QED
          BY <1>3, <1>7, <2>2, <2>3, <5>2
      <4>2. (\E i \in 1 .. Len(q) : q[i] = due[l]) <=> l > k
        BY DEF Left
      <4>3. l > k <=> l > k + 1
        BY <3>2
      <4>4. QED
        BY <1>4, <4>1, <4>2, <4>3
    <3>3. QED
      BY <3>1, <3>2
  <2>5. Left(due, r, k + 1)
    BY <2>4 DEF Left
  <2>6. QED
    BY <1>7, <2>2, <2>3, <2>5
<1>8. QED
  BY <1>1, <1>6, <1>7 DEF r

LEMMA InitFeed == Init => FeedInv
<1> SUFFICES ASSUME Init PROVE FeedInv
  OBVIOUS
<1>1. Replayed(MktData(setup.sent))
  BY DEF Init, Replayed
<1>2. ASSUME NEW s \in Sub PROVE Reader(Due(setup), s) /\ Log(Due(setup), s) /\ Conns(s)
  <2>1. /\ sub[s] = "out" /\ conn[s] = "none" /\ wire[s] = <<>> /\ rest[s] = 0 /\ pace[s] = "direct"
        /\ got[s] = None /\ logged[s] = <<>> /\ serving = None
    BY DEF Init
  <2>2. Reader(Due(setup), s)
    BY <2>1 DEF Reader, InStep
  <2>3. Log(Due(setup), s) /\ Conns(s)
    BY <2>1, ValueAssumption DEF Log, Conns
  <2>4. QED
    BY <2>2, <2>3
<1>3. QED
  BY <1>1, <1>2 DEF FeedInv

LEMMA StepReplayed ==
  ASSUME TypeOK, Replayed(MktData(setup.sent)), [Next]_vars
  PROVE  Replayed(MktData(setup.sent))'
<1> DEFINE data == MktData(setup.sent)
<1>1. setup' = setup
  BY SetupStays
<1>2. /\ data \in Seq(Packet) /\ \A i, j \in 1 .. Len(data) : i < j => data[i].seq < data[j].seq
  BY SetupType, MktDataFacts
<1>3. todo \in Seq(Packet)
  BY DEF TypeOK
<1>4. \/ todo' = todo
      \/ todo # <<>> /\ todo' = Tail(todo)
      \/ todo' = data
  <2>1. CASE UNCHANGED vars
    BY <2>1 DEF vars, pubVars
  <2>2. CASE Publish
    BY <2>2 DEF Publish, Skip, Write, WriteToClosed, EndReplay, Fail, Accept, Flush, FlushFails, CloseSession,
                RunReturns, Down, pubVars
  <2>3. ASSUME NEW s \in Sub, Connect(s) \/ ConnectFails(s) \/ Receive(s) PROVE todo' = todo
    BY <2>3 DEF Connect, ConnectFails, Receive, ReadHead, ReadBody, Crash, ReadEof, pubVars
  <2>4. CASE AcceptFails
    BY <2>4 DEF AcceptFails
  <2>5. QED
    BY <2>1, <2>2, <2>3, <2>4 DEF Next
<1> HIDE DEF data
<1>5. CASE todo' = todo
  BY <1>1, <1>5 DEF Replayed
<1>6. CASE todo # <<>> /\ todo' = Tail(todo)
  <2> DEFINE r == Tail(todo)
  <2>1. Len(todo) \in Nat /\ Len(r) = Len(todo) - 1 /\ \A i \in 1 .. Len(todo) - 1 : r[i] = todo[i + 1]
    BY <1>3, <1>6, TailFacts
  <2> HIDE DEF r
  <2>2. ASSUME NEW i \in 1 .. Len(r), NEW j \in 1 .. Len(r), i < j PROVE r[i].seq < r[j].seq
    <3>1. i + 1 \in 1 .. Len(todo) /\ j + 1 \in 1 .. Len(todo) /\ i + 1 < j + 1
      BY <2>1, <2>2
    <3>2. r[i] = todo[i + 1] /\ r[j] = todo[j + 1]
      BY <2>1
    <3>3. QED
      BY <3>1, <3>2 DEF Replayed
  <2>3. ASSUME NEW i \in 1 .. Len(r) PROVE \E k \in 1 .. Len(data) : data[k] = r[i]
    <3>1. i + 1 \in 1 .. Len(todo) /\ r[i] = todo[i + 1]
      BY <2>1
    <3>2. QED
      BY <3>1 DEF Replayed, data
  <2>4. todo' = r
    BY <1>6 DEF r
  <2>5. QED
    BY <1>1, <2>2, <2>3, <2>4 DEF Replayed, data
<1>7. CASE todo' = data
  BY <1>1, <1>2, <1>7 DEF Replayed, data
<1>8. QED
  BY <1>4, <1>5, <1>6, <1>7

LEMMA StepConns ==
  ASSUME TypeOK, [Next]_vars, NEW s \in Sub, Conns(s)
  PROVE  Conns(s)'
<1> USE ValueAssumption DEF TypeOK, Conns, pubVars, subVars
<1>1. CASE UNCHANGED vars
  BY <1>1 DEF vars
<1>2. CASE Skip \/ WriteToClosed \/ EndReplay
  <2>1. UNCHANGED <<conn, rest, wire, pace, subVars>> /\ (serving' = serving \/ serving' = None)
    BY <1>2 DEF Skip, WriteToClosed, EndReplay
  <2>2. QED
    BY <2>1
<1>3. CASE Write
  <2>1. /\ UNCHANGED <<serving, conn, subVars>> /\ serving \in Sub
        /\ wire' = [wire EXCEPT ![serving] = wire'[serving]]
        /\ rest' = [rest EXCEPT ![serving] = @ + 2 - Taken(serving, 2)]
        /\ pace' = [pace EXCEPT ![serving] = CASE Taken(serving, 2) = 2 -> @
             [] Taken(serving, 2) = 1 -> "partial" [] Taken(serving, 2) = 0 -> "stuck"]
    BY <1>3 DEF Write
  <2>2. CASE serving = s
    <3>1. Taken(s, 2) \in 0 .. 2
      <4>1. Room \in Nat /\ Len(wire[s]) \in Nat /\ Len(wire[s]) <= Room
        BY BoundAssumption
      <4>2. QED
        BY <4>1 DEF Taken
    <3>2. pace'[s] = "direct" => rest'[s] = 0
      <4>1. CASE Taken(s, 2) = 2
        BY <2>1, <2>2, <4>1
      <4>2. CASE Taken(s, 2) = 1
        BY <2>1, <2>2, <4>2
      <4>3. CASE Taken(s, 2) = 0
        BY <2>1, <2>2, <4>3
      <4>4. QED
        BY <3>1, <4>1, <4>2, <4>3
    <3>3. QED
      BY <2>1, <2>2, <3>2
  <2>3. CASE serving # s
    BY <2>1, <2>3
  <2>4. QED
    BY <2>2, <2>3
<1>4. CASE Fail \/ RunReturns
  BY <1>4 DEF Fail, RunReturns, Free, Down
<1>5. ASSUME NEW x \in Sub, Accept(x) PROVE Conns(s)'
  BY <1>5 DEF Accept, Down
<1>6. ASSUME NEW x \in Sub, Flush(x) \/ FlushFails(x) \/ CloseSession(x) PROVE Conns(s)'
  BY <1>6 DEF Flush, FlushFails, CloseSession, Free
<1>7. ASSUME NEW x \in Sub, Connect(x) \/ ConnectFails(x) PROVE Conns(s)'
  BY <1>7 DEF Connect, ConnectFails
<1>8. ASSUME NEW x \in Sub, ReadHead(x) \/ ReadBody(x) \/ Crash(x) \/ ReadEof(x) PROVE Conns(s)'
  <2>1. UNCHANGED <<conn, rest, pace, serving>> /\ sub'[s] \in {sub[s], "head", "body", "hung", "closed", "crashed"}
    BY <1>8 DEF ReadHead, ReadBody, Crash, ReadEof
  <2>2. UNCHANGED <<wire[s], got[s], logged[s]>> \/ (x = s /\ wire[s] # <<>>)
    BY <1>8 DEF ReadHead, ReadBody, Crash, ReadEof
  <2>3. sub[s] = "out" \/ sub'[s] # "out"
    BY <2>1
  <2>4. QED
    BY <2>1, <2>2, <2>3
<1>9. CASE AcceptFails
  BY <1>9 DEF AcceptFails
<1>10. QED
  BY <1>1, <1>2, <1>3, <1>4, <1>5, <1>6, <1>7, <1>8, <1>9 DEF Next, Publish, Receive

(* The steps after which a reader that is in step must be looked at.        *)
LEMMA ReaderCases ==
  ASSUME TypeOK, [Next]_vars, NEW s \in Sub
  PROVE  \/ /\ UNCHANGED <<sub[s], got[s], wire[s], pace[s], logged[s]>>
            /\ serving' = s => serving = s /\ todo' = todo
         \/ ~ InStep(s)'
         \/ serving = s /\ Skip
         \/ serving = s /\ Write
         \/ Accept(s) /\ serving' = s
         \/ Flush(s) \/ Connect(s) \/ ReadHead(s) \/ ReadBody(s)
<1> USE ValueAssumption DEF TypeOK, InStep, pubVars, subVars
<1>1. CASE UNCHANGED vars
  BY <1>1 DEF vars
<1>2. CASE Skip
  BY <1>2 DEF Skip
<1>3. CASE Write
  <2>1. CASE serving = s
    BY <1>3, <2>1
  <2>2. CASE serving # s
    <3>1. UNCHANGED <<sub, got, logged, serving>> /\ serving \in Sub
      BY <1>3 DEF Write
    <3>2. UNCHANGED <<wire[s], pace[s]>>
      BY <1>3, <2>2, <3>1 DEF Write
    <3>3. QED
      BY <2>2, <3>1, <3>2
  <2>3. QED
    BY <2>1, <2>2
<1>4. CASE WriteToClosed
  BY <1>4 DEF WriteToClosed, Gone
<1>5. CASE EndReplay
  BY <1>5 DEF EndReplay
<1>6. CASE Fail \/ RunReturns \/ AcceptFails
  BY <1>6 DEF Fail, RunReturns, AcceptFails, Down
<1>7. ASSUME NEW x \in Sub, Accept(x)
      PROVE \/ Accept(s) /\ serving' = s
            \/ /\ UNCHANGED <<sub[s], got[s], wire[s], pace[s], logged[s]>>
               /\ serving' = s => serving = s /\ todo' = todo
  BY <1>7 DEF Accept, Down
<1>8. ASSUME NEW x \in Sub, Flush(x)
      PROVE \/ Flush(s)
            \/ UNCHANGED <<sub[s], got[s], wire[s], pace[s], logged[s], serving, todo>>
  BY <1>8 DEF Flush
<1>9. ASSUME NEW x \in Sub, FlushFails(x) \/ CloseSession(x)
      PROVE UNCHANGED <<sub[s], got[s], wire[s], pace[s], logged[s], serving, todo>>
  BY <1>9 DEF FlushFails, CloseSession
<1>10. ASSUME NEW x \in Sub, Connect(x)
       PROVE Connect(s) \/ UNCHANGED <<sub[s], got[s], wire[s], pace[s], logged[s], serving, todo>>
  BY <1>10 DEF Connect
<1>11. ASSUME NEW x \in Sub, ConnectFails(x) \/ Crash(x) \/ ReadEof(x)
       PROVE \/ UNCHANGED <<sub[s], got[s], wire[s], pace[s], logged[s], serving, todo>>
             \/ ~ InStep(s)'
  BY <1>11 DEF ConnectFails, Crash, ReadEof
<1>12. ASSUME NEW x \in Sub, ReadHead(x) \/ ReadBody(x)
       PROVE \/ UNCHANGED <<sub[s], got[s], wire[s], pace[s], logged[s], serving, todo>>
             \/ ReadHead(s) \/ ReadBody(s)
  <2>1. CASE x = s
    BY <1>12, <2>1
  <2>2. CASE x # s
    BY <1>12, <2>2 DEF ReadHead, ReadBody
  <2>3. QED
    BY <2>1, <2>2
<1>13. QED
  BY <1>1, <1>2, <1>3, <1>4, <1>5, <1>6, <1>7, <1>8, <1>9, <1>10, <1>11, <1>12 DEF Next, Publish, Receive

(* A header that is read, and the reader still in step.                     *)
LEMMA ReadsHead ==
  ASSUME TypeOK, NEW s \in Sub, NEW due \in Seq(Packet), Reader(due, s), ReadHead(s)
  PROVE  /\ pace' = pace /\ logged' = logged /\ serving' = serving /\ todo' = todo
         /\ \/ got'[s] = Junk /\ (InStep(s) => pace[s] # "direct")
            \/ /\ InStep(s) /\ got[s] = None /\ got'[s] \in Packet /\ sub'[s] = "body"
               /\ Stream(got'[s], wire'[s]) = Stream(got[s], wire[s])
<1> USE DEF TypeOK, pubVars
<1> DEFINE cell == Head(wire[s])
           right == got[s] # Junk /\ cell # Junk /\ cell[1] = "head"
<1>1. /\ pace' = pace /\ logged' = logged /\ serving' = serving /\ todo' = todo
      /\ sub[s] = "head" /\ wire[s] # <<>>
  BY DEF ReadHead
<1>2. \/ /\ got' = [got EXCEPT ![s] = IF right THEN cell[2] ELSE Junk]
         /\ sub' = [sub EXCEPT ![s] = "body"]
         /\ wire' = [wire EXCEPT ![s] = Tail(@)]
      \/ ~ right /\ got' = [got EXCEPT ![s] = Junk]
  BY DEF ReadHead
<1>3. CASE ~ right
  <2>1. got'[s] = Junk
    BY <1>2, <1>3
  <2>2. ASSUME InStep(s) PROVE pace[s] # "direct"
    <3>1. got[s] = None /\ got[s] # Junk
      BY <1>1, <2>2 DEF Reader, InStep
    <3>2. PICK h \in Nat : Follows(due, Len(logged[s]), Stream(got[s], wire[s]), h, pace[s])
      BY <2>2 DEF Reader
    <3>3. Stream(got[s], wire[s]) = wire[s]
      BY <3>1 DEF Stream
    <3>4. wire[s] \in Seq(Cell) /\ Len(wire[s]) # 0 /\ Head(wire[s]) = wire[s][1] /\ Len(logged[s]) \in Nat
      BY <1>1
    <3>5. \/ Len(logged[s]) < Len(due) /\ wire[s][1] = <<"head", due[Len(logged[s]) + 1]>>
          \/ wire[s][1] = Junk /\ pace[s] # "direct"
      BY <3>2, <3>3, <3>4, HeadIsNext
    <3>6. CASE wire[s][1] = <<"head", due[Len(logged[s]) + 1]>> /\ Len(logged[s]) < Len(due)
      <4>1. due[Len(logged[s]) + 1] \in Packet
        <5>1. Len(logged[s]) + 1 \in 1 .. Len(due)
          BY <3>4, <3>6
        <5>2. QED
          BY <5>1
      <4>2. cell # Junk /\ cell[1] = "head"
        <5> DEFINE g == due[Len(logged[s]) + 1]
        <5>1. cell = <<"head", g>> /\ g \in Packet
          BY <3>4, <3>6, <4>1
        <5> HIDE DEF cell, g
        <5>2. QED
          BY <5>1, CellsAreNotJunk
      <4>3. QED
        BY <1>3, <3>1, <4>2
    <3>7. QED
      BY <3>5, <3>6
  <2>3. QED
    BY <1>1, <2>1, <2>2
<1>4. CASE right
  <2>1. InStep(s) /\ got[s] = None
    BY <1>1, <1>4 DEF Reader, InStep
  <2>2. wire[s] \in Seq(Cell) /\ cell \in Cell /\ wire[s] = <<cell>> \o Tail(wire[s])
    BY <1>1
  <2>3. cell = <<"head", cell[2]>> /\ cell[2] \in Packet
    BY <1>4, <2>2 DEF Cell
  <2>4. got'[s] = cell[2] /\ wire'[s] = Tail(wire[s]) /\ sub'[s] = "body"
    BY <1>2, <1>4
  <2> HIDE DEF cell
  <2>5. Stream(got[s], wire[s]) = wire[s]
    BY <2>1 DEF Stream
  <2>6. got'[s] # None
    BY <2>3, <2>4, ValueAssumption
  <2>7. Stream(got'[s], wire'[s]) = <<cell>> \o Tail(wire[s])
    BY <2>3, <2>4, <2>6 DEF Stream
  <2>8. QED
    BY <1>1, <2>1, <2>2, <2>3, <2>4, <2>5, <2>7
<1>5. QED
  BY <1>3, <1>4

(* A body that is read, and the reader still in step.                       *)
LEMMA ReadsBody ==
  ASSUME TypeOK, NEW s \in Sub, NEW due \in Seq(Packet), Reader(due, s), ReadBody(s)
  PROVE  /\ pace' = pace /\ serving' = serving /\ todo' = todo /\ sub[s] = "body"
         /\ logged'[s] = Append(logged[s], Body(s)) /\ sub'[s] = "head"
         /\ \/ got'[s] = Junk /\ Body(s) = Junk /\ (InStep(s) => pace[s] # "direct")
            \/ /\ InStep(s) /\ got'[s] = None
               /\ Len(logged[s]) < Len(due) /\ Body(s) = due[Len(logged[s]) + 1] /\ Body(s) \in Packet
               /\ \A h \in Nat : Follows(due, Len(logged[s]), Stream(got[s], wire[s]), h, pace[s])
                    => h - 1 \in Nat /\ Follows(due, Len(logged[s]) + 1, wire'[s], h - 1, pace[s])
<1> USE DEF TypeOK, pubVars
<1> DEFINE n == Len(logged[s])
           w == wire[s]
           c == Stream(got[s], w)
           p == pace[s]
<1>1. /\ pace' = pace /\ serving' = serving /\ todo' = todo /\ sub[s] = "body"
      /\ logged'[s] = Append(logged[s], Body(s)) /\ sub'[s] = "head"
      /\ got'[s] = (IF Body(s) = Junk THEN Junk ELSE None) /\ wire'[s] = Tail(w) /\ w # <<>>
  BY DEF ReadBody
<1>2. /\ w \in Seq(Cell) /\ Len(w) \in Nat /\ Len(w) # 0 /\ Head(w) = w[1]
      /\ Tail(w) \in Seq(Cell) /\ Len(Tail(w)) = Len(w) - 1
      /\ \A k \in 1 .. Len(w) - 1 : Tail(w)[k] = w[k + 1]
  BY <1>1
<1>3. Body(s) \in Packet \cup {Junk}
  BY BodyType
<1>4. n \in Nat /\ p \in {"direct", "partial", "stuck"}
  OBVIOUS
<1>5. InStep(s) => /\ got[s] \in Packet /\ got[s] # Junk /\ \E h \in Nat : Follows(due, n, c, h, p)
                   /\ c \in Seq(Cell) /\ Len(c) = Len(w) + 1 /\ c[1] = <<"head", got[s]>>
                   /\ \A k \in 1 .. Len(w) : c[k + 1] = w[k]
  <2> SUFFICES ASSUME InStep(s)
               PROVE /\ got[s] \in Packet /\ got[s] # Junk /\ \E h \in Nat : Follows(due, n, c, h, p)
                     /\ c \in Seq(Cell) /\ Len(c) = Len(w) + 1 /\ c[1] = <<"head", got[s]>>
                     /\ \A k \in 1 .. Len(w) : c[k + 1] = w[k]
    OBVIOUS
  <2>1. got[s] \in Packet /\ got[s] # Junk /\ got[s] # None
    BY <1>1 DEF Reader, InStep
  <2>2. \E h \in Nat : Follows(due, n, c, h, p)
    BY DEF Reader
  <2> DEFINE first == << <<"head", got[s]>> >>
  <2>3. first \in Seq(Cell) /\ Len(first) = 1 /\ first[1] = <<"head", got[s]>>
    BY <2>1 DEF Cell
  <2>4. c = first \o w
    BY <2>1 DEF Stream
  <2> HIDE DEF first, c, w
  <2>5. /\ first \o w \in Seq(Cell) /\ Len(first \o w) = Len(first) + Len(w)
        /\ \A k \in 1 .. Len(first) : (first \o w)[k] = first[k]
        /\ \A k \in 1 .. Len(w) : (first \o w)[Len(first) + k] = w[k]
    BY <1>2, <2>3, Appended
  <2>6. Len(c) = Len(w) + 1 /\ c[1] = <<"head", got[s]>> /\ \A k \in 1 .. Len(w) : c[1 + k] = w[k]
    <3>1. 1 \in 1 .. Len(first) /\ Len(first) + Len(w) = Len(w) + 1
      BY <1>2, <2>3
    <3>2. Len(c) = Len(w) + 1
      BY <2>4, <2>5, <3>1
    <3>3. c[1] = first[1]
      BY <2>4, <2>5, <3>1
    <3>4. \A k \in 1 .. Len(w) : c[1 + k] = w[k]
      BY <2>3, <2>4, <2>5
    <3>5. QED
      BY <2>3, <3>2, <3>3, <3>4
  <2>7. \A k \in 1 .. Len(w) : c[k + 1] = w[k]
    BY <1>2, <2>6
  <2>8. QED
    BY <2>1, <2>2, <2>4, <2>5, <2>6, <2>7
<1> HIDE DEF n, w, c, p, TypeOK
<1>6. Len(w) >= 1 /\ c[1 + 1] = c[2]
  BY <1>2
<1>7. CASE Body(s) = Junk
  <2>1. ASSUME InStep(s) PROVE p # "direct"
    <3>1. Head(w) # <<"body", got[s]>>
      BY <1>5, <1>7, <2>1 DEF Body, w
    <3>2. c[2] # <<"body", got[s]>> /\ Len(c) >= 2
      <4>1. 1 \in 1 .. Len(w)
        BY <1>2
      <4>2. c[2] = w[1]
        BY <1>5, <1>6, <2>1, <4>1
      <4>3. QED
        BY <1>2, <1>5, <2>1, <3>1, <4>2
    <3>3. PICK h \in Nat : Follows(due, n, c, h, p)
      BY <1>5, <2>1
    <3> DEFINE g == got[s]
    <3>4. g \in Packet /\ c[1] = <<"head", g>> /\ c[2] # <<"body", g>> /\ c \in Seq(Cell) /\ Len(c) >= 2
      BY <1>5, <2>1, <3>2
    <3> HIDE DEF g
    <3>5. QED
      BY <1>4, <3>3, <3>4, BodyMissing
  <2>2. QED
    BY <1>1, <1>7, <2>1 DEF p
<1>8. CASE Body(s) # Junk
  <2> DEFINE d == Tail(w)
  <2>1. Body(s) = got[s] /\ Head(w) = <<"body", got[s]>> /\ got[s] # Junk
    BY <1>8 DEF Body, w
  <2>2. InStep(s)
    BY <1>1, <2>1 DEF InStep
  <2>3. c[2] = <<"body", got[s]>>
    <3>1. 1 \in 1 .. Len(w)
      BY <1>2
    <3>2. QED
      BY <1>2, <1>5, <1>6, <2>1, <2>2, <3>1
  <2>4. d \in Seq(Cell) /\ Behind(c, d)
    <3>1. Len(d) = Len(w) - 1 /\ d \in Seq(Cell) /\ \A k \in 1 .. Len(w) - 1 : d[k] = w[k + 1]
      BY <1>2
    <3> HIDE DEF d
    <3>2. ASSUME NEW k \in 1 .. Len(d) PROVE d[k] = c[k + 2]
      <4>1. k \in 1 .. Len(w) - 1 /\ k + 1 \in 1 .. Len(w) /\ (k + 1) + 1 = k + 2
        BY <1>2, <3>1
      <4>2. d[k] = w[k + 1] /\ c[(k + 1) + 1] = w[k + 1]
        BY <1>5, <2>2, <3>1, <4>1
      <4>3. QED
        BY <4>1, <4>2
    <3>3. QED
      <4>1. Len(c) = Len(w) + 1 /\ Len(w) \in Nat /\ Len(d) = Len(w) - 1 /\ d \in Seq(Cell)
        BY <1>2, <1>5, <2>2, <3>1
      <4>2. Len(c) = Len(d) + 2
        BY <4>1
      <4>3. QED
        BY <3>2, <4>1, <4>2 DEF Behind
  <2> HIDE DEF d
  <2>5. ASSUME NEW h \in Nat, Follows(due, n, c, h, p)
        PROVE /\ n < Len(due) /\ got[s] = due[n + 1]
              /\ h - 1 \in Nat /\ Follows(due, n + 1, d, h - 1, p)
    <3> DEFINE g == got[s]
    <3>1. g \in Packet /\ c[1] = <<"head", g>> /\ c[2] = <<"body", g>> /\ c \in Seq(Cell)
      BY <1>5, <2>2, <2>3
    <3> HIDE DEF g
    <3>2. n < Len(due) /\ g = due[n + 1] /\ h - 1 \in Nat /\ Follows(due, n + 1, d, h - 1, p)
      BY <1>4, <2>4, <2>5, <3>1, MessageRead, SMTT(40)
    <3>3. QED
      BY <3>2 DEF g
  <2>6. PICK h \in Nat : Follows(due, n, c, h, p)
    BY <1>5, <2>2
  <2>7. n < Len(due) /\ got[s] = due[n + 1]
    BY <2>5, <2>6
  <2>8. QED
    BY <1>1, <1>3, <1>8, <2>1, <2>2, <2>5, <2>7 DEF n, c, p, d, w
<1>9. QED
  BY <1>7, <1>8

LEMMA Associative ==
  ASSUME NEW u \in Seq(Cell), NEW v \in Seq(Cell), NEW w \in Seq(Cell)
  PROVE  u \o (v \o w) = (u \o v) \o w
<1> HIDE DEF Cell
<1>1. (u \o v) \o w = u \o (v \o w)
  BY ConcatAssociative
<1>2. QED
  BY <1>1

(* A message is written, in whole or in part or not at all.                 *)
LEMMA WriteReader ==
  ASSUME TypeOK, NEW s \in Sub, serving = s, Write, Reader(Due(setup), s), Replayed(MktData(setup.sent)),
         InStep(s)'
  PROVE  /\ UNCHANGED <<sub[s], got[s], logged[s]>>
         /\ \E h \in Nat : /\ Follows(Due(setup), Len(logged[s]), Stream(got[s], wire'[s]), h, pace'[s])
                           /\ pace'[s] = "direct" => Left(Due(setup), todo', Len(logged[s]) + h)
<1> DEFINE due == Due(setup)
           n == Len(logged[s])
           w == wire[s]
           c == Stream(got[s], w)
           x == Head(todo)
           t == Taken(s, 2)
           v == SubSeq(<< <<"head", x>>, <<"body", x>> >>, 1, t)
<1>1. /\ todo # <<>> /\ ~ Skipped /\ todo' = Tail(todo)
      /\ wire' = [wire EXCEPT ![s] = @ \o v]
      /\ pace' = [pace EXCEPT ![s] = CASE t = 2 -> @ [] t = 1 -> "partial" [] t = 0 -> "stuck"]
      /\ UNCHANGED <<setup, subVars>>
  BY DEF Write
<1>2. /\ due \in Seq(Packet) /\ setup \in Setup /\ todo \in Seq(Packet) /\ x \in Packet /\ n \in Nat
      /\ w \in Seq(Cell) /\ got[s] \in Packet \cup {None, Junk} /\ pace[s] \in {"direct", "partial", "stuck"}
  <2>1. setup \in Setup /\ todo \in Seq(Packet) /\ logged[s] \in Seq(Packet \cup {Junk}) /\ w \in Seq(Cell)
        /\ got[s] \in Packet \cup {None, Junk} /\ pace[s] \in {"direct", "partial", "stuck"}
    BY DEF TypeOK
  <2>2. x \in Packet
    BY <1>1, <2>1, TailFacts
  <2>3. due \in Seq(Packet)
    BY <2>1, DueFacts
  <2>4. QED
    BY <2>1, <2>2, <2>3
<1>3. t \in 0 .. 2 /\ (pace[s] = "stuck" => t = 0)
  <2>1. Len(w) <= Room /\ Len(w) \in Nat
    BY <1>2 DEF TypeOK
  <2>2. QED
    BY <2>1, BoundAssumption DEF Taken
<1>4. pace'[s] = (CASE t = 2 -> pace[s] [] t = 1 -> "partial" [] t = 0 -> "stuck")
  BY <1>1 DEF TypeOK
<1>5. wire'[s] = w \o v /\ UNCHANGED <<sub[s], got[s], logged[s]>>
  BY <1>1 DEF TypeOK, subVars
<1>6. v \in Seq(Cell) /\ Len(v) = t /\ (t # 0 => v[1] = <<"head", x>>) /\ (t = 2 => v[2] = <<"body", x>>)
  <2> DEFINE both == << <<"head", x>>, <<"body", x>> >>
  <2>1. both \in Seq(Cell) /\ Len(both) = 2 /\ both[1] = <<"head", x>> /\ both[2] = <<"body", x>>
    BY <1>2 DEF Cell
  <2>2. v = SubSeq(both, 1, t)
    OBVIOUS
  <2> HIDE DEF both, t, v
  <2>3. \A i \in 1 .. 2 : both[i] \in Cell
    BY <2>1, ElementOfSeq
  <2>4. v \in Seq(Cell) /\ Len(v) = t /\ \A i \in 1 .. t : v[i] = both[1 + i - 1]
    BY <1>3, <2>2, <2>3, SubSeqProperties
  <2>5. (t # 0 => 1 \in 1 .. t /\ 1 + 1 - 1 = 1) /\ (t = 2 => 2 \in 1 .. t /\ 1 + 2 - 1 = 2)
    BY <1>3
  <2>6. QED
    BY <2>1, <2>4, <2>5
<1>7. v # <<>> => ~ IsBody(v[1])
  BY <1>6 DEF IsBody
<1>8. InStep(s)
  BY <1>5 DEF InStep
<1>9. PICK h \in Nat : Follows(due, n, c, h, pace[s]) /\ (pace[s] = "direct" => Left(due, todo, n + h))
  BY <1>8 DEF Reader
<1>10. c \in Seq(Cell) /\ Stream(got[s], wire'[s]) = c \o v
  <2>1. CASE got[s] = None
    BY <1>2, <1>5, <2>1 DEF Stream
  <2>2. CASE got[s] # None
    <3> DEFINE first == << <<"head", got[s]>> >>
    <3>1. got[s] \in Packet
      BY <1>2, <1>8, <2>2 DEF InStep
    <3>2. first \in Seq(Cell)
      BY <3>1 DEF Cell
    <3>3. c = first \o w /\ Stream(got[s], wire'[s]) = first \o (w \o v)
      BY <1>5, <2>2 DEF Stream
    <3> HIDE DEF first, w, v
    <3>4. first \o w \in Seq(Cell) /\ first \o (w \o v) = (first \o w) \o v
      <4>1. first \o w \in Seq(Cell)
        BY <1>2, <3>2, ConcatProperties
      <4>2. first \o (w \o v) = (first \o w) \o v
        <5>1. first \in Seq(Cell) /\ w \in Seq(Cell) /\ v \in Seq(Cell)
          BY <1>2, <1>6, <3>2
        <5>2. QED
          BY <5>1, Associative
      <4>3. QED
        BY <4>1, <4>2
    <3>5. QED
      BY <3>3, <3>4
  <2>3. QED
    BY <2>1, <2>2
<1>11. x = todo[1] /\ \E k \in 1 .. Len(MktData(setup.sent)) : MktData(setup.sent)[k] = x
  <2>1. x = todo[1] /\ 1 \in 1 .. Len(todo)
    BY <1>1, <1>2, TailFacts
  <2>2. QED
    BY <2>1 DEF Replayed
<1>12. \E j \in 1 .. Len(due) : due[j] = x
  <2>1. setup.single => x.token = Single
    BY <1>1 DEF Skipped
  <2>2. PICK k \in 1 .. Len(MktData(setup.sent)) : MktData(setup.sent)[k] = x
    BY <1>11
  <2>3. \A l \in 1 .. Len(MktData(setup.sent)) : (setup.single => MktData(setup.sent)[l].token = Single)
              => \E i \in 1 .. Len(due) : due[i] = MktData(setup.sent)[l]
    BY <1>2, DueFacts
  <2> HIDE DEF x, due
  <2>4. QED
    BY <2>1, <2>2, <2>3
<1>13. /\ \A i, j \in 1 .. Len(due) : i < j => due[i].seq < due[j].seq
       /\ \A i, j \in 1 .. Len(todo) : i < j => todo[i].seq < todo[j].seq
  BY <1>2, DueFacts DEF Replayed
<1>14. n + h \in 0 .. Len(due)
  BY <1>2, <1>9 DEF Follows, Pairs
<1> HIDE DEF due, n, w, c, v, t
<1>15. CASE pace[s] = "direct"
  <2>1. n + h < Len(due) /\ x = due[n + h + 1] /\ Left(due, todo', n + h + 1)
    BY <1>1, <1>2, <1>9, <1>12, <1>13, <1>14, <1>15, LeftNext
  <2>2. Follows(due, n, c, h, "direct")
    BY <1>9, <1>15
  <2>3. CASE t = 2
    <3>1. v = << <<"head", x>>, <<"body", x>> >>
      BY <1>6, <2>3
    <3>2. Follows(due, n, c \o v, h + 1, "direct")
      BY <1>2, <1>10, <2>1, <2>2, <3>1, WrittenWhole
    <3>3. pace'[s] = "direct" /\ h + 1 \in Nat /\ n + (h + 1) = n + h + 1
      BY <1>2, <1>4, <1>15, <2>3
    <3>4. Follows(due, n, Stream(got[s], wire'[s]), h + 1, pace'[s]) /\ Left(due, todo', n + (h + 1))
      BY <1>10, <2>1, <3>2, <3>3
    <3>5. QED
      BY <1>5, <3>3, <3>4 DEF due, n
  <2>4. CASE t = 1
    <3>1. v = << <<"head", x>> >>
      <4> DEFINE one == << <<"head", x>> >>
      <4>1. one \in Seq(Cell) /\ Len(one) = 1 /\ one[1] = <<"head", x>>
        BY <1>2 DEF Cell
      <4> HIDE DEF one
      <4>2. \A i \in 1 .. 1 : one[i] = v[i]
        BY <1>6, <2>4, <4>1
      <4>3. one = v
        BY <1>6, <2>4, <4>1, <4>2, SeqEqual
      <4>4. QED
        BY <4>3 DEF one
    <3>2. Follows(due, n, c \o v, h, "partial")
      BY <1>2, <1>10, <2>1, <2>2, <3>1, WrittenHalf
    <3>3. pace'[s] = "partial"
      BY <1>4, <2>4
    <3>4. QED
      BY <1>5, <1>10, <3>2, <3>3 DEF due, n
  <2>5. CASE t = 0
    <3>1. c \o v = c
      <4>1. v = <<>>
        BY <1>6, <2>5
      <4>2. QED
        BY <1>10, <4>1
    <3>2. Follows(due, n, c \o v, h, "stuck")
      <4>1. Len(c) = 2 * h /\ Len(c) \in Nat
        BY <1>10, <2>2 DEF Follows
      <4>2. ~ (2 * h < Len(c))
        BY <4>1
      <4>3. QED
        BY <2>2, <3>1, <4>2 DEF Follows
    <3>3. pace'[s] = "stuck"
      BY <1>4, <2>5
    <3>4. QED
      BY <1>5, <1>10, <3>2, <3>3 DEF due, n
  <2>6. QED
    BY <1>3, <2>3, <2>4, <2>5
<1>16. CASE pace[s] # "direct"
  <2>1. /\ pace[s] \in {"partial", "stuck"} /\ pace'[s] \in {"partial", "stuck"}
        /\ pace'[s] = "partial" => pace[s] = "partial"
        /\ pace[s] = "stuck" => v = <<>>
    <3>1. t = 0 => v = <<>>
      BY <1>6
    <3>2. CASE t = 2
      BY <1>2, <1>3, <1>4, <1>16, <3>2
    <3>3. CASE t = 1
      BY <1>2, <1>3, <1>4, <1>16, <3>3
    <3>4. CASE t = 0
      BY <1>2, <1>4, <1>16, <3>1, <3>4
    <3>5. QED
      BY <1>3, <3>2, <3>3, <3>4
  <2> DEFINE p == pace[s]
             r == pace'[s]
  <2>2. /\ p \in {"partial", "stuck"} /\ r \in {"partial", "stuck"} /\ Follows(due, n, c, h, p)
        /\ r = "partial" => p = "partial"
        /\ p = "stuck" /\ v # <<>> => v[1] = Junk
    BY <1>9, <2>1
  <2> HIDE DEF p, r
  <2>3. Follows(due, n, c \o v, h, r)
    BY <1>2, <1>6, <1>7, <1>10, <2>2, WrittenLater
  <2>4. r # "direct"
    BY <2>2
  <2>5. QED
    BY <1>5, <1>10, <2>3, <2>4 DEF due, n, r
<1>17. QED
  BY <1>15, <1>16

LEMMA StepReader ==
  ASSUME TypeOK, FeedInv, [Next]_vars, NEW s \in Sub
  PROVE  Reader(Due(setup), s)'
<1> SUFFICES ASSUME InStep(s)'
             PROVE /\ sub'[s] = "head" <=> got'[s] = None
                   /\ \E h \in Nat :
                        /\ Follows(Due(setup), Len(logged'[s]), Stream(got'[s], wire'[s]), h, pace'[s])
                        /\ serving' = s /\ pace'[s] = "direct" => Left(Due(setup), todo', Len(logged'[s]) + h)
  <2>1. setup' = setup
    BY SetupStays
  <2>2. Due(setup)' = Due(setup)
    BY <2>1
  <2>3. QED
    BY <2>2 DEF Reader
<1> DEFINE due == Due(setup)
           n == Len(logged[s])
           data == MktData(setup.sent)
<1>1. due \in Seq(Packet) /\ setup \in Setup /\ todo \in Seq(Packet) /\ logged[s] \in Seq(Packet \cup {Junk})
  <2>1. setup \in Setup /\ todo \in Seq(Packet) /\ logged[s] \in Seq(Packet \cup {Junk})
    BY DEF TypeOK
  <2>2. QED
    BY <2>1, DueFacts
<1>2. Reader(due, s) /\ Conns(s) /\ Replayed(data)
  BY DEF FeedInv
<1>3. /\ \A i, j \in 1 .. Len(due) : i < j => due[i].seq < due[j].seq
      /\ \A i \in 1 .. Len(due) : setup.single => due[i].token = Single
      /\ \A i \in 1 .. Len(due) : \E k \in 1 .. Len(data) : data[k] = due[i]
  BY <1>1, DueFacts
<1>4. n \in Nat
  BY <1>1
<1> HIDE DEF due, data
<1>5. CASE /\ UNCHANGED <<sub[s], got[s], wire[s], pace[s], logged[s]>>
           /\ serving' = s => serving = s /\ todo' = todo
  <2>1. InStep(s)
    BY <1>5 DEF InStep
  <2>2. PICK h \in Nat : /\ Follows(due, n, Stream(got[s], wire[s]), h, pace[s])
                         /\ serving = s /\ pace[s] = "direct" => Left(due, todo, n + h)
    BY <1>2, <2>1 DEF Reader
  <2>3. Follows(due, Len(logged'[s]), Stream(got'[s], wire'[s]), h, pace'[s])
    BY <1>5, <2>2
  <2>4. serving' = s /\ pace'[s] = "direct" => Left(due, todo', Len(logged'[s]) + h)
    BY <1>5, <2>2
  <2>5. sub'[s] = "head" <=> got'[s] = None
    BY <1>2, <1>5, <2>1 DEF Reader
  <2>6. QED
    BY <2>3, <2>4, <2>5 DEF due
<1>6. CASE serving = s /\ Skip
  <2>1. /\ UNCHANGED <<serving, sub, got, wire, pace, logged>>
        /\ todo # <<>> /\ todo' = Tail(todo) /\ setup.single /\ Head(todo).token # Single
    BY <1>6 DEF Skip, Skipped, subVars
  <2>2. InStep(s)
    BY <2>1 DEF InStep
  <2>3. PICK h \in Nat : /\ Follows(due, n, Stream(got[s], wire[s]), h, pace[s])
                         /\ serving = s /\ pace[s] = "direct" => Left(due, todo, n + h)
    BY <1>2, <2>2 DEF Reader
  <2>4. n + h \in 0 .. Len(due)
    BY <1>1, <1>4, <2>3 DEF Follows, Pairs
  <2>5. \A j \in 1 .. Len(due) : due[j] # Head(todo)
    BY <1>3, <2>1
  <2>6. \A i, j \in 1 .. Len(todo) : i < j => todo[i].seq < todo[j].seq
    BY <1>2 DEF Replayed
  <2>7. ASSUME pace[s] = "direct" PROVE Left(due, todo', n + h)
    <3>1. Left(due, todo, n + h)
      BY <1>6, <2>3, <2>7
    <3> HIDE DEF n
    <3>2. Left(due, Tail(todo), n + h)
      BY <1>1, <1>3, <2>1, <2>4, <2>5, <2>6, <3>1, LeftNext
    <3>3. QED
      BY <2>1, <3>2
  <2>8. sub'[s] = "head" <=> got'[s] = None
    BY <1>2, <2>1, <2>2 DEF Reader
  <2>9. Follows(due, Len(logged'[s]), Stream(got'[s], wire'[s]), h, pace'[s])
    BY <2>1, <2>3
  <2>10. pace'[s] = "direct" => Left(due, todo', Len(logged'[s]) + h)
    BY <2>1, <2>7
  <2>11. QED
    BY <2>8, <2>9, <2>10 DEF due
<1>7. CASE serving = s /\ Write
  <2>1. /\ UNCHANGED <<sub[s], got[s], logged[s]>>
        /\ \E h \in Nat : /\ Follows(due, n, Stream(got[s], wire'[s]), h, pace'[s])
                          /\ pace'[s] = "direct" => Left(due, todo', n + h)
    BY <1>2, <1>7, WriteReader DEF due, data
  <2>2. PICK h \in Nat : /\ Follows(due, n, Stream(got[s], wire'[s]), h, pace'[s])
                         /\ pace'[s] = "direct" => Left(due, todo', n + h)
    BY <2>1
  <2>3. InStep(s)
    BY <2>1 DEF InStep
  <2>4. sub'[s] = "head" <=> got'[s] = None
    BY <1>2, <2>1, <2>3 DEF Reader
  <2>5. /\ Follows(due, Len(logged'[s]), Stream(got'[s], wire'[s]), h, pace'[s])
        /\ pace'[s] = "direct" => Left(due, todo', Len(logged'[s]) + h)
    BY <2>1, <2>2
  <2>6. QED
    BY <2>4, <2>5 DEF due
<1>8. CASE Accept(s) /\ serving' = s
  <2>1. UNCHANGED <<sub, got, wire, pace, logged>> /\ conn[s] = "backlog"
    BY <1>8 DEF Accept, subVars
  <2>2. todo' = data
    <3>1. serving = None \/ todo' = data
      BY <1>8 DEF Accept, TypeOK, data
    <3>2. CASE todo' = data
      BY <3>2
    <3>3. CASE todo' # data
      <4>1. serving' = serving /\ serving = None
        BY <1>8, <3>1, <3>3 DEF Accept, data
      <4>2. QED
        BY <1>8, <4>1, ValueAssumption
    <3>4. QED
      BY <3>2, <3>3
  <2>3. wire[s] = <<>> /\ pace[s] = "direct" /\ got[s] = None /\ logged[s] = <<>>
    BY <1>2, <2>1 DEF Conns
  <2>4. Left(due, data, 0)
    BY <1>3 DEF Left
  <2>5. Follows(due, 0, <<>>, 0, "direct")
    BY <1>1, NothingFollows
  <2>6. /\ Len(logged'[s]) = 0 /\ Stream(got'[s], wire'[s]) = <<>> /\ pace'[s] = "direct"
        /\ Len(logged'[s]) + 0 = 0
    BY <2>1, <2>3 DEF Stream
  <2>7. sub'[s] = "head" <=> got'[s] = None
    <3>1. InStep(s)
      BY <2>1 DEF InStep
    <3>2. QED
      BY <1>2, <2>1, <3>1 DEF Reader
  <2>8. /\ Follows(due, Len(logged'[s]), Stream(got'[s], wire'[s]), 0, pace'[s])
        /\ Left(due, todo', Len(logged'[s]) + 0)
    BY <2>2, <2>4, <2>5, <2>6
  <2>9. QED
    BY <2>7, <2>8 DEF due
<1>9. CASE Flush(s)
  <2> DEFINE p == pace[s]
             c == Stream(got[s], wire[s])
             v == <<Junk>>
  <2>1. /\ UNCHANGED <<serving, todo, pace, sub, got, logged>> /\ rest[s] > 0
        /\ wire'[s] = Append(wire[s], Junk) /\ wire[s] \in Seq(Cell) /\ rest[s] \in Nat
        /\ pace[s] \in {"direct", "partial", "stuck"} /\ got[s] \in Packet \cup {None, Junk}
    BY <1>9 DEF Flush, pubVars, subVars, TypeOK
  <2>2. InStep(s)
    BY <2>1 DEF InStep
  <2>3. PICK h \in Nat : Follows(due, n, c, h, p)
    BY <1>2, <2>2 DEF Reader
  <2>4. p \in {"partial", "stuck"}
    BY <1>2, <2>1 DEF Conns
  <2>5. v \in Seq(Cell) /\ v[1] = Junk /\ ~ IsBody(v[1])
    BY DEF Cell, IsBody
  <2>6. c \in Seq(Cell) /\ Stream(got'[s], wire'[s]) = c \o v
    <3>1. wire'[s] = wire[s] \o v
      BY <2>1
    <3>2. CASE got[s] = None
      BY <2>1, <3>1, <3>2 DEF Stream
    <3>3. CASE got[s] # None
      <4> DEFINE first == << <<"head", got[s]>> >>
                 w == wire[s]
      <4>1. got[s] \in Packet
        BY <2>1, <2>2, <3>3 DEF InStep
      <4>2. first \in Seq(Cell) /\ w \in Seq(Cell)
        BY <2>1, <4>1 DEF Cell
      <4>3. c = first \o w /\ Stream(got'[s], wire'[s]) = first \o (w \o v)
        BY <2>1, <3>1, <3>3 DEF Stream
      <4> HIDE DEF first, w, v, c
      <4>4. first \o w \in Seq(Cell)
        BY <4>2, ConcatProperties
      <4>5. first \o (w \o v) = (first \o w) \o v
        BY <2>5, <4>2, Associative
      <4>6. QED
        BY <4>3, <4>4, <4>5
    <3>4. QED
      BY <3>2, <3>3
  <2> HIDE DEF c, v, n
  <2>7. Follows(due, n, c \o v, h, p)
    <3> HIDE DEF p
    <3>1. QED
      BY <1>1, <1>4, <2>3, <2>4, <2>5, <2>6, WrittenLater
  <2>8. sub'[s] = "head" <=> got'[s] = None
    BY <1>2, <2>1, <2>2 DEF Reader
  <2>9. /\ Follows(due, Len(logged'[s]), Stream(got'[s], wire'[s]), h, pace'[s])
        /\ pace'[s] # "direct"
    BY <2>1, <2>4, <2>6, <2>7 DEF n
  <2>10. QED
    BY <2>8, <2>9 DEF due
<1>10. CASE Connect(s)
  <2>1. /\ UNCHANGED <<serving, todo, pace, got, wire, logged>> /\ sub[s] = "out" /\ sub'[s] = "head"
    BY <1>10 DEF Connect, pubVars, TypeOK
  <2>2. wire[s] = <<>> /\ pace[s] = "direct" /\ got[s] = None /\ logged[s] = <<>> /\ serving # s
    BY <1>2, <2>1 DEF Conns
  <2>3. Follows(due, 0, <<>>, 0, "direct")
    BY <1>1, NothingFollows
  <2>4. Len(logged'[s]) = 0 /\ Stream(got'[s], wire'[s]) = <<>> /\ pace'[s] = "direct" /\ serving' # s /\ got'[s] = None
    BY <2>1, <2>2 DEF Stream
  <2>5. Follows(due, Len(logged'[s]), Stream(got'[s], wire'[s]), 0, pace'[s])
    BY <2>3, <2>4
  <2>6. QED
    BY <2>1, <2>4, <2>5 DEF due
<1>11. CASE ReadHead(s)
  <2>1. /\ pace' = pace /\ logged' = logged /\ serving' = serving /\ todo' = todo
        /\ InStep(s) /\ got[s] = None /\ got'[s] \in Packet /\ sub'[s] = "body"
        /\ Stream(got'[s], wire'[s]) = Stream(got[s], wire[s])
    <3>1. got'[s] # Junk
      BY DEF InStep
    <3>2. QED
      BY <1>1, <1>2, <1>11, <3>1, ReadsHead
  <2>2. PICK h \in Nat : /\ Follows(due, n, Stream(got[s], wire[s]), h, pace[s])
                         /\ serving = s /\ pace[s] = "direct" => Left(due, todo, n + h)
    BY <1>2, <2>1 DEF Reader
  <2>3. got'[s] # None
    BY <2>1, ValueAssumption
  <2>4. Follows(due, Len(logged'[s]), Stream(got'[s], wire'[s]), h, pace'[s])
    BY <2>1, <2>2
  <2>5. serving' = s /\ pace'[s] = "direct" => Left(due, todo', Len(logged'[s]) + h)
    BY <2>1, <2>2
  <2>6. QED
    BY <2>1, <2>3, <2>4, <2>5 DEF due
<1>12. CASE ReadBody(s)
  <2>1. /\ pace' = pace /\ serving' = serving /\ todo' = todo
        /\ logged'[s] = Append(logged[s], Body(s)) /\ sub'[s] = "head"
        /\ InStep(s) /\ got'[s] = None /\ Body(s) \in Packet
        /\ \A h \in Nat : Follows(due, Len(logged[s]), Stream(got[s], wire[s]), h, pace[s])
                    => h - 1 \in Nat /\ Follows(due, Len(logged[s]) + 1, wire'[s], h - 1, pace[s])
    <3>1. got'[s] # Junk
      BY DEF InStep
    <3>2. QED
      BY <1>1, <1>2, <1>12, <3>1, ReadsBody
  <2>2. PICK h \in Nat : /\ Follows(due, n, Stream(got[s], wire[s]), h, pace[s])
                         /\ serving = s /\ pace[s] = "direct" => Left(due, todo, n + h)
    BY <1>2, <2>1 DEF Reader
  <2>3. h - 1 \in Nat /\ Follows(due, n + 1, wire'[s], h - 1, pace[s])
    BY <2>1, <2>2
  <2>4. Len(logged'[s]) = n + 1 /\ Stream(got'[s], wire'[s]) = wire'[s]
    BY <1>1, <2>1 DEF Stream
  <2>5. Follows(due, Len(logged'[s]), Stream(got'[s], wire'[s]), h - 1, pace'[s])
    BY <2>1, <2>3, <2>4
  <2>6. serving' = s /\ pace'[s] = "direct" => Left(due, todo', Len(logged'[s]) + (h - 1))
    <3>1. (n + 1) + (h - 1) = n + h
      BY <1>4
    <3>2. QED
      BY <2>1, <2>2, <2>4, <3>1
  <2>7. QED
    BY <2>1, <2>3, <2>5, <2>6 DEF due
<1>13. QED
  BY <1>5, <1>6, <1>7, <1>8, <1>9, <1>10, <1>11, <1>12, ReaderCases

LEMMA StepLog ==
  ASSUME TypeOK, FeedInv, [Next]_vars, NEW s \in Sub
  PROVE  Log(Due(setup), s)'
<1> DEFINE due == Due(setup)
           l == logged[s]
<1>1. setup' = setup /\ Due(setup)' = due
  BY SetupStays
<1>2. due \in Seq(Packet) /\ l \in Seq(Packet \cup {Junk}) /\ Reader(due, s) /\ Log(due, s)
  BY DueFacts DEF TypeOK, FeedInv
<1> HIDE DEF due
<1> SUFFICES /\ \A i \in 1 .. Len(logged'[s]) : logged'[s][i] # Junk =>
                  /\ i <= Len(due) /\ logged'[s][i] = due[i]
                  /\ \A j \in 1 .. i - 1 : logged'[s][j] # Junk
             /\ got'[s] # Junk => \A i \in 1 .. Len(logged'[s]) : logged'[s][i] # Junk
             /\ pace'[s] = "direct" => got'[s] # Junk
  BY <1>1 DEF Log
<1>3. \/ /\ logged'[s] = l
         /\ got'[s] = Junk \/ got'[s] = got[s] \/ InStep(s)
         /\ pace'[s] = "direct" => got'[s] # Junk
      \/ ReadBody(s)
  <2>1. pace'[s] = "direct" => pace[s] = "direct"
    <3>1. CASE Write
      <4>1. serving \in Sub
        BY <3>1 DEF Write, TypeOK
      <4>2. Taken(serving, 2) \in 0 .. 2 /\ (pace[serving] = "stuck" => Taken(serving, 2) = 0)
        <5>1. Len(wire[serving]) \in Nat /\ Len(wire[serving]) <= Room
          BY <4>1 DEF TypeOK
        <5>2. QED
          BY <5>1, BoundAssumption DEF Taken
      <4> DEFINE n == Taken(serving, 2)
                 next == CASE n = 2 -> pace[serving] [] n = 1 -> "partial" [] n = 0 -> "stuck"
      <4>3. pace' = [pace EXCEPT ![serving] = next]
        BY <3>1 DEF Write
      <4>4. next = "direct" => pace[serving] = "direct"
        <5>1. n = 2 \/ n = 1 \/ n = 0
          BY <4>2
        <5> HIDE DEF n
        <5>2. CASE n = 2
          BY <5>2
        <5>3. CASE n = 1
          BY <5>3
        <5>4. CASE n = 0
          BY <5>4
        <5>5. QED
          BY <5>1, <5>2, <5>3, <5>4
      <4> HIDE DEF next
      <4>5. QED
        BY <4>3, <4>4 DEF TypeOK
    <3>2. CASE ~ Write
      BY <3>2 DEF Next, Publish, Skip, WriteToClosed, EndReplay, Fail, Accept, Flush, FlushFails, CloseSession,
                  RunReturns, AcceptFails, Down,                  Connect, ConnectFails, Receive, ReadHead, ReadBody, Crash, ReadEof, vars
    <3>3. QED
      BY <3>1, <3>2
  <2>2. UNCHANGED <<logged[s], got[s]>> \/ ReadHead(s) \/ ReadBody(s)
    <3> USE DEF TypeOK, pubVars, subVars
    <3>1. CASE UNCHANGED vars
      BY <3>1 DEF vars
    <3>2. CASE Publish
      BY <3>2 DEF Publish, Skip, Write, WriteToClosed, EndReplay, Fail, Accept, Flush, FlushFails, CloseSession,
              RunReturns, Down
    <3>3. ASSUME NEW x \in Sub, Connect(x) \/ ConnectFails(x) \/ Crash(x) \/ ReadEof(x)
          PROVE UNCHANGED <<logged[s], got[s]>>
      BY <3>3 DEF Connect, ConnectFails, Crash, ReadEof
    <3>4. ASSUME NEW x \in Sub, ReadHead(x) \/ ReadBody(x), x # s
          PROVE UNCHANGED <<logged[s], got[s]>>
      BY <3>4 DEF ReadHead, ReadBody
    <3>5. CASE AcceptFails
      BY <3>5 DEF AcceptFails
    <3>6. QED
      BY <3>1, <3>2, <3>3, <3>4, <3>5 DEF Next, Receive
  <2>3. CASE UNCHANGED <<logged[s], got[s]>>
    BY <1>2, <2>1, <2>3 DEF Log
  <2>4. CASE ReadHead(s)
    <3>1. /\ logged' = logged /\ pace' = pace
          /\ \/ got'[s] = Junk /\ (InStep(s) => pace[s] # "direct")
             \/ InStep(s) /\ got'[s] \in Packet
      BY <1>2, <2>4, ReadsHead
    <3>2. sub[s] = "head"
      BY <2>4 DEF ReadHead
    <3>3. pace[s] = "direct" => InStep(s)
      BY <1>2, <3>2 DEF Log, InStep
    <3>4. pace'[s] = "direct" => got'[s] # Junk
      BY <2>1, <3>1, <3>3, ValueAssumption
    <3>5. QED
      BY <3>1, <3>4
  <2>5. QED
    BY <2>2, <2>3, <2>4
<1>4. CASE /\ logged'[s] = l
           /\ got'[s] = Junk \/ got'[s] = got[s] \/ InStep(s)
           /\ pace'[s] = "direct" => got'[s] # Junk
  BY <1>2, <1>4 DEF Log, InStep
<1>5. CASE ReadBody(s)
  <2> DEFINE x == Body(s)
             n == Len(l)
  <2>1. /\ pace' = pace /\ logged'[s] = Append(l, x) /\ sub[s] = "body"
        /\ \/ got'[s] = Junk /\ x = Junk /\ (InStep(s) => pace[s] # "direct")
           \/ InStep(s) /\ got'[s] = None /\ n < Len(due) /\ x = due[n + 1] /\ x \in Packet
    BY <1>2, <1>5, ReadsBody
  <2>2. x \in Packet \cup {Junk}
    BY <2>1
  <2> HIDE DEF x
  <2>3. /\ Len(logged'[s]) = n + 1 /\ n \in Nat /\ logged'[s][n + 1] = x
        /\ \A i \in 1 .. n : logged'[s][i] = l[i]
    BY <1>2, <2>1, <2>2
  <2> HIDE DEF n, l
  <2>4. /\ \A i \in 1 .. n : l[i] # Junk =>
             i <= Len(due) /\ l[i] = due[i] /\ \A j \in 1 .. i - 1 : l[j] # Junk
        /\ got[s] # Junk => \A i \in 1 .. n : l[i] # Junk
        /\ pace[s] = "direct" => got[s] # Junk
    BY <1>2 DEF Log, n, l
  <2>5. ASSUME NEW i \in 1 .. n, logged'[s][i] # Junk
        PROVE /\ i <= Len(due) /\ logged'[s][i] = due[i]
              /\ \A j \in 1 .. i - 1 : logged'[s][j] # Junk
    <3>1. l[i] # Junk /\ \A j \in 1 .. i - 1 : j \in 1 .. n
      BY <2>3, <2>5
    <3>2. QED
      BY <2>3, <2>4, <3>1
  <2>6. CASE got'[s] = Junk /\ x = Junk /\ (InStep(s) => pace[s] # "direct")
    <3>1. pace'[s] = "direct" => got'[s] # Junk
      <4>1. got[s] # Junk => InStep(s)
        BY <2>1 DEF InStep
      <4>2. QED
        BY <2>1, <2>4, <2>6, <4>1
    <3>2. \A i \in 1 .. n + 1 : logged'[s][i] # Junk => i \in 1 .. n
      BY <2>3, <2>6
    <3>3. QED
      BY <2>3, <2>5, <2>6, <3>1, <3>2
  <2>7. CASE InStep(s) /\ got'[s] = None /\ n < Len(due) /\ x = due[n + 1] /\ x \in Packet
    <3>1. x # Junk /\ got'[s] # Junk /\ got[s] # Junk
      BY <2>7, ValueAssumption DEF InStep
    <3>2. \A i \in 1 .. n : logged'[s][i] # Junk
      BY <2>3, <2>4, <3>1
    <3>3. \A i \in 1 .. n + 1 : i = n + 1 \/ i \in 1 .. n
      BY <2>3
    <3>4. \A i \in 1 .. n + 1 : logged'[s][i] # Junk
      BY <2>3, <3>1, <3>2, <3>3
    <3>5. \A i \in 1 .. n + 1 : i <= Len(due) /\ logged'[s][i] = due[i]
      <4>1. n + 1 <= Len(due) /\ logged'[s][n + 1] = due[n + 1]
        BY <1>2, <2>3, <2>7
      <4>2. QED
        BY <2>5, <3>2, <3>3, <4>1
    <3>6. \A i \in 1 .. n + 1 : \A j \in 1 .. i - 1 : j \in 1 .. n + 1
      BY <2>3
    <3>7. QED
      BY <2>3, <3>1, <3>4, <3>5, <3>6
  <2>8. QED
    BY <2>1, <2>6, <2>7 DEF n
<1>6. QED
  BY <1>3, <1>4, <1>5

LEMMA StepFeed == TypeOK /\ FeedInv /\ [Next]_vars => FeedInv'
<1> SUFFICES ASSUME TypeOK, FeedInv, [Next]_vars PROVE FeedInv'
  OBVIOUS
<1>1. Replayed(MktData(setup.sent))'
  BY StepReplayed DEF FeedInv
<1>2. ASSUME NEW s \in Sub PROVE Reader(Due(setup), s)' /\ Log(Due(setup), s)' /\ Conns(s)'
  <2>1. Conns(s)
    BY DEF FeedInv
  <2>2. QED
    BY <2>1, StepReader, StepLog, StepConns
<1>3. QED
  BY <1>1, <1>2 DEF FeedInv

LEMMA InvInOrder == TypeOK /\ FeedInv => InOrder
<1> SUFFICES ASSUME TypeOK, FeedInv, NEW s \in Sub
             PROVE /\ \A i \in DOMAIN logged[s] : logged[s][i] # Junk =>
                        /\ Wanted(logged[s][i])
                        /\ \A j \in 1 .. i - 1 : logged[s][j] # Junk /\ logged[s][j].seq < logged[s][i].seq
                   /\ \A p \in ToSet(setup.sent) :
                        Wanted(p) /\ (\E q \in ToSet(logged[s]) \ {Junk} : p.seq < q.seq) => p \in ToSet(logged[s])
                   /\ pace[s] = "direct" => got[s] # Junk /\ Junk \notin ToSet(logged[s])
  BY DEF InOrder
<1> DEFINE due == Due(setup)
           l == logged[s]
           n == Len(l)
<1>1. setup \in Setup /\ l \in Seq(Packet \cup {Junk}) /\ DOMAIN l = 1 .. n /\ n \in Nat
  BY DEF TypeOK
<1>2. /\ \A i \in 1 .. n : l[i] # Junk =>
           i <= Len(due) /\ l[i] = due[i] /\ \A j \in 1 .. i - 1 : l[j] # Junk
      /\ got[s] # Junk => \A i \in 1 .. n : l[i] # Junk
      /\ pace[s] = "direct" => got[s] # Junk
  BY DEF FeedInv, Log
<1>3. /\ due \in Seq(Packet)
      /\ \A i, j \in 1 .. Len(due) : i < j => due[i].seq < due[j].seq
      /\ \A p : Wanted(p) <=> \E i \in 1 .. Len(due) : due[i] = p
  BY <1>1, DueFacts, WantedIsDue
<1>4. \A i \in 1 .. Len(due) : due[i].seq \in Int
  BY <1>3, PacketType
<1>5. ToSet(l) = {l[i] : i \in 1 .. n}
  BY <1>1 DEF ToSet
<1> HIDE DEF due, n, l
<1>6. ASSUME NEW i \in 1 .. n, l[i] # Junk
      PROVE /\ i \in 1 .. Len(due) /\ l[i] = due[i] /\ Wanted(l[i])
            /\ \A j \in 1 .. i - 1 : l[j] # Junk /\ l[j] = due[j] /\ l[j].seq < l[i].seq
  <2>1. i \in 1 .. Len(due) /\ l[i] = due[i] /\ \A j \in 1 .. i - 1 : l[j] # Junk
    BY <1>1, <1>2, <1>3, <1>6
  <2>2. ASSUME NEW j \in 1 .. i - 1 PROVE l[j] # Junk /\ l[j] = due[j] /\ l[j].seq < l[i].seq
    <3>1. j \in 1 .. n /\ j \in 1 .. Len(due) /\ j < i
      BY <1>1, <1>3, <2>1
    <3>2. l[j] # Junk /\ l[j] = due[j]
      BY <1>2, <2>1, <3>1
    <3>3. QED
      BY <1>3, <2>1, <3>1, <3>2
  <2>3. QED
    BY <1>3, <2>1, <2>2
<1>7. ASSUME NEW p, Wanted(p), NEW q \in ToSet(l) \ {Junk}, p.seq < q.seq PROVE p \in ToSet(l)
  <2>1. PICK i \in 1 .. n : l[i] = q
    BY <1>5
  <2>2. PICK j \in 1 .. Len(due) : due[j] = p
    BY <1>3, <1>7
  <2>3. i \in 1 .. Len(due) /\ due[i] = q /\ \A k \in 1 .. i - 1 : l[k] = due[k]
    BY <1>6, <2>1
  <2>4. j < i
    <3>1. i < j => due[i].seq < due[j].seq
      BY <1>3, <2>3
    <3>2. i = j => due[i].seq = due[j].seq
      OBVIOUS
    <3>3. due[i].seq \in Int /\ due[j].seq \in Int /\ due[j].seq < due[i].seq
      BY <1>4, <1>7, <2>2, <2>3
    <3>4. ~ (i < j) /\ i # j
      BY <3>1, <3>2, <3>3
    <3>5. QED
      BY <3>4
  <2>5. j \in 1 .. i - 1 /\ j \in 1 .. n
    BY <1>1, <2>4
  <2>6. l[j] = p
    BY <2>2, <2>3, <2>5
  <2>7. QED
    BY <1>5, <2>5, <2>6
<1>8. pace[s] = "direct" => got[s] # Junk /\ Junk \notin ToSet(l)
  BY <1>2, <1>5
<1>9. QED
  BY <1>1, <1>6, <1>7, <1>8 DEF l

(* For any file, any sockets and any interleaving: what a subscriber logs   *)
(* before it loses step with the stream are the first of the messages it is *)
(* due, in their order and none left out, and it loses step only after a    *)
(* write that had to wait (Publisher.hpp:37, 143).                          *)
THEOREM StreamInOrder == Spec => []InOrder
<1>1. TypeOK /\ FeedInv /\ [Next]_vars => FeedInv'
  BY StepFeed
<1>2. QED
  BY <1>1, InitType, StepType, InitFeed, InvInOrder, PTL DEF Spec
===============================================================================
