--------------------------- MODULE IpReassProofs ---------------------------
(***************************************************************************)
(* Reassembly, proved for every size of the pools and every way to split a *)
(* datagram.  What the proofs need of counting comes from two lemmas: a    *)
(* set of naturals has a least element, and the entries that stay in the   *)
(* list are numbered by how many of them stand before them.                *)
(***************************************************************************)
EXTENDS IpReass, FiniteSetTheorems, SequenceTheorems, WellFoundedInduction, TLAPS

\* The least number principle.
LEMMA Least ==
    ASSUME NEW T, T \subseteq Nat, T # {}
    PROVE  \E m \in T : \A n \in T : m <= n
  <1> DEFINE R == OpToRel(<, Nat)
  <1>1. IsWellFoundedOn(R, Nat)
    BY NatLessThanWellFounded
  <1>2. PICK m \in T : \A n \in T : ~(<<n, m>> \in R)
    <2> HIDE DEF R
    <2> QED BY <1>1, WFMin
  <1>3. ASSUME NEW n \in T, n < m PROVE FALSE
    <2>1. <<n, m>> \in R
      BY <1>3 DEF OpToRel
    <2> QED BY <1>2, <2>1
  <1>4. ASSUME NEW n \in T PROVE m <= n
    <2>1. n \in Int /\ m \in Int
      OBVIOUS
    <2> QED BY <1>3, <2>1
  <1> QED BY <1>4

-----------------------------------------------------------------------------
\* The members of a finite set of naturals, counted from below.
LEMMA PlaceFacts ==
    ASSUME NEW K, \A x \in K : x \in Nat, IsFiniteSet(K)
    PROVE  /\ \A i \in Nat : Place(K, i) \in 0 .. Cardinality(K)
           /\ \A i, j \in Nat : i <= j => Place(K, i) <= Place(K, j)
           /\ \A i \in Nat, j \in K : i < j => Place(K, i) < Place(K, j)
           /\ \A j \in K : Place(K, j) >= 1
  <1>1. ASSUME NEW i \in Nat
        PROVE  IsFiniteSet({j \in K : j <= i}) /\ Place(K, i) \in 0 .. Cardinality(K)
    <2> DEFINE A == {j \in K : j <= i}
    <2>1. A \in SUBSET K
      OBVIOUS
    <2>2. IsFiniteSet(A) /\ Cardinality(A) <= Cardinality(K)
      <3> HIDE DEF A
      <3> QED BY <2>1, FS_Subset
    <2>3. Cardinality(A) \in Nat /\ Cardinality(K) \in Nat
      <3> HIDE DEF A
      <3> QED BY <2>2, FS_CardinalityType
    <2> QED BY <2>2, <2>3 DEF Place
  <1>2. ASSUME NEW i \in Nat, NEW j \in Nat, i <= j PROVE Place(K, i) <= Place(K, j)
    <2> DEFINE A == {k \in K : k <= i}
               B == {k \in K : k <= j}
    <2>1. A \in SUBSET B
      BY <1>2
    <2>2. IsFiniteSet(B)
      BY <1>1
    <2>3. Cardinality(A) <= Cardinality(B)
      <3> HIDE DEF A, B
      <3> QED BY <2>1, <2>2, FS_Subset
    <2> QED BY <2>3 DEF Place
  <1>3. ASSUME NEW i \in Nat, NEW j \in K, i < j PROVE Place(K, i) < Place(K, j)
    <2> DEFINE A == {k \in K : k <= i}
               B == {k \in K : k <= j}
    <2>0. j \in Nat
      OBVIOUS
    <2>1. A \in SUBSET B /\ j \in B /\ j \notin A
      <3>1. ASSUME NEW x \in K, x <= i PROVE x <= j
        <4>1. x \in Nat
          OBVIOUS
        <4> QED BY <1>3, <2>0, <3>1, <4>1
      <3>2. ~(j <= i) /\ j <= j
        BY <1>3, <2>0
      <3> QED BY <3>1, <3>2
    <2>2. IsFiniteSet(B) /\ IsFiniteSet(A)
      BY <1>1, <2>0
    <2>3. Cardinality(A) <= Cardinality(B) /\ Cardinality(A) # Cardinality(B)
      <3> HIDE DEF A, B
      <3> QED BY <2>1, <2>2, FS_Subset
    <2>4. Cardinality(A) \in Nat /\ Cardinality(B) \in Nat
      <3> HIDE DEF A, B
      <3> QED BY <2>2, FS_CardinalityType
    <2>5. Cardinality(A) < Cardinality(B)
      <3> HIDE DEF A, B
      <3> QED BY <2>3, <2>4
    <2> QED BY <2>5 DEF Place
  <1>4. ASSUME NEW j \in K PROVE Place(K, j) >= 1
    <2> DEFINE B == {k \in K : k <= j}
    <2>0. j \in Nat /\ j \in B
      OBVIOUS
    <2>1. IsFiniteSet(B)
      BY <1>1, <2>0
    <2>2. Cardinality(B) \in Nat /\ Cardinality(B) # 0
      <3> HIDE DEF B
      <3> QED BY <2>0, <2>1, FS_CardinalityType, FS_EmptySet
    <2>3. Cardinality(B) >= 1
      <3> HIDE DEF B
      <3> QED BY <2>2
    <2> QED BY <2>3 DEF Place
  <1> QED BY <1>1, <1>2, <1>3, <1>4

\* No two members have the same place.
LEMMA PlaceOnce ==
    ASSUME NEW K, \A x \in K : x \in Nat, IsFiniteSet(K),
           NEW i \in K, NEW j \in K, Place(K, i) = Place(K, j)
    PROVE  i = j
  <1>1. i \in Nat /\ j \in Nat /\ Cardinality(K) \in Nat
    BY FS_CardinalityType
  <1>2. Place(K, i) \in Nat
    <2>1. Place(K, i) \in 0 .. Cardinality(K)
      BY <1>1, PlaceFacts
    <2> QED BY <1>1, <2>1
  <1>3. ~(Place(K, i) < Place(K, j)) /\ ~(Place(K, j) < Place(K, i))
    BY <1>2
  <1>4. ~(i < j) /\ ~(j < i)
    BY <1>1, <1>3, PlaceFacts
  <1> QED BY <1>1, <1>4

\* Every place up to the size of the set is taken.
LEMMA PlaceTaken ==
    ASSUME NEW n \in Nat, NEW K, K \subseteq 1 .. n, NEW k \in 1 .. Cardinality(K)
    PROVE  \E i \in K : Place(K, i) = k
  <1>0. IsFiniteSet(K) /\ \A x \in K : x \in Nat /\ x >= 1 /\ x <= n
    <2>1. IsFiniteSet(1 .. n) /\ K \in SUBSET (1 .. n)
      BY FS_Interval
    <2>2. IsFiniteSet(K)
      BY <2>1, FS_Subset
    <2>3. ASSUME NEW x \in K PROVE x \in Nat /\ x >= 1 /\ x <= n
      <3>1. x \in 1 .. n
        OBVIOUS
      <3> QED BY <3>1
    <2> QED BY <2>2, <2>3
  <1>1. Cardinality(K) \in Nat /\ k \in Nat /\ k >= 1
    BY <1>0, FS_CardinalityType
  <1>2. \A i \in Nat : Place(K, i) \in Nat
    <2>1. \A x \in K : x \in Nat
      BY <1>0
    <2>2. \A i \in Nat : Place(K, i) \in 0 .. Cardinality(K)
      BY <1>0, <2>1, PlaceFacts
    <2> QED BY <1>1, <2>2
  <1> DEFINE T == {i \in Nat : Place(K, i) >= k}
  <1>3. n \in T
    <2>1. {j \in K : j <= n} = K
      BY <1>0
    <2> QED BY <1>1, <2>1 DEF Place
  <1>4. PICK m \in T : \A i \in T : m <= i
    <2>1. T \subseteq Nat
      OBVIOUS
    <2> HIDE DEF T
    <2> QED BY <1>3, <2>1, Least
  <1>5. m \in Nat /\ Place(K, m) >= k /\ Place(K, m) \in Nat
    BY <1>2
  <1>6. m # 0
    <2>1. {j \in K : j <= 0} = {}
      <3>1. ASSUME NEW j \in K PROVE ~(j <= 0)
        BY <1>0
      <3> QED BY <3>1
    <2>2. Place(K, 0) = 0
      BY <2>1, FS_EmptySet DEF Place
    <2> QED BY <1>1, <1>5, <2>2
  <1> DEFINE p == m - 1
  <1>7. p \in Nat /\ m = p + 1 /\ p < m
    BY <1>5, <1>6
  <1> HIDE DEF p
  <1>8. Place(K, p) \in Nat /\ Place(K, p) < k
    <2>1. p \notin T
      BY <1>4, <1>5, <1>7
    <2> QED BY <1>1, <1>2, <1>7, <2>1
  <1> HIDE DEF T
  <1> DEFINE A == {j \in K : j <= p}
             B == {j \in K : j <= m}
  <1>9. IsFiniteSet(A)
    <2>1. A \in SUBSET K
      OBVIOUS
    <2> HIDE DEF A
    <2> QED BY <1>0, <2>1, FS_Subset
  <1>10. ASSUME NEW j \in K PROVE j <= m <=> j <= p \/ j = m
    <2>1. j \in Nat
      BY <1>0
    <2> QED BY <1>5, <1>7, <2>1
  <1>11. ~(m <= p)
    BY <1>5, <1>7
  <1>12. m \in K
    <2>1. ASSUME m \notin K PROVE FALSE
      <3>1. A = B
        BY <1>10, <2>1
      <3>2. Place(K, m) = Place(K, p)
        BY <3>1 DEF Place
      <3> QED BY <1>1, <1>5, <1>8, <3>2
    <2> QED BY <2>1
  <1>13. Place(K, m) = Place(K, p) + 1
    <2>1. B = A \cup {m} /\ m \notin A
      BY <1>10, <1>11, <1>12
    <2>2. Cardinality(B) = Cardinality(A) + 1
      <3> HIDE DEF A, B
      <3> QED BY <1>9, <2>1, FS_AddElement
    <2> QED BY <2>2 DEF Place
  <1>14. Place(K, m) = k
    BY <1>1, <1>5, <1>8, <1>13
  <1> QED BY <1>12, <1>14

-----------------------------------------------------------------------------
\* Lists.

\* w is the list without the entries E, in the same order.
Thinned(w, list, E) ==
    \E pos \in [DOMAIN w -> DOMAIN list \ E] :
        /\ \A k \in DOMAIN w : w[k] = list[pos[k]]
        /\ \A k, l \in DOMAIN w : k < l => pos[k] < pos[l]
        /\ \A i \in DOMAIN list \ E : \E k \in DOMAIN w : pos[k] = i

LEMMA AsSeq ==
    ASSUME NEW S, NEW n \in Nat, NEW w \in [1 .. n -> S]
    PROVE  w \in Seq(S) /\ Len(w) = n /\ DOMAIN w = 1 .. n
  <1>1. w \in Seq(S)
    BY SeqDef
  <1>2. DOMAIN w = 1 .. Len(w) /\ Len(w) \in Nat /\ DOMAIN w = 1 .. n
    BY <1>1, LenProperties
  <1>3. Len(w) = n
    BY <1>2, SMT
  <1> QED BY <1>1, <1>2, <1>3

LEMMA WithoutIsThinned ==
    ASSUME NEW S, reassdatagrams \in Seq(S), NEW E \in SUBSET Positions
    PROVE  /\ Without(E) \in Seq(S)
           /\ Len(Without(E)) = Cardinality(Positions \ E)
           /\ Thinned(Without(E), reassdatagrams, E)
  <1> DEFINE n == Len(reassdatagrams)
             K == Positions \ E
             c == Cardinality(K)
             pos == [k \in 1 .. c |-> CHOOSE i \in K : Place(K, i) = k]
             w == Without(E)
  <1>1. n \in Nat /\ Positions = 1 .. n /\ K \subseteq 1 .. n
    BY LenProperties DEF Positions
  <1>2. IsFiniteSet(K) /\ c \in Nat /\ \A x \in K : x \in Nat
    <2>1. IsFiniteSet(1 .. n) /\ K \in SUBSET (1 .. n)
      BY <1>1, FS_Interval
    <2>2. IsFiniteSet(K)
      <3> HIDE DEF K, n
      <3> QED BY <2>1, FS_Subset
    <2>3. c \in Nat
      <3> HIDE DEF K
      <3> QED BY <2>2, FS_CardinalityType
    <2>4. ASSUME NEW x \in K PROVE x \in Nat
      <3>1. x \in 1 .. n
        BY <1>1
      <3> QED BY <3>1
    <2> QED BY <2>2, <2>3, <2>4
  <1>3. w = [k \in 1 .. c |-> reassdatagrams[pos[k]]]
    BY DEF Without
  <1> HIDE DEF K, w, n
  <1>4. ASSUME NEW k \in 1 .. c PROVE pos[k] \in K /\ Place(K, pos[k]) = k
    <2>1. \E i \in K : Place(K, i) = k
      BY <1>1, PlaceTaken
    <2> QED BY <2>1
  <1> HIDE DEF pos
  <1>5. pos \in [1 .. c -> K]
    <2>1. pos = [k \in 1 .. c |-> pos[k]]
      BY DEF pos
    <2> QED BY <1>4, <2>1
  <1>6. \A k \in 1 .. c : reassdatagrams[pos[k]] \in S
    BY <1>1, <1>5, LenProperties DEF n, K
  <1>7. w \in Seq(S) /\ Len(w) = c /\ DOMAIN w = 1 .. c
    <2>1. w \in [1 .. c -> S]
      BY <1>3, <1>6
    <2> HIDE DEF c
    <2> QED BY <1>2, <2>1, AsSeq
  <1>8. ASSUME NEW k \in 1 .. c, NEW l \in 1 .. c, k < l PROVE pos[k] < pos[l]
    <2>1. pos[k] \in K /\ pos[l] \in K /\ Place(K, pos[k]) = k /\ Place(K, pos[l]) = l
      BY <1>4
    <2>2. pos[k] \in Nat /\ pos[l] \in Nat /\ k \in Int /\ l \in Int
      BY <1>2, <2>1
    <2>3. ASSUME pos[l] <= pos[k] PROVE FALSE
      <3>1. Place(K, pos[l]) <= Place(K, pos[k])
        BY <1>2, <2>2, <2>3, PlaceFacts
      <3> QED BY <1>8, <2>1, <2>2, <3>1
    <2> QED BY <2>2, <2>3
  <1>9. ASSUME NEW i \in K PROVE \E k \in 1 .. c : pos[k] = i
    <2> DEFINE k == Place(K, i)
    <2>1. i \in Nat /\ k \in 1 .. c
      <3>1. i \in Nat
        BY <1>2
      <3>2. k \in 0 .. c /\ k >= 1
        BY <1>2, <3>1, PlaceFacts
      <3> HIDE DEF k, c
      <3> QED BY <1>2, <3>1, <3>2
    <2>2. pos[k] \in K /\ Place(K, pos[k]) = k
      BY <1>4, <2>1
    <2>3. pos[k] = i
      <3> HIDE DEF k
      <3>1. Place(K, pos[k]) = Place(K, i)
        BY <2>2 DEF k
      <3> QED BY <1>2, <2>2, <3>1, PlaceOnce
    <2> QED BY <2>1, <2>3
  <1>10. Thinned(w, reassdatagrams, E)
    <2>1. DOMAIN reassdatagrams \ E = K
      BY DEF K, Positions
    <2> HIDE DEF c
    <2>2. \A k \in DOMAIN w : w[k] = reassdatagrams[pos[k]]
      BY <1>3, <1>7
    <2>3. \A k, l \in DOMAIN w : k < l => pos[k] < pos[l]
      BY <1>7, <1>8
    <2>4. \A i \in K : \E k \in DOMAIN w : pos[k] = i
      BY <1>7, <1>9
    <2>5. pos \in [DOMAIN w -> K]
      BY <1>5, <1>7
    <2> QED BY <2>1, <2>2, <2>3, <2>4, <2>5, Zenon DEF Thinned
  <1> QED BY <1>7, <1>10 DEF w, K

-----------------------------------------------------------------------------
\* What a fragment is, and how many buffers it takes.
LEMMA FragmentFacts ==
    ASSUME NEW f \in Fragments
    PROVE  /\ f.id \in Ids /\ f.start \in Nat /\ f.end \in Nat /\ f.start < f.end
           /\ f.end <= DatagramLen /\ f.end - f.start < DatagramLen
           /\ DatagramLen \in Nat
  BY ReassAssumption, SMT DEF Fragments

LEMMA ClenFacts ==
    ASSUME NEW f \in Fragments
    PROVE  Clen(f) \in Nat /\ Clen(f) >= 1
  <1> DEFINE x == f.end - f.start + BufferLen - 1
  <1>1. x \in Nat /\ BufferLen \in Nat /\ BufferLen > 0 /\ x >= BufferLen
    BY FragmentFacts, ReassAssumption, SMT
  <1> HIDE DEF x
  <1>2. x \div BufferLen \in Nat /\ x \div BufferLen >= 1
    BY <1>1, SMT
  <1> QED BY <1>2 DEF Clen, x

\* The parts of a well-formed entry and of a well-formed list.
EntryOK(d) ==
    /\ \A g \in d.frags : g.id = d.id
    /\ d.lastfrag => \E g \in d.frags : IsLast(g)
    /\ \A g, h \in d.frags : g # h => g.end <= h.start \/ h.end <= g.start

OneEach(list) == \A i, j \in DOMAIN list : list[i].id = list[j].id => i = j
ByAge(list)   == \A i, j \in DOMAIN list : i < j => list[i].timer >= list[j].timer

ListOK(list) ==
    /\ list \in Seq(Datagrams)
    /\ \A i \in DOMAIN list : EntryOK(list[i])
    /\ OneEach(list)
    /\ ByAge(list)

LEMMA ListEntries ==
    ASSUME NEW list, ListOK(list)
    PROVE  /\ Len(list) \in Nat /\ DOMAIN list = 1 .. Len(list)
           /\ \A i \in DOMAIN list : list[i] \in Datagrams
  BY LenProperties DEF ListOK

\* Taking entries out leaves a well-formed list, with the buffers of those that stay.
LEMMA ThinnedOK ==
    ASSUME NEW list, ListOK(list), NEW E, NEW w \in Seq(Datagrams), Thinned(w, list, E)
    PROVE  /\ ListOK(w)
           /\ Queued(w, DOMAIN w) = Queued(list, DOMAIN list \ E)
  <1>1. PICK pos \in [DOMAIN w -> DOMAIN list \ E] :
            /\ \A k \in DOMAIN w : w[k] = list[pos[k]]
            /\ \A k, l \in DOMAIN w : k < l => pos[k] < pos[l]
            /\ \A i \in DOMAIN list \ E : \E k \in DOMAIN w : pos[k] = i
    BY Zenon DEF Thinned
  <1>2. \A k \in DOMAIN w : pos[k] \in DOMAIN list \ E
    BY <1>1
  <1>3. \A k \in DOMAIN w : EntryOK(w[k])
    BY <1>1, <1>2 DEF ListOK
  <1>4. OneEach(w)
    <2> SUFFICES ASSUME NEW k \in DOMAIN w, NEW l \in DOMAIN w, w[k].id = w[l].id
                 PROVE  k = l
      BY DEF OneEach
    <2>1. pos[k] = pos[l]
      BY <1>1, <1>2 DEF ListOK, OneEach
    <2>2. k \in Nat /\ l \in Nat
      BY LenProperties
    <2>3. pos[k] \in Nat /\ pos[l] \in Nat
      BY <1>2, ListEntries
    <2>4. ~(k < l) /\ ~(l < k)
      BY <1>1, <2>1, <2>3
    <2> QED BY <2>2, <2>4
  <1>5. ByAge(w)
    BY <1>1, <1>2 DEF ListOK, ByAge
  <1>6. Queued(w, DOMAIN w) = Queued(list, DOMAIN list \ E)
    <2>1. {Held(w[k]) : k \in DOMAIN w} = {Held(list[i]) : i \in DOMAIN list \ E}
      BY <1>1, <1>2
    <2> QED BY <2>1 DEF Queued
  <1> QED BY <1>3, <1>4, <1>5, <1>6 DEF ListOK

-----------------------------------------------------------------------------
\* Counting buffers.

LEMMA DisjointUnion ==
    ASSUME NEW A, NEW B, IsFiniteSet(A), IsFiniteSet(B), A \cap B = {}
    PROVE  /\ IsFiniteSet(A \cup B)
           /\ Cardinality(A \cup B) = Cardinality(A) + Cardinality(B)
  <1>1. /\ IsFiniteSet(A \cup B)
        /\ Cardinality(A \cup B) = Cardinality(A) + Cardinality(B) - Cardinality(A \cap B)
    BY FS_Union
  <1>2. Cardinality(A) \in Nat /\ Cardinality(B) \in Nat
    BY FS_CardinalityType
  <1>3. Cardinality(A \cap B) = 0
    BY FS_EmptySet
  <1> QED BY <1>1, <1>2, <1>3

\* What it means to be one of the buffers of the entries E.
LEMMA QueuedMember ==
    ASSUME NEW list, NEW E, NEW x
    PROVE  x \in Queued(list, E) <=>
               \E i \in E : \E f \in list[i].frags : \E k \in 1 .. Clen(f) : x = <<f, k>>
  BY DEF Queued, Held

\* The buffers of different entries are different.
LEMMA QueuedApart ==
    ASSUME NEW list, ListOK(list), NEW E \in SUBSET DOMAIN list
    PROVE  /\ Queued(list, E) \cap Queued(list, DOMAIN list \ E) = {}
           /\ Queued(list, DOMAIN list)
                  = Queued(list, E) \cup Queued(list, DOMAIN list \ E)
  <1>1. ASSUME NEW x \in Queued(list, E), x \in Queued(list, DOMAIN list \ E)
        PROVE  FALSE
    <2>1. PICK i \in E : \E f \in list[i].frags : \E k \in 1 .. Clen(f) : x = <<f, k>>
      BY QueuedMember
    <2>2. PICK f \in list[i].frags : \E k \in 1 .. Clen(f) : x = <<f, k>>
      BY <2>1
    <2>3. PICK j \in DOMAIN list \ E :
              \E g \in list[j].frags : \E k \in 1 .. Clen(g) : x = <<g, k>>
      BY <1>1, QueuedMember
    <2>4. PICK g \in list[j].frags : \E k \in 1 .. Clen(g) : x = <<g, k>>
      BY <2>3
    <2>5. f = g
      BY <2>2, <2>4
    <2>6. f.id = list[i].id /\ f.id = list[j].id
      BY <2>5 DEF ListOK, EntryOK
    <2>7. i = j
      BY <2>6 DEF ListOK, OneEach
    <2> QED BY <2>7
  <1>2. Queued(list, DOMAIN list) = Queued(list, E) \cup Queued(list, DOMAIN list \ E)
    BY DEF Queued
  <1> QED BY <1>1, <1>2

LEMMA QueuedSplit ==
    ASSUME NEW list, ListOK(list), NEW E \in SUBSET DOMAIN list,
           IsFiniteSet(Queued(list, DOMAIN list))
    PROVE  /\ IsFiniteSet(Queued(list, E)) /\ Cardinality(Queued(list, E)) \in Nat
           /\ IsFiniteSet(Queued(list, DOMAIN list \ E))
           /\ Cardinality(Queued(list, DOMAIN list \ E)) \in Nat
           /\ Cardinality(Queued(list, DOMAIN list))
                  = Cardinality(Queued(list, E))
                        + Cardinality(Queued(list, DOMAIN list \ E))
  <1> DEFINE A == Queued(list, E)
             B == Queued(list, DOMAIN list \ E)
             Q == Queued(list, DOMAIN list)
  <1>1. A \cap B = {} /\ Q = A \cup B
    BY QueuedApart
  <1> HIDE DEF A, B, Q
  <1>2. IsFiniteSet(Q) /\ A \in SUBSET Q /\ B \in SUBSET Q
    BY <1>1 DEF Q
  <1>3. IsFiniteSet(A) /\ IsFiniteSet(B)
    BY <1>2, FS_Subset
  <1>4. Cardinality(A) \in Nat /\ Cardinality(B) \in Nat
    BY <1>3, FS_CardinalityType
  <1>5. Cardinality(Q) = Cardinality(A) + Cardinality(B)
    BY <1>1, <1>3, DisjointUnion
  <1> QED BY <1>3, <1>4, <1>5 DEF A, B, Q

\* No entries hold no buffers.
LEMMA QueuedNone == ASSUME NEW list PROVE Queued(list, {}) = {}
  BY DEF Queued

\* The buffers of one fragment.
LEMMA OneFragment ==
    ASSUME NEW f \in Fragments
    PROVE  /\ IsFiniteSet({f} \X (1 .. Clen(f)))
           /\ Cardinality({f} \X (1 .. Clen(f))) = Clen(f)
  <1> DEFINE c == Clen(f)
  <1>1. c \in Nat /\ c >= 1
    BY ClenFacts
  <1> HIDE DEF c
  <1>2. IsFiniteSet(1 .. c) /\ Cardinality(1 .. c) = c
    BY <1>1, FS_Interval
  <1>3. IsFiniteSet({f}) /\ Cardinality({f}) = 1
    BY FS_Singleton
  <1>4. IsFiniteSet({f} \X (1 .. c)) /\ Cardinality({f} \X (1 .. c)) = 1 * c
    BY <1>2, <1>3, FS_Product
  <1> QED BY <1>1, <1>4 DEF c

-----------------------------------------------------------------------------
\* Entering a fragment.

\* f repeats no part of its datagram in the list.
Fresh(list, f) ==
    \A i \in DOMAIN list : list[i].id = f.id =>
        \A g \in list[i].frags : ~(f.start < g.end /\ g.start < f.end)

\* An entry with one more fragment.
With(d, f) == [d EXCEPT !.frags = @ \cup {f}, !.lastfrag = @ \/ IsLast(f)]
First(f)   == [id |-> f.id, frags |-> {f}, lastfrag |-> IsLast(f), timer |-> IP_REASS_MAXAGE]

LEMMA WithOK ==
    ASSUME NEW d \in Datagrams, EntryOK(d), NEW f \in Fragments, f.id = d.id,
           \A g \in d.frags : ~(f.start < g.end /\ g.start < f.end)
    PROVE  /\ With(d, f) \in Datagrams /\ EntryOK(With(d, f))
           /\ With(d, f).id = d.id /\ With(d, f).timer = d.timer
           /\ With(d, f).frags = d.frags \cup {f}
           /\ f \notin d.frags
  <1>1. /\ With(d, f).id = d.id /\ With(d, f).timer = d.timer
        /\ With(d, f).frags = d.frags \cup {f}
        /\ With(d, f).lastfrag = (d.lastfrag \/ IsLast(f))
    BY DEF With, Datagrams
  <1>2. With(d, f) \in Datagrams
    <2> DEFINE F == d.frags \cup {f}
               b == d.lastfrag \/ IsLast(f)
    <2>1. F \in (SUBSET Fragments) \ {{}}
      <3>1. d.frags \in SUBSET Fragments
        BY DEF Datagrams
      <3> QED BY <3>1
    <2>2. b \in BOOLEAN
      OBVIOUS
    <2>3. With(d, f) = [d EXCEPT !.frags = F, !.lastfrag = b]
      BY DEF With
    <2> HIDE DEF F, b
    <2>4. [d EXCEPT !.frags = F, !.lastfrag = b] \in Datagrams
      BY <2>1, <2>2 DEF Datagrams
    <2> QED BY <2>3, <2>4
  <1>3. d.frags \subseteq Fragments
    BY DEF Datagrams
  <1>4. ASSUME NEW g \in d.frags PROVE g.end <= f.start \/ f.end <= g.start
    <2>1. g \in Fragments
      BY <1>3
    <2> QED BY <2>1, FragmentFacts
  <1>5. f \notin d.frags
    BY FragmentFacts
  <1>6. EntryOK(With(d, f))
    <2>1. \A g \in With(d, f).frags : g.id = With(d, f).id
      BY <1>1 DEF EntryOK
    <2>2. With(d, f).lastfrag => \E g \in With(d, f).frags : IsLast(g)
      BY <1>1 DEF EntryOK
    <2>3. \A g, h \in With(d, f).frags : g # h => g.end <= h.start \/ h.end <= g.start
      BY <1>1, <1>4 DEF EntryOK
    <2> QED BY <2>1, <2>2, <2>3 DEF EntryOK
  <1> QED BY <1>1, <1>2, <1>5, <1>6

LEMMA FirstOK ==
    ASSUME NEW f \in Fragments
    PROVE  First(f) \in Datagrams /\ EntryOK(First(f))
  <1>1. f.id \in Ids /\ IP_REASS_MAXAGE \in 0 .. IP_REASS_MAXAGE /\ IsLast(f) \in BOOLEAN
    BY FragmentFacts, ReassAssumption DEF IsLast
  <1>2. First(f) \in Datagrams
    <2> DEFINE F == {f}
               b == IsLast(f)
    <2>1. F \in (SUBSET Fragments) \ {{}} /\ b \in BOOLEAN
      BY <1>1
    <2>2. First(f) = [id |-> f.id, frags |-> F, lastfrag |-> b, timer |-> IP_REASS_MAXAGE]
      BY DEF First
    <2> HIDE DEF F, b
    <2> QED BY <1>1, <2>1, <2>2 DEF Datagrams
  <1>3. EntryOK(First(f))
    BY DEF First, EntryOK
  <1> QED BY <1>2, <1>3

\* f joins the entry of its datagram.
LEMMA EnterKnown ==
    ASSUME NEW list, ListOK(list), NEW f \in Fragments, Fresh(list, f),
           NEW m \in DOMAIN list, list[m].id = f.id
    PROVE  /\ ListOK(Enter(list, f)) /\ Len(Enter(list, f)) = Len(list)
           /\ \A i \in DOMAIN list : list[i].frags \subseteq Enter(list, f)[i].frags
           /\ \A i \in DOMAIN list : Enter(list, f)[i].id = list[i].id
           /\ Queued(Enter(list, f), DOMAIN list)
                  = Queued(list, DOMAIN list) \cup ({f} \X (1 .. Clen(f)))
           /\ Queued(list, DOMAIN list) \cap ({f} \X (1 .. Clen(f))) = {}
  <1> DEFINE e == Enter(list, f)
             n == Len(list)
  <1>0. n \in Nat /\ DOMAIN list = 1 .. n /\ \A i \in DOMAIN list : list[i] \in Datagrams
    BY ListEntries
  <1>1. e = [i \in DOMAIN list |-> IF list[i].id # f.id THEN list[i] ELSE With(list[i], f)]
    BY DEF Enter, With
  <1> HIDE DEF e, n
  <1>2. ASSUME NEW i \in DOMAIN list, list[i].id = f.id PROVE i = m
    BY <1>2 DEF ListOK, OneEach
  <1>3. ASSUME NEW i \in DOMAIN list, i # m PROVE e[i] = list[i]
    BY <1>1, <1>2, <1>3
  <1>4. e[m] = With(list[m], f)
    BY <1>1
  <1>5. /\ e[m] \in Datagrams /\ EntryOK(e[m]) /\ e[m].id = list[m].id
        /\ e[m].timer = list[m].timer /\ e[m].frags = list[m].frags \cup {f}
        /\ f \notin list[m].frags
    <2>1. list[m] \in Datagrams /\ EntryOK(list[m])
      BY <1>0 DEF ListOK
    <2>2. \A g \in list[m].frags : ~(f.start < g.end /\ g.start < f.end)
      BY DEF Fresh
    <2> QED BY <1>4, <2>1, <2>2, WithOK
  <1>6. ASSUME NEW i \in DOMAIN list
        PROVE  /\ e[i] \in Datagrams /\ EntryOK(e[i]) /\ e[i].id = list[i].id
               /\ e[i].timer = list[i].timer /\ list[i].frags \subseteq e[i].frags
    <2>1. CASE i = m
      BY <1>5, <2>1
    <2>2. CASE i # m
      BY <1>0, <1>3, <2>2 DEF ListOK
    <2> QED BY <2>1, <2>2
  <1>7. e \in Seq(Datagrams) /\ Len(e) = n /\ DOMAIN e = DOMAIN list
    <2>1. DOMAIN e = DOMAIN list
      BY <1>1
    <2>2. e = [i \in DOMAIN list |-> e[i]]
      BY <1>1
    <2>3. e \in [1 .. n -> Datagrams]
      BY <1>0, <1>6, <2>2
    <2> QED BY <1>0, <2>1, <2>3, AsSeq
  <1>8. ListOK(e)
    <2>1. OneEach(e)
      BY <1>6, <1>7 DEF ListOK, OneEach
    <2>2. ByAge(e)
      BY <1>6, <1>7 DEF ListOK, ByAge
    <2> QED BY <1>6, <1>7, <2>1, <2>2 DEF ListOK
  <1>9. Queued(e, DOMAIN list) = Queued(list, DOMAIN list) \cup ({f} \X (1 .. Clen(f)))
    <2>1. Held(e[m]) = Held(list[m]) \cup ({f} \X (1 .. Clen(f)))
      BY <1>5 DEF Held
    <2>2. \A i \in DOMAIN list : i # m => Held(e[i]) = Held(list[i])
      BY <1>3
    <2>3. \A i \in DOMAIN list :
              Held(e[i]) = IF i = m THEN Held(list[m]) \cup ({f} \X (1 .. Clen(f)))
                                    ELSE Held(list[i])
      BY <2>1, <2>2
    <2> HIDE DEF Held
    <2> DEFINE F == {f} \X (1 .. Clen(f))
    <2>4. ASSUME NEW x PROVE x \in Queued(e, DOMAIN list) <=>
                                 x \in Queued(list, DOMAIN list) \/ x \in F
      <3> HIDE DEF F
      <3>1. x \in Queued(e, DOMAIN list) <=> \E i \in DOMAIN list : x \in Held(e[i])
        BY DEF Queued
      <3>2. x \in Queued(list, DOMAIN list) <=> \E i \in DOMAIN list : x \in Held(list[i])
        BY DEF Queued
      <3>3. \A i \in DOMAIN list :
                x \in Held(e[i]) <=> x \in Held(list[i]) \/ (i = m /\ x \in F)
        BY <2>3 DEF F
      <3> QED BY <3>1, <3>2, <3>3
    <2> QED BY <2>4
  <1>10. Queued(list, DOMAIN list) \cap ({f} \X (1 .. Clen(f))) = {}
    <2> SUFFICES ASSUME NEW x \in Queued(list, DOMAIN list), x \in {f} \X (1 .. Clen(f))
                 PROVE  FALSE
      OBVIOUS
    <2>1. PICK i \in DOMAIN list : \E g \in list[i].frags : \E k \in 1 .. Clen(g) : x = <<g, k>>
      BY QueuedMember
    <2>2. f \in list[i].frags
      BY <2>1
    <2>3. list[i].id = f.id
      BY <2>2 DEF ListOK, EntryOK
    <2> QED BY <1>2, <1>5, <2>2, <2>3
  <1> QED BY <1>6, <1>7, <1>8, <1>9, <1>10 DEF e, n

\* f begins a new entry, at the front.
LEMMA Prepend ==
    ASSUME NEW S, NEW list \in Seq(S), NEW d \in S
    PROVE  LET e == <<d>> \o list
           IN  /\ e \in Seq(S) /\ Len(e) = Len(list) + 1 /\ e[1] = d
               /\ \A i \in 1 .. Len(list) : e[i + 1] = list[i]
  <1>1. <<d>> \in Seq(S) /\ Len(<<d>>) = 1 /\ <<d>>[1] = d
    OBVIOUS
  <1>2. Len(list) \in Nat
    BY LenProperties
  <1> QED BY <1>1, <1>2, ConcatProperties

LEMMA EnterNew ==
    ASSUME NEW list, ListOK(list), NEW f \in Fragments,
           \A i \in DOMAIN list : list[i].id # f.id
    PROVE  /\ ListOK(Enter(list, f)) /\ Len(Enter(list, f)) = Len(list) + 1
           /\ \A i \in DOMAIN list : /\ i + 1 \in DOMAIN Enter(list, f)
                                     /\ Enter(list, f)[i + 1] = list[i]
           /\ Queued(Enter(list, f), DOMAIN Enter(list, f))
                  = Queued(list, DOMAIN list) \cup ({f} \X (1 .. Clen(f)))
           /\ Queued(list, DOMAIN list) \cap ({f} \X (1 .. Clen(f))) = {}
  <1> DEFINE e == Enter(list, f)
             n == Len(list)
             d == First(f)
  <1>0. n \in Nat /\ DOMAIN list = 1 .. n /\ \A i \in DOMAIN list : list[i] \in Datagrams
    BY ListEntries
  <1>1. d \in Datagrams /\ EntryOK(d) /\ d.id = f.id /\ d.frags = {f}
        /\ d.timer = IP_REASS_MAXAGE
    BY FirstOK DEF First
  <1>2. e = <<d>> \o list
    BY DEF Enter, First
  <1> HIDE DEF e, n, d
  <1>3. /\ e \in Seq(Datagrams) /\ Len(e) = n + 1 /\ e[1] = d
        /\ \A i \in 1 .. n : e[i + 1] = list[i]
    <2>1. list \in Seq(Datagrams)
      BY DEF ListOK
    <2> QED BY <1>1, <1>2, <2>1, Prepend DEF n
  <1>4. DOMAIN e = 1 .. n + 1
    BY <1>3, LenProperties
  <1>5. ASSUME NEW j \in DOMAIN e, j # 1
        PROVE  j - 1 \in DOMAIN list /\ e[j] = list[j - 1] /\ j \in Nat
    <2>1. j - 1 \in 1 .. n /\ j = (j - 1) + 1 /\ j \in Nat
      BY <1>0, <1>4, <1>5
    <2> QED BY <1>0, <1>3, <2>1
  <1>6. ASSUME NEW i \in DOMAIN list
        PROVE  i \in Nat /\ i + 1 \in DOMAIN e /\ e[i + 1] = list[i]
    <2>1. i \in 1 .. n /\ i + 1 \in 1 .. n + 1 /\ i \in Nat
      BY <1>0
    <2> QED BY <1>3, <1>4, <2>1
  <1>7. \A j \in DOMAIN e : EntryOK(e[j])
    BY <1>1, <1>3, <1>5 DEF ListOK
  <1>8. OneEach(e)
    <2> SUFFICES ASSUME NEW j \in DOMAIN e, NEW k \in DOMAIN e, e[j].id = e[k].id
                 PROVE  j = k
      BY DEF OneEach
    <2>1. CASE j = 1 \/ k = 1
      BY <1>1, <1>3, <1>5, <2>1
    <2>2. CASE j # 1 /\ k # 1
      <3>1. j - 1 = k - 1
        BY <1>5, <2>2 DEF ListOK, OneEach
      <3> QED BY <1>5, <2>2, <3>1
    <2> QED BY <2>1, <2>2
  <1>9. ByAge(e)
    <2> SUFFICES ASSUME NEW j \in DOMAIN e, NEW k \in DOMAIN e, j < k
                 PROVE  e[j].timer >= e[k].timer
      BY DEF ByAge
    <2>0. j \in Nat /\ k \in Nat /\ j >= 1 /\ k # 1
      BY <1>0, <1>4
    <2>1. k - 1 \in DOMAIN list /\ e[k] = list[k - 1]
      BY <1>5, <2>0
    <2>2. CASE j = 1
      <3>1. list[k - 1].timer \in 0 .. IP_REASS_MAXAGE
        BY <1>0, <2>1 DEF Datagrams
      <3>2. e[k].timer \in 0 .. IP_REASS_MAXAGE
        BY <2>1, <3>1
      <3>3. e[j].timer = IP_REASS_MAXAGE
        BY <1>1, <1>3, <2>2
      <3> QED BY <3>2, <3>3, ReassAssumption
    <2>3. CASE j # 1
      <3>1. j - 1 \in DOMAIN list /\ e[j] = list[j - 1] /\ j - 1 < k - 1
        BY <1>5, <2>0, <2>3
      <3> QED BY <2>1, <3>1 DEF ListOK, ByAge
    <2> QED BY <2>2, <2>3
  <1>10. Queued(e, DOMAIN e) = Queued(list, DOMAIN list) \cup ({f} \X (1 .. Clen(f)))
    <2> DEFINE F == {f} \X (1 .. Clen(f))
    <2>1. Held(d) = F
      BY <1>1 DEF Held
    <2> HIDE DEF F
    <2>2. ASSUME NEW x PROVE x \in Queued(e, DOMAIN e) <=>
                                 x \in Queued(list, DOMAIN list) \/ x \in F
      <3>1. x \in Queued(e, DOMAIN e) <=> \E j \in DOMAIN e : x \in Held(e[j])
        BY DEF Queued
      <3>2. x \in Queued(list, DOMAIN list) <=> \E i \in DOMAIN list : x \in Held(list[i])
        BY DEF Queued
      <3>3. 1 \in DOMAIN e
        BY <1>0, <1>4
      <3>4. ASSUME NEW j \in DOMAIN e, x \in Held(e[j])
            PROVE  x \in F \/ \E i \in DOMAIN list : x \in Held(list[i])
        BY <1>3, <1>5, <2>1, <3>4
      <3>5. ASSUME NEW i \in DOMAIN list, x \in Held(list[i])
            PROVE  \E j \in DOMAIN e : x \in Held(e[j])
        BY <1>6, <3>5
      <3> QED BY <1>3, <2>1, <3>1, <3>2, <3>3, <3>4, <3>5
    <2> QED BY <2>2 DEF F
  <1>11. Queued(list, DOMAIN list) \cap ({f} \X (1 .. Clen(f))) = {}
    <2> SUFFICES ASSUME NEW x \in Queued(list, DOMAIN list), x \in {f} \X (1 .. Clen(f))
                 PROVE  FALSE
      OBVIOUS
    <2>1. PICK i \in DOMAIN list : \E g \in list[i].frags : \E k \in 1 .. Clen(g) : x = <<g, k>>
      BY QueuedMember
    <2>2. f \in list[i].frags
      BY <2>1
    <2>3. list[i].id = f.id
      BY <2>2 DEF ListOK, EntryOK
    <2> QED BY <2>3
  <1>12. ListOK(e)
    BY <1>3, <1>7, <1>8, <1>9 DEF ListOK
  <1> QED BY <1>3, <1>6, <1>10, <1>11, <1>12 DEF e, n

\* Either way.
LEMMA EnterOK ==
    ASSUME NEW list, ListOK(list), NEW f \in Fragments, Fresh(list, f)
    PROVE  /\ ListOK(Enter(list, f))
           /\ Len(Enter(list, f)) = IF \E i \in DOMAIN list : list[i].id = f.id
                                    THEN Len(list) ELSE Len(list) + 1
           /\ \A i \in DOMAIN list : \E j \in DOMAIN Enter(list, f) :
                  /\ Enter(list, f)[j].id = list[i].id
                  /\ list[i].frags \subseteq Enter(list, f)[j].frags
           /\ Queued(Enter(list, f), DOMAIN Enter(list, f))
                  = Queued(list, DOMAIN list) \cup ({f} \X (1 .. Clen(f)))
           /\ Queued(list, DOMAIN list) \cap ({f} \X (1 .. Clen(f))) = {}
  <1>1. CASE \E i \in DOMAIN list : list[i].id = f.id
    <2>1. PICK m \in DOMAIN list : list[m].id = f.id
      BY <1>1
    <2>2. DOMAIN Enter(list, f) = DOMAIN list
      BY <1>1 DEF Enter
    <2> QED BY <1>1, <2>1, <2>2, EnterKnown
  <1>2. CASE \A i \in DOMAIN list : list[i].id # f.id
    <2>1. /\ ListOK(Enter(list, f)) /\ Len(Enter(list, f)) = Len(list) + 1
          /\ \A i \in DOMAIN list : /\ i + 1 \in DOMAIN Enter(list, f)
                                    /\ Enter(list, f)[i + 1] = list[i]
          /\ Queued(Enter(list, f), DOMAIN Enter(list, f))
                 = Queued(list, DOMAIN list) \cup ({f} \X (1 .. Clen(f)))
          /\ Queued(list, DOMAIN list) \cap ({f} \X (1 .. Clen(f))) = {}
      BY <1>2, EnterNew
    <2>2. \A i \in DOMAIN list : \E j \in DOMAIN Enter(list, f) :
              /\ Enter(list, f)[j].id = list[i].id
              /\ list[i].frags \subseteq Enter(list, f)[j].frags
      BY <2>1
    <2> QED BY <1>2, <2>1, <2>2
  <1> QED BY <1>1, <1>2

-----------------------------------------------------------------------------
\* The inductive invariant: the list is well formed, what it holds can be counted, and
\* it is counted.
ReassInv ==
    /\ ListOK(reassdatagrams) /\ Len(reassdatagrams) <= MEMP_NUM_REASSDATA
    /\ IsFiniteSet(Queued(reassdatagrams, Positions))
    /\ ip_reass_pbufcount <= IP_REASS_MAX_PBUFS
    /\ avail \in Nat /\ Accounted

LEMMA InvFacts ==
    ASSUME ReassInv
    PROVE  /\ ReassTypeOK /\ Disjoint /\ AgeOrdered /\ OwnFragments
           /\ ip_reass_pbufcount \in Nat
  <1>1. ip_reass_pbufcount \in Nat
    <2> DEFINE Q == Queued(reassdatagrams, Positions)
    <2>1. IsFiniteSet(Q) /\ ip_reass_pbufcount = Cardinality(Q)
      BY DEF ReassInv, Accounted, Pbufs
    <2> HIDE DEF Q
    <2> QED BY <2>1, FS_CardinalityType
  <1>2. ReassTypeOK
    <2>1. ip_reass_pbufcount \in 0 .. IP_REASS_MAX_PBUFS /\ avail \in 0 .. PBUF_POOL_SIZE
      <3>1. avail \in Nat /\ avail + ip_reass_pbufcount = PBUF_POOL_SIZE
            /\ ip_reass_pbufcount <= IP_REASS_MAX_PBUFS
        BY DEF ReassInv, Accounted
      <3> QED BY <1>1, <3>1, ReassAssumption, SMT
    <2> QED BY <2>1 DEF ReassInv, ReassTypeOK, ListOK
  <1>3. Disjoint
    BY DEF ReassInv, ListOK, OneEach, EntryOK, Disjoint, Positions
  <1>4. AgeOrdered
    BY DEF ReassInv, ListOK, ByAge, AgeOrdered, Positions
  <1>5. OwnFragments
    BY DEF ReassInv, ListOK, EntryOK, OwnFragments, Positions
  <1> QED BY <1>1, <1>2, <1>3, <1>4, <1>5

LEMMA ReassInitInv == ReassInit => ReassInv
  <1> SUFFICES ASSUME ReassInit PROVE ReassInv
    OBVIOUS
  <1>1. reassdatagrams = <<>> /\ Positions = {} /\ Len(reassdatagrams) = 0
    BY DEF ReassInit, Positions
  <1>2. ListOK(reassdatagrams)
    BY <1>1 DEF ListOK, OneEach, ByAge, Positions
  <1>3. Queued(reassdatagrams, Positions) = {}
    BY <1>1, QueuedNone
  <1>4. IsFiniteSet(Queued(reassdatagrams, Positions)) /\ Pbufs(Positions) = 0
    BY <1>3, FS_EmptySet DEF Pbufs
  <1> QED BY <1>1, <1>2, <1>4, ReassAssumption DEF ReassInv, ReassInit, Accounted

\* What is left when the entries E are freed.
LEMMA AfterFree ==
    ASSUME ReassInv, NEW E \in SUBSET Positions
    PROVE  LET w == Without(E)
               Q == Queued(w, DOMAIN w)
           IN  /\ ListOK(w) /\ Thinned(w, reassdatagrams, E)
               /\ Len(w) \in Nat /\ Len(w) <= Len(reassdatagrams)
               /\ E # {} => Len(w) < Len(reassdatagrams)
               /\ E = {} => Len(w) = Len(reassdatagrams)
               /\ IsFiniteSet(Q) /\ Cardinality(Q) \in Nat /\ Pbufs(E) \in Nat
               /\ Cardinality(Q) = ip_reass_pbufcount - Pbufs(E)
               /\ E = {} => Pbufs(E) = 0
  <1> DEFINE w == Without(E)
             Q == Queued(w, DOMAIN w)
             K == Positions \ E
  <1>0. ListOK(reassdatagrams) /\ reassdatagrams \in Seq(Datagrams)
    BY DEF ReassInv, ListOK
  <1>1. /\ w \in Seq(Datagrams) /\ Len(w) = Cardinality(K)
        /\ Thinned(w, reassdatagrams, E)
    BY <1>0, WithoutIsThinned
  <1>2. ListOK(w) /\ Q = Queued(reassdatagrams, K)
    <2> HIDE DEF w
    <2> QED BY <1>0, <1>1, ThinnedOK DEF Positions
  <1>3. /\ Len(w) \in Nat /\ Len(w) <= Len(reassdatagrams)
        /\ E # {} => Len(w) < Len(reassdatagrams)
        /\ E = {} => Len(w) = Len(reassdatagrams)
    <2> DEFINE n == Len(reassdatagrams)
    <2>1. n \in Nat /\ Positions = 1 .. n
      BY <1>0, LenProperties DEF Positions
    <2> HIDE DEF n
    <2>2. IsFiniteSet(Positions) /\ Cardinality(Positions) = n
      BY <2>1, FS_Interval
    <2>3. K \in SUBSET Positions /\ (K = Positions <=> E = {})
      OBVIOUS
    <2> HIDE DEF K, w
    <2>4. /\ IsFiniteSet(K) /\ Cardinality(K) <= n
          /\ Cardinality(K) = n => K = Positions
      BY <2>2, <2>3, FS_Subset
    <2>5. Cardinality(K) \in Nat
      BY <2>4, FS_CardinalityType
    <2>6. Cardinality(K) = n <=> E = {}
      BY <2>2, <2>3, <2>4
    <2>7. ~(E = {}) => Cardinality(K) < n
      BY <2>1, <2>4, <2>5, <2>6
    <2>8. Len(w) = Cardinality(K)
      BY <1>1
    <2> QED BY <2>4, <2>5, <2>6, <2>7, <2>8 DEF n
  <1>4. /\ IsFiniteSet(Q) /\ Cardinality(Q) \in Nat /\ Pbufs(E) \in Nat
        /\ Cardinality(Q) = ip_reass_pbufcount - Pbufs(E)
    <2>1. /\ IsFiniteSet(Queued(reassdatagrams, DOMAIN reassdatagrams))
          /\ E \in SUBSET DOMAIN reassdatagrams /\ K = DOMAIN reassdatagrams \ E
      BY DEF ReassInv, Positions
    <2>2. /\ Pbufs(E) \in Nat /\ IsFiniteSet(Queued(reassdatagrams, K))
          /\ Cardinality(Queued(reassdatagrams, K)) \in Nat
          /\ Pbufs(Positions) = Pbufs(E) + Cardinality(Queued(reassdatagrams, K))
      <3> HIDE DEF K
      <3> QED BY <1>0, <2>1, QueuedSplit DEF Pbufs, Positions
    <2>3. ip_reass_pbufcount = Pbufs(Positions)
      BY DEF ReassInv, Accounted
    <2> HIDE DEF K, Q
    <2> QED BY <1>2, <2>2, <2>3
  <1>5. E = {} => Pbufs(E) = 0
    BY QueuedNone, FS_EmptySet DEF Pbufs
  <1> QED BY <1>1, <1>2, <1>3, <1>4, <1>5

\* Free keeps the books: E is freed, and n buffers more are queued.
LEMMA Recount ==
    ASSUME ReassInv, NEW E \in SUBSET Positions, NEW n \in Nat, Free(E, n),
           n <= avail, ip_reass_pbufcount - Pbufs(E) + n <= IP_REASS_MAX_PBUFS,
           ListOK(reassdatagrams'), Len(reassdatagrams') <= MEMP_NUM_REASSDATA,
           IsFiniteSet(Queued(reassdatagrams', DOMAIN reassdatagrams')),
           Cardinality(Queued(reassdatagrams', DOMAIN reassdatagrams'))
               = ip_reass_pbufcount - Pbufs(E) + n
    PROVE  ReassInv'
  <1>1. /\ avail' = avail + Pbufs(E) - n
        /\ ip_reass_pbufcount' = ip_reass_pbufcount - Pbufs(E) + n
    BY DEF Free
  <1>2. ip_reass_pbufcount \in Nat /\ Pbufs(E) \in Nat
    BY InvFacts, AfterFree
  <1>3. avail \in Nat /\ avail + ip_reass_pbufcount = PBUF_POOL_SIZE
    BY DEF ReassInv, Accounted
  <1>4. /\ avail' \in Nat /\ ip_reass_pbufcount' <= IP_REASS_MAX_PBUFS
        /\ avail' + ip_reass_pbufcount' = PBUF_POOL_SIZE
    <2>1. \A a, c, b, m, size, max \in Nat :
              m <= a /\ a + c = size /\ c - b + m <= max =>
                  /\ a + b - m \in Nat /\ c - b + m <= max
                  /\ (a + b - m) + (c - b + m) = size
      BY SMT
    <2>2. PBUF_POOL_SIZE \in Nat /\ IP_REASS_MAX_PBUFS \in Nat
      BY ReassAssumption
    <2>3. /\ avail + Pbufs(E) - n \in Nat
          /\ (avail + Pbufs(E) - n) + (ip_reass_pbufcount - Pbufs(E) + n) = PBUF_POOL_SIZE
      BY <1>2, <1>3, <2>1, <2>2
    <2>4. ip_reass_pbufcount' <= IP_REASS_MAX_PBUFS
      BY <1>1
    <2> QED BY <1>1, <2>3, <2>4
  <1>5. Queued(reassdatagrams, Positions)' = Queued(reassdatagrams', DOMAIN reassdatagrams')
    BY DEF Positions
  <1>6. Accounted'
    <2>1. Pbufs(Positions)' = Cardinality(Queued(reassdatagrams, Positions)')
      BY DEF Pbufs
    <2>2. ip_reass_pbufcount' = Pbufs(Positions)'
      BY <1>1, <1>5, <2>1
    <2> QED BY <1>4, <2>2 DEF Accounted
  <1> QED BY <1>4, <1>5, <1>6 DEF ReassInv

\* Freeing entries, and nothing else, keeps the invariant.
LEMMA FreeOnly ==
    ASSUME ReassInv, NEW E \in SUBSET Positions, Free(E, 0),
           ListOK(reassdatagrams'), Len(reassdatagrams') = Len(Without(E)),
           Queued(reassdatagrams', DOMAIN reassdatagrams')
               = Queued(Without(E), DOMAIN Without(E))
    PROVE  ReassInv'
  <1> DEFINE w == Without(E)
             Q == Queued(w, DOMAIN w)
  <1>1. /\ Len(w) \in Nat /\ Len(w) <= Len(reassdatagrams)
        /\ IsFiniteSet(Q) /\ Cardinality(Q) \in Nat /\ Pbufs(E) \in Nat
        /\ Cardinality(Q) = ip_reass_pbufcount - Pbufs(E)
    BY AfterFree
  <1>2. ip_reass_pbufcount \in Nat /\ Len(reassdatagrams) \in Nat
    BY InvFacts, LenProperties DEF ReassInv, ListOK
  <1> HIDE DEF w, Q
  <1>3. /\ avail \in Nat /\ ip_reass_pbufcount <= IP_REASS_MAX_PBUFS
        /\ Len(reassdatagrams) <= MEMP_NUM_REASSDATA
    BY DEF ReassInv
  <1>4. /\ 0 <= avail /\ ip_reass_pbufcount - Pbufs(E) + 0 <= IP_REASS_MAX_PBUFS
        /\ Cardinality(Q) = ip_reass_pbufcount - Pbufs(E) + 0
        /\ Len(w) <= MEMP_NUM_REASSDATA
    BY <1>1, <1>2, <1>3, ReassAssumption, SMT
  <1>5. Queued(reassdatagrams', DOMAIN reassdatagrams') = Q /\ Len(reassdatagrams') = Len(w)
    BY DEF w, Q
  <1>6. 0 \in Nat
    OBVIOUS
  <1> QED BY <1>1, <1>4, <1>5, <1>6, Recount

LEMMA FreeAndUnlink ==
    ASSUME ReassInv, NEW E \in SUBSET Positions, Free(E, 0), reassdatagrams' = Without(E)
    PROVE  ReassInv'
  <1>1. ListOK(Without(E))
    BY AfterFree
  <1> QED BY <1>1, FreeOnly

LEMMA DropInv ==
    ASSUME ReassInv, NEW f \in Fragments, Drop(f)
    PROVE  ReassInv'
  <1>1. PICK E \in SUBSET Positions : reassdatagrams' = Without(E) /\ Free(E, 0)
    BY DEF Drop
  <1> QED BY <1>1, FreeAndUnlink

LEMMA CompleteInv ==
    ASSUME ReassInv, NEW f \in Fragments, Complete(f)
    PROVE  ReassInv'
  <1>1. PICK E \in SUBSET Positions :
            /\ reassdatagrams' = Without(E \cup (Positions \ Others(f)))
            /\ Free(E \cup (Positions \ Others(f)), 0)
    BY DEF Complete
  <1>2. E \cup (Positions \ Others(f)) \in SUBSET Positions
    OBVIOUS
  <1> QED BY <1>1, <1>2, FreeAndUnlink

\* What does not overlap with the list does not overlap with what is left of it.
LEMMA StaysFresh ==
    ASSUME NEW f, ~Overlaps(f), NEW E, NEW w, Thinned(w, reassdatagrams, E)
    PROVE  Fresh(w, f)
  <1>1. PICK pos \in [DOMAIN w -> DOMAIN reassdatagrams \ E] :
            \A k \in DOMAIN w : w[k] = reassdatagrams[pos[k]]
    BY Zenon DEF Thinned
  <1>2. \A k \in DOMAIN w : pos[k] \in Positions
    BY <1>1 DEF Positions
  <1> QED BY <1>1, <1>2 DEF Fresh, Overlaps

\* There is a struct for the datagram of a fragment that is not refused.
LEMMA RoomForOne ==
    ASSUME ReassInv, NEW f \in Fragments, NEW E \in SUBSET Positions,
           MakesRoom(f, E), ~Refused(f, E),
           \A k \in DOMAIN Without(E) : Without(E)[k].id # f.id
    PROVE  Len(Without(E)) + 1 <= MEMP_NUM_REASSDATA
  <1> DEFINE w == Without(E)
  <1>0. /\ Len(reassdatagrams) \in Nat /\ Len(reassdatagrams) <= MEMP_NUM_REASSDATA
        /\ ip_reass_pbufcount \in Nat /\ Clen(f) \in Nat /\ Clen(f) >= 1
        /\ MEMP_NUM_REASSDATA \in Nat /\ IP_REASS_MAX_PBUFS \in Nat
    BY InvFacts, ClenFacts, LenProperties, ReassAssumption DEF ReassInv, ListOK
  <1>1. /\ Len(w) \in Nat /\ Thinned(w, reassdatagrams, E)
        /\ E # {} => Len(w) < Len(reassdatagrams)
        /\ E = {} => Len(w) = Len(reassdatagrams) /\ Pbufs(E) = 0
    BY AfterFree
  <1> HIDE DEF w
  <1>2. CASE E # {}
    BY <1>0, <1>1, <1>2, SMT DEF w
  <1>3. CASE E = {}
    <2>1. ~Known(f)
      <3>1. PICK pos \in [DOMAIN w -> DOMAIN reassdatagrams \ E] :
                /\ \A k \in DOMAIN w : w[k] = reassdatagrams[pos[k]]
                /\ \A i \in DOMAIN reassdatagrams \ E : \E k \in DOMAIN w : pos[k] = i
        BY <1>1, Zenon DEF Thinned
      <3>2. ASSUME NEW i \in Positions PROVE reassdatagrams[i].id # f.id
        <4>1. PICK k \in DOMAIN w : pos[k] = i
          BY <1>3, <3>1 DEF Positions
        <4> QED BY <3>1, <4>1 DEF w
      <3> QED BY <3>2 DEF Known, Others
    <2>2. ~Over(f)
      <3>1. ip_reass_pbufcount - 0 + Clen(f) <= IP_REASS_MAX_PBUFS
        BY <1>0, <1>1, <1>3, SMT DEF Refused
      <3> QED BY <1>0, <3>1, SMT DEF Over
    <2>3. ~Full(f)
      BY <1>0, <1>1, <1>3, SMT DEF Refused
    <2>4. Len(reassdatagrams) # MEMP_NUM_REASSDATA
      BY <2>1, <2>2, <2>3 DEF Full
    <2> QED BY <1>0, <1>1, <1>3, <2>4, SMT DEF w
  <1> QED BY <1>2, <1>3

LEMMA QueueInv ==
    ASSUME ReassInv, NEW f \in Fragments, Queue(f)
    PROVE  ReassInv'
  <1>1. PICK E \in SUBSET Positions :
            /\ MakesRoom(f, E) /\ ~Refused(f, E) /\ ~Overlaps(f)
            /\ reassdatagrams' = Enter(Without(E), f)
            /\ Free(E, Clen(f))
    BY DEF Queue
  <1> DEFINE w == Without(E)
             e == Enter(w, f)
             Q == Queued(w, DOMAIN w)
             F == {f} \X (1 .. Clen(f))
  <1>2. /\ ListOK(w) /\ Thinned(w, reassdatagrams, E) /\ Len(w) \in Nat
        /\ Len(w) <= Len(reassdatagrams)
        /\ IsFiniteSet(Q) /\ Cardinality(Q) \in Nat /\ Pbufs(E) \in Nat
        /\ Cardinality(Q) = ip_reass_pbufcount - Pbufs(E)
    BY AfterFree
  <1>3. Fresh(w, f)
    <2> HIDE DEF w
    <2> QED BY <1>1, <1>2, StaysFresh
  <1>4. /\ ListOK(e)
        /\ Len(e) = IF \E i \in DOMAIN w : w[i].id = f.id THEN Len(w) ELSE Len(w) + 1
        /\ Queued(e, DOMAIN e) = Q \cup F /\ Q \cap F = {}
    <2> HIDE DEF w
    <2> QED BY <1>2, <1>3, EnterOK
  <1>5. /\ Clen(f) \in Nat /\ Clen(f) <= avail
        /\ Len(reassdatagrams) \in Nat /\ Len(reassdatagrams) <= MEMP_NUM_REASSDATA
        /\ ip_reass_pbufcount \in Nat /\ IP_REASS_MAX_PBUFS \in Nat
        /\ MEMP_NUM_REASSDATA \in Nat
    BY InvFacts, ClenFacts, LenProperties, ReassAssumption DEF ReassInv, ListOK, Queue
  <1>6. Len(e) <= MEMP_NUM_REASSDATA
    <2>1. CASE \E i \in DOMAIN w : w[i].id = f.id
      <3> HIDE DEF w, e
      <3> QED BY <1>2, <1>4, <1>5, <2>1, SMT
    <2>2. CASE \A i \in DOMAIN w : w[i].id # f.id
      <3>1. Len(w) + 1 <= MEMP_NUM_REASSDATA
        BY <1>1, <2>2, RoomForOne
      <3> HIDE DEF w, e
      <3> QED BY <1>4, <2>2, <3>1
    <2> QED BY <2>1, <2>2
  <1>7. IsFiniteSet(Q \cup F) /\ Cardinality(Q \cup F) = Cardinality(Q) + Clen(f)
    <2>1. IsFiniteSet(F) /\ Cardinality(F) = Clen(f)
      BY OneFragment
    <2> HIDE DEF Q, F
    <2> QED BY <1>2, <1>4, <2>1, DisjointUnion
  <1>8. ip_reass_pbufcount - Pbufs(E) + Clen(f) <= IP_REASS_MAX_PBUFS
    BY <1>1, <1>2, <1>5, SMT DEF Refused
  <1>9. reassdatagrams' = e
    BY <1>1
  <1> HIDE DEF w, e, Q, F
  <1>10. /\ IsFiniteSet(Queued(reassdatagrams', DOMAIN reassdatagrams'))
         /\ Cardinality(Queued(reassdatagrams', DOMAIN reassdatagrams'))
                = ip_reass_pbufcount - Pbufs(E) + Clen(f)
    BY <1>2, <1>4, <1>7, <1>9
  <1> QED BY <1>1, <1>4, <1>5, <1>6, <1>8, <1>9, <1>10, Recount

\* A tick of the timer of every entry.
LEMMA AgedOK ==
    ASSUME NEW w, ListOK(w), \A i \in DOMAIN w : w[i].timer # 0
    PROVE  LET a == [i \in DOMAIN w |-> [w[i] EXCEPT !.timer = @ - 1]]
           IN  /\ ListOK(a) /\ Len(a) = Len(w)
               /\ Queued(a, DOMAIN a) = Queued(w, DOMAIN w)
  <1> DEFINE a == [i \in DOMAIN w |-> [w[i] EXCEPT !.timer = @ - 1]]
             n == Len(w)
  <1>0. n \in Nat /\ DOMAIN w = 1 .. n /\ \A i \in DOMAIN w : w[i] \in Datagrams
    BY ListEntries
  <1>1. ASSUME NEW i \in DOMAIN w
        PROVE  /\ a[i] \in Datagrams /\ a[i].id = w[i].id /\ a[i].frags = w[i].frags
               /\ a[i].lastfrag = w[i].lastfrag /\ a[i].timer = w[i].timer - 1
               /\ w[i].timer \in Int
    <2>1. w[i] \in Datagrams /\ w[i].timer # 0 /\ a[i] = [w[i] EXCEPT !.timer = @ - 1]
      BY <1>0
    <2>2. w[i].timer \in 0 .. IP_REASS_MAXAGE
      BY <2>1 DEF Datagrams
    <2>3. w[i].timer - 1 \in 0 .. IP_REASS_MAXAGE
      BY <2>1, <2>2, ReassAssumption
    <2> HIDE DEF a
    <2> QED BY <2>1, <2>2, <2>3 DEF Datagrams
  <1>2. DOMAIN a = DOMAIN w /\ a = [i \in DOMAIN w |-> a[i]]
    OBVIOUS
  <1> HIDE DEF a, n
  <1>3. a \in Seq(Datagrams) /\ Len(a) = n
    <2>1. a \in [1 .. n -> Datagrams]
      BY <1>0, <1>1, <1>2
    <2> QED BY <1>0, <2>1, AsSeq
  <1>4. \A i \in DOMAIN a : EntryOK(a[i])
    BY <1>1, <1>2 DEF ListOK, EntryOK
  <1>5. OneEach(a)
    BY <1>1, <1>2 DEF ListOK, OneEach
  <1>6. ByAge(a)
    <2> SUFFICES ASSUME NEW i \in DOMAIN w, NEW j \in DOMAIN w, i < j
                 PROVE  a[i].timer >= a[j].timer
      BY <1>2 DEF ByAge
    <2>1. w[i].timer >= w[j].timer
      BY DEF ListOK, ByAge
    <2> QED BY <1>1, <2>1
  <1>7. Queued(a, DOMAIN a) = Queued(w, DOMAIN w)
    <2>1. \A i \in DOMAIN w : Held(a[i]) = Held(w[i])
      BY <1>1 DEF Held
    <2> QED BY <1>2, <2>1 DEF Queued
  <1> QED BY <1>3, <1>4, <1>5, <1>6, <1>7 DEF ListOK, a, n

LEMMA TmrInv ==
    ASSUME ReassInv, ip_reass_tmr
    PROVE  ReassInv'
  <1> DEFINE dead == {i \in Positions : reassdatagrams[i].timer = 0}
             w == Without(dead)
             a == [i \in DOMAIN w |-> [w[i] EXCEPT !.timer = @ - 1]]
  <1>1. reassdatagrams' = a /\ Free(dead, 0) /\ dead \in SUBSET Positions
    BY DEF ip_reass_tmr
  <1>2. ListOK(w) /\ Thinned(w, reassdatagrams, dead)
    <2> HIDE DEF dead
    <2> QED BY <1>1, AfterFree
  <1>3. \A i \in DOMAIN w : w[i].timer # 0
    <2> HIDE DEF w
    <2>1. PICK pos \in [DOMAIN w -> DOMAIN reassdatagrams \ dead] :
              \A k \in DOMAIN w : w[k] = reassdatagrams[pos[k]]
      BY <1>2, Zenon DEF Thinned
    <2>2. \A k \in DOMAIN w : pos[k] \in Positions \ dead
      BY <2>1 DEF Positions
    <2>3. \A i \in Positions \ dead : reassdatagrams[i].timer # 0
      OBVIOUS
    <2> QED BY <2>1, <2>2, <2>3
  <1>4. ListOK(a) /\ Len(a) = Len(w) /\ Queued(a, DOMAIN a) = Queued(w, DOMAIN w)
    <2> HIDE DEF w
    <2> QED BY <1>2, <1>3, AgedOK
  <1> HIDE DEF a, dead
  <1> QED BY <1>1, <1>4, FreeOnly

LEMMA ReassNextInv == ReassInv /\ [ReassNext]_reassVars => ReassInv'
  <1> SUFFICES ASSUME ReassInv, [ReassNext]_reassVars PROVE ReassInv'
    OBVIOUS
  <1>1. ASSUME UNCHANGED <<reassdatagrams, ip_reass_pbufcount, avail>> PROVE ReassInv'
    BY <1>1 DEF ReassInv, Accounted, Pbufs, Positions
  <1>2. ASSUME NEW f \in Fragments, Lost(f) PROVE ReassInv'
    BY <1>1, <1>2 DEF Lost
  <1>3. CASE UNCHANGED reassVars
    BY <1>1, <1>3 DEF reassVars
  <1> QED BY <1>2, <1>3, DropInv, QueueInv, CompleteInv, TmrInv DEF ReassNext

LEMMA ReassInvariant == ReassSpec => []ReassInv
  BY ReassInitInv, ReassNextInv, PTL DEF ReassSpec

\* The list never outgrows MEMP_REASSDATA, nor ip_reass_pbufcount its limit, nor the
\* pool its size.
THEOREM ReassTypeCorrect == ReassSpec => []ReassTypeOK
  BY ReassInvariant, InvFacts, PTL

\* No buffer is lost or freed twice by completion, repetition, eviction or timeout.
THEOREM BuffersAccounted == ReassSpec => []Accounted
  <1>1. ReassInv => Accounted
    BY DEF ReassInv
  <1> QED BY <1>1, ReassInvariant, PTL

\* The list stays well formed: one entry per datagram, parts that do not overlap and
\* are the entry's own, oldest datagram last.
THEOREM ListWellFormed == ReassSpec => []WellFormed
  <1>1. ReassInv => WellFormed
    BY InvFacts DEF WellFormed
  <1> QED BY <1>1, ReassInvariant, PTL

-----------------------------------------------------------------------------
\* A finished datagram is whole: a gap would have a first fragment behind it, and the
\* fragment that ends where this one starts would begin in the gap or cover it.
LEMMA FinishedCovers ==
    ASSUME NEW d \in Datagrams, EntryOK(d), Finished(d), NEW n \in 0 .. DatagramLen - 1
    PROVE  \E g \in d.frags : g.start <= n /\ n < g.end
  <1> SUFFICES ASSUME \A g \in d.frags : ~(g.start <= n /\ n < g.end) PROVE FALSE
    OBVIOUS
  <1>0. n \in Nat /\ n < DatagramLen /\ \A g \in d.frags : g \in Fragments
    BY ReassAssumption DEF Datagrams
  <1> DEFINE T == {m \in Nat : m > n /\ \E g \in d.frags : g.start = m}
  <1>1. ASSUME NEW g \in d.frags, g.end > n PROVE g.start \in T
    <2>1. g.start \in Nat /\ ~(g.start <= n)
      BY <1>0, <1>1, FragmentFacts
    <2> QED BY <1>0, <2>1
  <1>2. T # {}
    <2>1. PICK g \in d.frags : g.end = DatagramLen
      BY DEF EntryOK, Finished, IsLast
    <2>2. g.end > n
      BY <1>0, <2>1, ReassAssumption
    <2> QED BY <1>1, <2>2
  <1>3. PICK m \in T : \A k \in T : m <= k
    <2>1. T \subseteq Nat
      OBVIOUS
    <2> HIDE DEF T
    <2> QED BY <1>2, <2>1, Least
  <1>4. PICK g \in d.frags : g.start = m /\ m \in Nat /\ m > n
    OBVIOUS
  <1>5. PICK h \in d.frags : h.end = m
    <2>1. g.start # 0
      BY <1>0, <1>4
    <2> QED BY <1>4, <2>1 DEF Finished
  <1>6. h.start \in T
    BY <1>1, <1>4, <1>5
  <1>7. h.start \in Nat /\ h.start < m
    BY <1>0, <1>5, FragmentFacts
  <1>8. m <= h.start
    BY <1>3, <1>6
  <1> QED BY <1>4, <1>7, <1>8

LEMMA FinishedWhole ==
    ASSUME NEW d \in Datagrams, EntryOK(d), Finished(d)
    PROVE  /\ \A n \in 0 .. DatagramLen - 1 :
                  \E g \in d.frags : /\ n \in g.start .. g.end - 1
                                     /\ \A h \in d.frags : n \in h.start .. h.end - 1 => h = g
           /\ \E g, h \in d.frags : g # h
  <1>0. \A g \in d.frags : g \in Fragments
    BY DEF Datagrams
  <1>1. ASSUME NEW n \in 0 .. DatagramLen - 1
        PROVE  \E g \in d.frags : /\ n \in g.start .. g.end - 1
                                  /\ \A h \in d.frags : n \in h.start .. h.end - 1 => h = g
    <2>0. n \in Nat
      BY ReassAssumption
    <2>1. PICK g \in d.frags : g.start <= n /\ n < g.end
      BY FinishedCovers
    <2>2. n \in g.start .. g.end - 1
      BY <1>0, <2>0, <2>1, FragmentFacts
    <2>3. ASSUME NEW h \in d.frags, n \in h.start .. h.end - 1, h # g PROVE FALSE
      <3>1. g.end <= h.start \/ h.end <= g.start
        BY <2>3 DEF EntryOK
      <3>2. g \in Fragments /\ h \in Fragments
        BY <1>0
      <3> QED BY <2>0, <2>1, <2>3, <3>1, <3>2, FragmentFacts
    <2> QED BY <2>2, <2>3
  <1>2. \E g, h \in d.frags : g # h
    <2>1. PICK f \in d.frags : TRUE
      BY DEF Datagrams
    <2>2. 0 \in 0 .. DatagramLen - 1 /\ DatagramLen - 1 \in 0 .. DatagramLen - 1
      BY <1>0, <2>1, FragmentFacts, ReassAssumption
    <2>3. PICK g \in d.frags : g.start <= 0 /\ 0 < g.end
      BY <2>2, FinishedCovers
    <2>4. PICK h \in d.frags : h.start <= DatagramLen - 1 /\ DatagramLen - 1 < h.end
      BY <2>2, FinishedCovers
    <2>5. g \in Fragments /\ h \in Fragments
      BY <1>0
    <2>6. g # h
      BY <2>3, <2>4, <2>5, FragmentFacts, ReassAssumption
    <2> QED BY <2>6
  <1> QED BY <1>1, <1>2

\* What ip4_reass passes on is one whole datagram, however it was split and in
\* whatever order its fragments came in.
THEOREM PassedIsWhole == ReassSpec => []Whole
  <1>1. ReassInit => Whole
    BY DEF ReassInit, Whole
  <1>2. ReassInv /\ Whole /\ [ReassNext]_reassVars => Whole'
    <2> SUFFICES ASSUME ReassInv, Whole, [ReassNext]_reassVars PROVE Whole'
      OBVIOUS
    <2>1. CASE passed' = {}
      BY <2>1 DEF Whole
    <2>2. CASE passed' = passed
      BY <2>2 DEF Whole
    <2>3. ASSUME NEW f \in Fragments, Complete(f) PROVE Whole'
      <3>1. PICK E \in SUBSET Positions :
                /\ ~Overlaps(f)
                /\ \E i \in DOMAIN Enter(Without(E), f) :
                       /\ Finished(Enter(Without(E), f)[i])
                       /\ passed' = {Enter(Without(E), f)[i]}
        BY <2>3 DEF Complete
      <3> DEFINE w == Without(E)
                 e == Enter(w, f)
      <3>2. ListOK(w) /\ Thinned(w, reassdatagrams, E)
        BY AfterFree
      <3>3. Fresh(w, f)
        <4> HIDE DEF w
        <4> QED BY <3>1, <3>2, StaysFresh
      <3>4. ListOK(e)
        <4> HIDE DEF w
        <4> QED BY <3>2, <3>3, EnterOK
      <3>5. PICK i \in DOMAIN e : Finished(e[i]) /\ passed' = {e[i]}
        BY <3>1
      <3> DEFINE d == e[i]
      <3>6. d \in Datagrams /\ EntryOK(d) /\ Finished(d) /\ passed' = {d}
        <4> HIDE DEF e
        <4> QED BY <3>4, <3>5, ListEntries DEF ListOK
      <3> HIDE DEF d
      <3>7. /\ \A n \in 0 .. DatagramLen - 1 :
                   \E g \in d.frags : /\ n \in g.start .. g.end - 1
                                      /\ \A h \in d.frags : n \in h.start .. h.end - 1 => h = g
            /\ \E g, h \in d.frags : g # h
        BY <3>6, FinishedWhole
      <3> QED BY <3>6, <3>7 DEF Whole
    <2>4. ASSUME NEW f \in Fragments, Lost(f) \/ Drop(f) \/ Queue(f) PROVE passed' = {}
      BY <2>4 DEF Lost, Drop, Queue
    <2>5. ip_reass_tmr => passed' = {}
      BY DEF ip_reass_tmr
    <2>6. UNCHANGED reassVars => passed' = passed
      BY DEF reassVars
    <2> QED BY <2>1, <2>2, <2>3, <2>4, <2>5, <2>6 DEF ReassNext
  <1> QED BY <1>1, <1>2, ReassInvariant, PTL DEF ReassSpec

\* Making room spares the entry of the fragment's own datagram, with all it has.
LEMMA OwnStays ==
    ASSUME ReassInv, NEW f \in Fragments, NEW E \in SUBSET Positions, MakesRoom(f, E),
           NEW i \in Positions, reassdatagrams[i].id = f.id
    PROVE  \E k \in DOMAIN Without(E) : Without(E)[k] = reassdatagrams[i]
  <1>1. i \notin E
    BY DEF MakesRoom, Oldest, Others
  <1> DEFINE w == Without(E)
  <1>2. Thinned(w, reassdatagrams, E)
    BY AfterFree
  <1> HIDE DEF w
  <1>3. PICK pos \in [DOMAIN w -> DOMAIN reassdatagrams \ E] :
            /\ \A k \in DOMAIN w : w[k] = reassdatagrams[pos[k]]
            /\ \A j \in DOMAIN reassdatagrams \ E : \E k \in DOMAIN w : pos[k] = j
    BY <1>2, Zenon DEF Thinned
  <1>4. PICK k \in DOMAIN w : pos[k] = i
    BY <1>1, <1>3 DEF Positions
  <1> QED BY <1>3, <1>4 DEF w

\* ip_reass_remove_oldest_datagram never frees the datagram that the fragment belongs
\* to, whether the fragment is queued or dropped in the end.
THEOREM OwnDatagramKept == ReassSpec => KeepsOwn
  <1>1. ReassInv /\ [ReassNext]_reassVars =>
            [\A f \in Fragments : OwnKept(f) \/ ~(Queue(f) \/ Drop(f))]_reassVars
    <2> SUFFICES ASSUME ReassInv, NEW f \in Fragments, Queue(f) \/ Drop(f) PROVE OwnKept(f)
      OBVIOUS
    <2> SUFFICES ASSUME NEW i \in Positions, reassdatagrams[i].id = f.id
                 PROVE  \E j \in DOMAIN reassdatagrams' :
                            /\ reassdatagrams'[j].id = f.id
                            /\ reassdatagrams[i].frags \subseteq reassdatagrams'[j].frags
      BY DEF OwnKept, Others
    <2>1. CASE Drop(f)
      <3>1. PICK E \in SUBSET Positions : MakesRoom(f, E) /\ reassdatagrams' = Without(E)
        BY <2>1 DEF Drop
      <3> QED BY <3>1, OwnStays
    <2>2. CASE Queue(f)
      <3>1. PICK E \in SUBSET Positions :
                /\ MakesRoom(f, E) /\ ~Overlaps(f) /\ reassdatagrams' = Enter(Without(E), f)
        BY <2>2 DEF Queue
      <3> DEFINE w == Without(E)
      <3>2. ListOK(w) /\ Thinned(w, reassdatagrams, E)
        BY AfterFree
      <3>3. PICK k \in DOMAIN w : w[k] = reassdatagrams[i]
        BY <3>1, OwnStays
      <3> HIDE DEF w
      <3>4. Fresh(w, f)
        BY <3>1, <3>2, StaysFresh
      <3>5. \E j \in DOMAIN Enter(w, f) : /\ Enter(w, f)[j].id = w[k].id
                                          /\ w[k].frags \subseteq Enter(w, f)[j].frags
        BY <3>2, <3>4, EnterOK
      <3>6. reassdatagrams' = Enter(w, f)
        BY <3>1 DEF w
      <3> QED BY <3>3, <3>5, <3>6
    <2> QED BY <2>1, <2>2
  <1> QED BY <1>1, ReassInvariant, PTL DEF ReassSpec, KeepsOwn

-----------------------------------------------------------------------------
\* Age.

\* What is left of a datagram when entries are freed is its entry as it was.
LEMMA SameEntry ==
    ASSUME ReassInv, NEW E \in SUBSET Positions, NEW i \in Positions,
           NEW k \in DOMAIN Without(E), Without(E)[k].id = reassdatagrams[i].id
    PROVE  Without(E)[k] = reassdatagrams[i] /\ i \notin E
  <1> DEFINE w == Without(E)
  <1>1. Thinned(w, reassdatagrams, E)
    BY AfterFree
  <1>2. k \in DOMAIN w /\ w[k].id = reassdatagrams[i].id
    OBVIOUS
  <1> HIDE DEF w
  <1>3. PICK pos \in [DOMAIN w -> DOMAIN reassdatagrams \ E] :
            \A l \in DOMAIN w : w[l] = reassdatagrams[pos[l]]
    BY <1>1, Zenon DEF Thinned
  <1>4. pos[k] \in Positions \ E /\ w[k] = reassdatagrams[pos[k]]
    BY <1>2, <1>3 DEF Positions
  <1>5. pos[k] = i
    BY <1>2, <1>4 DEF ReassInv, ListOK, OneEach, Positions
  <1> QED BY <1>4, <1>5 DEF w

\* A fragment leaves the time of its own datagram and of the others as it was.
LEMMA EnterKeepsTime ==
    ASSUME ReassInv, NEW f \in Fragments, NEW E \in SUBSET Positions, MakesRoom(f, E),
           NEW i \in Positions, NEW j \in DOMAIN Enter(Without(E), f),
           Enter(Without(E), f)[j].id = reassdatagrams[i].id
    PROVE  Enter(Without(E), f)[j].timer = reassdatagrams[i].timer
  <1> DEFINE w == Without(E)
  <1>1. ListOK(w)
    BY AfterFree
  <1>2. \A k \in DOMAIN w : w[k].id = reassdatagrams[i].id => w[k] = reassdatagrams[i]
    BY SameEntry
  <1>3. reassdatagrams[i].id = f.id => \E k \in DOMAIN w : w[k] = reassdatagrams[i]
    BY OwnStays
  <1>4. j \in DOMAIN Enter(w, f) /\ Enter(w, f)[j].id = reassdatagrams[i].id
    OBVIOUS
  <1> SUFFICES Enter(w, f)[j].timer = reassdatagrams[i].timer
    OBVIOUS
  <1> HIDE DEF w
  <1>5. CASE \E k \in DOMAIN w : w[k].id = f.id
    <2>1. /\ j \in DOMAIN w
          /\ Enter(w, f)[j] = IF w[j].id # f.id THEN w[j]
                              ELSE [w[j] EXCEPT !.frags = @ \cup {f},
                                                !.lastfrag = @ \/ IsLast(f)]
      BY <1>4, <1>5 DEF Enter
    <2>2. w[j] \in Datagrams
      BY <1>1, <2>1, ListEntries
    <2>3. Enter(w, f)[j].id = w[j].id /\ Enter(w, f)[j].timer = w[j].timer
      BY <2>1, <2>2 DEF Datagrams
    <2> QED BY <1>2, <1>4, <2>1, <2>3
  <1>6. CASE \A k \in DOMAIN w : w[k].id # f.id
    <2> DEFINE d == First(f)
    <2>1. d \in Datagrams /\ d.id = f.id /\ Enter(w, f) = <<d>> \o w
      BY <1>6, FirstOK DEF Enter, First
    <2> HIDE DEF d
    <2>2. /\ Enter(w, f) \in Seq(Datagrams) /\ Len(Enter(w, f)) = Len(w) + 1
          /\ Enter(w, f)[1] = d
          /\ \A k \in 1 .. Len(w) : Enter(w, f)[k + 1] = w[k]
      <3>1. w \in Seq(Datagrams)
        BY <1>1 DEF ListOK
      <3> QED BY <2>1, <3>1, Prepend
    <2>3. Len(w) \in Nat /\ DOMAIN w = 1 .. Len(w) /\ j \in 1 .. Len(w) + 1
      BY <1>1, <1>4, <2>2, ListEntries, LenProperties
    <2>4. j # 1
      BY <1>3, <1>4, <1>6, <2>1, <2>2
    <2>5. j - 1 \in DOMAIN w /\ (j - 1) + 1 = j
      BY <2>3, <2>4
    <2>6. Enter(w, f)[j] = w[j - 1]
      BY <2>2, <2>3, <2>5
    <2> QED BY <1>2, <1>4, <2>5, <2>6
  <1> QED BY <1>5, <1>6

\* No fragment starts the time of a datagram anew, and each call of ip_reass_tmr takes
\* one from the time of every datagram that it leaves.
THEOREM NeverYounger == ReassSpec => OnlyAges
  <1>1. ReassInv /\ [ReassNext]_reassVars =>
            [\A i \in Positions : \A j \in DOMAIN reassdatagrams' :
                 reassdatagrams'[j].id = reassdatagrams[i].id =>
                     Aging(reassdatagrams[i], reassdatagrams'[j])]_reassVars
    <2> SUFFICES ASSUME ReassInv, ReassNext,
                        NEW i \in Positions, NEW j \in DOMAIN reassdatagrams',
                        reassdatagrams'[j].id = reassdatagrams[i].id
                 PROVE  Aging(reassdatagrams[i], reassdatagrams'[j])
      OBVIOUS
    <2>1. reassdatagrams[i] \in Datagrams /\ reassdatagrams[i].timer \in Int
      <3>1. reassdatagrams[i] \in Datagrams
        BY ListEntries DEF ReassInv, Positions
      <3> QED BY <3>1 DEF Datagrams
    <2>2. CASE ip_reass_tmr
      <3> DEFINE dead == {k \in Positions : reassdatagrams[k].timer = 0}
                 w == Without(dead)
      <3>1. reassdatagrams' = [k \in DOMAIN w |-> [w[k] EXCEPT !.timer = @ - 1]]
        BY <2>2 DEF ip_reass_tmr
      <3>2. ListOK(w) /\ \A k \in DOMAIN w : w[k].id = reassdatagrams[i].id =>
                                               w[k] = reassdatagrams[i]
        <4>1. dead \in SUBSET Positions
          OBVIOUS
        <4> HIDE DEF dead
        <4> QED BY <4>1, AfterFree, SameEntry
      <3> HIDE DEF w
      <3>3. j \in DOMAIN w /\ reassdatagrams'[j] = [w[j] EXCEPT !.timer = @ - 1]
        BY <3>1
      <3>4. w[j] \in Datagrams
        BY <3>2, <3>3, ListEntries
      <3>5. reassdatagrams'[j].id = w[j].id /\ reassdatagrams'[j].timer = w[j].timer - 1
        BY <3>3, <3>4 DEF Datagrams
      <3>6. reassdatagrams'[j].timer = reassdatagrams[i].timer - 1
        BY <3>2, <3>3, <3>5
      <3> QED BY <2>1, <3>6 DEF Aging
    <2>3. CASE ~ip_reass_tmr
      <3> SUFFICES reassdatagrams'[j].timer = reassdatagrams[i].timer
        BY <2>1, <2>3 DEF Aging
      <3>1. PICK f \in Fragments : Lost(f) \/ Drop(f) \/ Queue(f) \/ Complete(f)
        BY <2>3 DEF ReassNext
      <3>2. CASE Lost(f)
        BY <3>2 DEF Lost, ReassInv, ListOK, OneEach, Positions
      <3>3. CASE Drop(f)
        <4>1. PICK E \in SUBSET Positions : reassdatagrams' = Without(E)
          BY <3>3 DEF Drop
        <4> QED BY <4>1, SameEntry
      <3>4. CASE Queue(f)
        <4>1. PICK E \in SUBSET Positions :
                  MakesRoom(f, E) /\ reassdatagrams' = Enter(Without(E), f)
          BY <3>4 DEF Queue
        <4> QED BY <4>1, EnterKeepsTime
      <3>5. CASE Complete(f)
        <4>1. PICK E \in SUBSET Positions :
                  reassdatagrams' = Without(E \cup (Positions \ Others(f)))
          BY <3>5 DEF Complete
        <4>2. E \cup (Positions \ Others(f)) \in SUBSET Positions
          OBVIOUS
        <4> QED BY <4>1, <4>2, SameEntry
      <3> QED BY <3>1, <3>2, <3>3, <3>4, <3>5
    <2> QED BY <2>2, <2>3
  <1> QED BY <1>1, ReassInvariant, PTL DEF ReassSpec, OnlyAges

-----------------------------------------------------------------------------
\* The loop of ip_reass_remove_oldest_datagram.

\* In a list that is ordered by age, to be older is to stand behind.
LEMMA OlderIsBehind ==
    ASSUME ReassInv, NEW i \in Positions, NEW j \in Positions
    PROVE  i \in Nat /\ j \in Nat /\ (Older(i, j) <=> i > j)
  <1>1. ListOK(reassdatagrams)
    BY DEF ReassInv
  <1>2. i \in Nat /\ j \in Nat
    BY <1>1, ListEntries DEF Positions
  <1>3. reassdatagrams[i] \in Datagrams /\ reassdatagrams[j] \in Datagrams
    BY <1>1, ListEntries DEF Positions
  <1>4. reassdatagrams[i].timer \in Nat /\ reassdatagrams[j].timer \in Nat
    BY <1>3, ReassAssumption DEF Datagrams
  <1>5. /\ i < j => reassdatagrams[i].timer >= reassdatagrams[j].timer
        /\ j < i => reassdatagrams[j].timer >= reassdatagrams[i].timer
    BY <1>1 DEF ListOK, ByAge, Positions
  <1> QED BY <1>2, <1>4, <1>5 DEF Older

\* More entries hold no fewer buffers.
LEMMA MoreHeld ==
    ASSUME ReassInv, NEW E \in SUBSET Positions, NEW D \in SUBSET E
    PROVE  Pbufs(D) \in Nat /\ Pbufs(E) \in Nat /\ Pbufs(D) <= Pbufs(E)
  <1> DEFINE A == Queued(reassdatagrams, D)
             B == Queued(reassdatagrams, E)
  <1>1. A \in SUBSET B
    BY DEF Queued
  <1>2. B \in SUBSET Queued(reassdatagrams, Positions)
    BY DEF Queued
  <1>3. IsFiniteSet(B)
    <2> HIDE DEF B
    <2> QED BY <1>2, FS_Subset DEF ReassInv
  <1>4. IsFiniteSet(A) /\ Cardinality(A) <= Cardinality(B)
    <2> HIDE DEF A, B
    <2> QED BY <1>1, <1>3, FS_Subset
  <1>5. Cardinality(A) \in Nat /\ Cardinality(B) \in Nat
    <2> HIDE DEF A, B
    <2> QED BY <1>3, <1>4, FS_CardinalityType
  <1> QED BY <1>4, <1>5 DEF Pbufs

\* A set that the loop may free is the end of the list of the others, and the loop
\* would not have freed its first entry without need.
LEMMA OldestIsTail ==
    ASSUME ReassInv, NEW f \in Fragments, NEW E, Oldest(f, E)
    PROVE  /\ \A i \in E, j \in Others(f) \ E : j < i
           /\ \A i \in E : (\A j \in E : i <= j) => Pbufs(E \ {i}) < Clen(f)
  <1>0. Others(f) \subseteq Positions /\ E \subseteq Others(f)
    BY DEF Others, Oldest
  <1>1. ASSUME NEW i \in E, NEW j \in Others(f) \ E PROVE j < i
    <2>1. i \in Positions /\ j \in Positions /\ Older(i, j)
      BY <1>0 DEF Oldest
    <2> QED BY <2>1, OlderIsBehind
  <1>2. ASSUME NEW i \in E, \A j \in E : i <= j PROVE Pbufs(E \ {i}) < Clen(f)
    <2>1. ASSUME NEW j \in E \ {i} PROVE Older(j, i)
      <3>1. i \in Positions /\ j \in Positions /\ i <= j /\ j # i
        BY <1>0, <1>2
      <3> QED BY <3>1, OlderIsBehind
    <2> QED BY <2>1 DEF Oldest
  <1> QED BY <1>1, <1>2

\* The loop has one result.
LEMMA OldestContained ==
    ASSUME ReassInv, NEW f \in Fragments, NEW D, NEW E, Oldest(f, D), Oldest(f, E)
    PROVE  E \subseteq D
  <1> SUFFICES ASSUME NEW x \in E, x \notin D PROVE FALSE
    OBVIOUS
  <1>0. /\ Others(f) \subseteq Positions /\ E \subseteq Others(f) /\ D \subseteq Others(f)
        /\ Pbufs(D) >= Clen(f)
    BY DEF Others, Oldest
  <1>1. \A i \in Positions : i \in Nat
    BY OlderIsBehind
  <1>2. PICK m \in E : \A j \in E : m <= j
    <2>1. E \subseteq Nat /\ E # {}
      BY <1>0, <1>1
    <2> QED BY <2>1, Least
  <1>3. Pbufs(E \ {m}) < Clen(f)
    BY <1>2, OldestIsTail
  <1>4. m \notin D
    <2>1. ASSUME m \in D PROVE FALSE
      <3>1. x < m
        BY <1>0, <2>1, OldestIsTail
      <3>2. m <= x /\ m \in Nat /\ x \in Nat
        BY <1>0, <1>1, <1>2
      <3> QED BY <3>1, <3>2
    <2> QED BY <2>1
  <1>5. D \subseteq E \ {m}
    <2>1. ASSUME NEW d \in D, d \notin E PROVE FALSE
      <3>1. d < x /\ x < d
        BY <1>0, <2>1, OldestIsTail
      <3>2. d \in Nat /\ x \in Nat
        BY <1>0, <1>1
      <3> QED BY <3>1, <3>2
    <2> QED BY <1>4, <2>1
  <1>6. Pbufs(D) \in Nat /\ Pbufs(E \ {m}) \in Nat /\ Pbufs(D) <= Pbufs(E \ {m})
    BY <1>0, <1>5, MoreHeld
  <1> QED BY <1>0, <1>3, <1>6, ClenFacts

\* The loop has a result: the shortest end of the list that is enough, or all others.
LEMMA OldestExists ==
    ASSUME ReassInv, NEW f \in Fragments
    PROVE  \E E \in SUBSET Positions : Oldest(f, E)
  <1> DEFINE n == Len(reassdatagrams)
             End(m) == {i \in Others(f) : i > n - m}
             T == {m \in Nat : m <= n /\ (End(m) = Others(f) \/ Pbufs(End(m)) >= Clen(f))}
  <1>0. n \in Nat /\ Positions = 1 .. n /\ \A i \in Others(f) : i \in Positions
    BY ListEntries DEF ReassInv, Positions, Others
  <1> HIDE DEF n
  <1>1. \A i \in Others(f) : i \in Nat /\ i >= 1 /\ i <= n
    BY <1>0
  <1>2. n \in T
    <2>1. End(n) = Others(f)
      BY <1>0, <1>1
    <2> QED BY <1>0, <2>1
  <1>3. PICK m \in T : \A k \in T : m <= k
    <2>1. T \subseteq Nat
      OBVIOUS
    <2> HIDE DEF T
    <2> QED BY <1>2, <2>1, Least
  <1> DEFINE E == End(m)
  <1>4. /\ m \in Nat /\ m <= n /\ (E = Others(f) \/ Pbufs(E) >= Clen(f))
        /\ E \subseteq Others(f) /\ E \in SUBSET Positions
    BY <1>0
  <1>5. ASSUME NEW i \in E, NEW j \in Others(f) \ E PROVE Older(i, j)
    <2>1. i > n - m /\ ~(j > n - m) /\ i \in Nat /\ j \in Nat
      BY <1>1
    <2>2. i > j
      BY <1>0, <1>4, <2>1
    <2> QED BY <1>0, <2>2, OlderIsBehind
  <1>6. ASSUME NEW i \in E, \A j \in E \ {i} : Older(j, i)
        PROVE  Pbufs(E \ {i}) < Clen(f)
    <2>0. i \in Positions /\ i \in Nat /\ i >= 1 /\ i <= n /\ i > n - m
      BY <1>0, <1>1
    <2>1. m # 0
      BY <1>0, <1>4, <2>0
    <2> DEFINE p == m - 1
               q == n - p
    <2>2. p \in Nat /\ p <= n /\ p < m /\ n - m = q - 1 /\ q \in Nat
      BY <1>0, <1>4, <2>1
    <2> HIDE DEF p, q
    <2>3. p \notin T
      BY <1>3, <1>4, <2>2
    <2>4. End(p) # Others(f) /\ ~(Pbufs(End(p)) >= Clen(f))
      BY <2>2, <2>3
    <2>5. \A j \in Others(f) : (j > n - m <=> j > n - p \/ j = q) /\ ~(q > n - p)
      BY <1>0, <1>1, <1>4, <2>2 DEF q
    <2>6. q \in E
      <3>1. ASSUME q \notin Others(f) PROVE FALSE
        <4>1. E = End(p)
          BY <2>5, <3>1
        <4> QED BY <1>4, <2>4, <4>1
      <3> QED BY <2>5, <3>1
    <2>7. i = q
      <3>1. ASSUME i # q PROVE FALSE
        <4>1. Older(q, i)
          BY <1>6, <2>6, <3>1
        <4>2. q > i /\ q \in Nat
          BY <1>0, <2>0, <2>6, <4>1, OlderIsBehind
        <4> QED BY <1>0, <1>4, <2>0, <2>2, <4>2
      <3> QED BY <3>1
    <2>8. E \ {i} = End(p)
      BY <2>5, <2>6, <2>7
    <2>9. Pbufs(End(p)) \in Nat /\ Clen(f) \in Nat
      <3>1. E \ {i} \in SUBSET E
        OBVIOUS
      <3>2. Pbufs(E \ {i}) \in Nat
        <4> HIDE DEF E
        <4> QED BY <1>4, <3>1, MoreHeld
      <3> QED BY <2>8, <3>2, ClenFacts
    <2>10. Pbufs(End(p)) < Clen(f)
      <3> HIDE DEF End
      <3> QED BY <2>4, <2>9
    <2> QED BY <2>8, <2>10
  <1>7. Oldest(f, E)
    <2> HIDE DEF E
    <2> QED BY <1>4, <1>5, <1>6 DEF Oldest
  <1> QED BY <1>4, <1>7

\* The eviction loop ends, has one result, and frees the last of the other datagrams:
\* the search for the smallest timer could be left out, as the @todo supposes.
THEOREM EvictionIsLast == ReassSpec => []EvictsLast
  <1>1. ReassInv => EvictsLast
    <2> SUFFICES ASSUME ReassInv, NEW f \in Fragments
                 PROVE  \E E \in SUBSET Positions :
                            /\ MakesRoom(f, E)
                            /\ \A D \in SUBSET Positions : MakesRoom(f, D) => D = E
                            /\ \A i \in E, j \in Others(f) \ E : j < i
      BY DEF EvictsLast
    <2>1. CASE Over(f) \/ Full(f)
      <3>1. PICK E \in SUBSET Positions : Oldest(f, E)
        BY OldestExists
      <3>2. ASSUME NEW D \in SUBSET Positions, Oldest(f, D) PROVE D = E
        BY <3>1, <3>2, OldestContained
      <3>3. \A i \in E, j \in Others(f) \ E : j < i
        BY <3>1, OldestIsTail
      <3> QED BY <2>1, <3>1, <3>2, <3>3 DEF MakesRoom
    <2>2. CASE ~(Over(f) \/ Full(f))
      BY <2>2 DEF MakesRoom
    <2> QED BY <2>1, <2>2
  <1> QED BY <1>1, ReassInvariant, PTL
=============================================================================
