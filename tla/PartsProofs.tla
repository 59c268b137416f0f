---------------------------- MODULE PartsProofs -----------------------------
(***************************************************************************)
(* Theorems about four of the smaller components: the filter of module     *)
(* Bloom, the cache of BlockCache, the connections of Server and the merge *)
(* of Merge, for all values of their constants.                            *)
(***************************************************************************)
EXTENDS Bloom, BlockCache, Server, Merge, NaturalsInduction, WellFoundedInduction,
        FiniteSetTheorems, SequenceTheorems, TLAPS

LEMMA LeastExists ==
    ASSUME NEW S, S \subseteq Nat, S # {}
    PROVE  \E p \in S : \A q \in S : p <= q
<1> DEFINE R == OpToRel(<, Nat)
<1>1. (\A p, q \in Nat : q < p => <<q, p>> \in R) /\ IsWellFoundedOn(R, Nat)
  BY NatLessThanWellFounded DEF OpToRel
<1> HIDE DEF R
<1>2. PICK p \in S : \A q \in S : ~ (<<q, p>> \in R)
  BY <1>1, WFMin
<1>3. \A q \in S : p <= q
  <2>1. \A q \in S : ~ (q < p)
    BY <1>1, <1>2
  <2> QED  BY <2>1
<1> QED  BY <1>3

-----------------------------------------------------------------------------
(* The powers in the hash.                                                 *)

\* f is the powers of b up to the n-th.
Approximates(f, b, n) ==
    f \in [Nat -> Nat] /\ f[0] = 1 /\ \A i \in Nat : i < n => f[i + 1] = b * f[i]

LEMMA ApproximationsExist ==
    ASSUME NEW b \in Nat
    PROVE  \A n \in Nat : \E f : Approximates(f, b, n)
<1> DEFINE missing == {n \in Nat : ~ \E f : Approximates(f, b, n)}
<1> SUFFICES ASSUME missing # {} PROVE FALSE
  OBVIOUS
<1>1. PICK n \in missing : \A m \in missing : n <= m
  <2>1. missing \subseteq Nat
    OBVIOUS
  <2> HIDE DEF missing
  <2> QED  BY <2>1, LeastExists
<1>2. n \in Nat /\ ~ \E f : Approximates(f, b, n)
  OBVIOUS
<1>3. CASE n = 0
  <2> DEFINE f == [i \in Nat |-> 1]
  <2>1. Approximates(f, b, n)
    BY <1>3 DEF Approximates
  <2> QED  BY <1>2, <2>1
<1>4. CASE n # 0
  <2>1. n - 1 \in Nat /\ ~ (n <= n - 1)
    BY <1>2, <1>4
  <2>2. PICK g : Approximates(g, b, n - 1)
    BY <1>1, <2>1
  <2> DEFINE x == b * g[n - 1]
             f == [i \in Nat |-> IF i = n THEN x ELSE g[i]]
  <2>3. g \in [Nat -> Nat] /\ g[0] = 1 /\ \A i \in Nat : i < n - 1 => g[i + 1] = b * g[i]
    BY <2>2 DEF Approximates
  <2>4. x \in Nat
    BY <2>1, <2>3
  <2>5. f[0] = 1 /\ f \in [Nat -> Nat]
    <3> HIDE DEF x
    <3> QED  BY <1>4, <2>3, <2>4
  <2>6. ASSUME NEW i \in Nat, i < n PROVE f[i + 1] = b * f[i]
    <3>1. CASE i = n - 1
      BY <1>2, <2>1, <3>1
    <3>2. CASE i # n - 1
      <4>1. i < n - 1 /\ i + 1 # n /\ i # n /\ i + 1 \in Nat
        BY <1>2, <2>6, <3>2
      <4>2. f[i + 1] = g[i + 1] /\ f[i] = g[i]
        BY <4>1
      <4> QED  BY <2>3, <4>1, <4>2
    <3> QED  BY <3>1, <3>2
  <2>7. Approximates(f, b, n)
    BY <2>5, <2>6 DEF Approximates
  <2> QED  BY <1>2, <2>7
<1> QED  BY <1>3, <1>4

LEMMA ApproximationsAgree ==
    ASSUME NEW b \in Nat, NEW n \in Nat, NEW f, NEW g,
           Approximates(f, b, n), Approximates(g, b, n + 1)
    PROVE  f[n] = g[n]
<1> DEFINE apart == {i \in Nat : i <= n /\ f[i] # g[i]}
<1> SUFFICES ASSUME apart # {} PROVE FALSE
  OBVIOUS
<1>1. PICK i \in apart : \A m \in apart : i <= m
  <2>1. apart \subseteq Nat
    OBVIOUS
  <2> HIDE DEF apart
  <2> QED  BY <2>1, LeastExists
<1>2. i # 0
  BY DEF Approximates
<1>3. i - 1 \in Nat /\ i - 1 < n /\ f[i - 1] = g[i - 1]
  BY <1>1, <1>2
<1>4. (i - 1) + 1 = i /\ i - 1 < n + 1
  BY <1>3
<1>5. f[i] = b * f[i - 1] /\ g[i] = b * g[i - 1]
  BY <1>3, <1>4 DEF Approximates
<1> QED  BY <1>1, <1>3, <1>5

LEMMA PowersAre ==
    ASSUME NEW b \in Nat
    PROVE  Powers(b) = [n \in Nat |-> IF n = 0 THEN 1 ELSE b * Powers(b)[n - 1]]
<1> DEFINE up[n \in Nat] == CHOOSE f : Approximates(f, b, n)
           pow == [n \in Nat |-> up[n][n]]
<1>1. \A n \in Nat : Approximates(up[n], b, n)
  BY ApproximationsExist
<1> HIDE DEF up
<1>2. pow[0] = 1
  BY <1>1 DEF Approximates
<1>3. ASSUME NEW n \in Nat, n # 0 PROVE pow[n] = b * pow[n - 1]
  <2>1. n - 1 \in Nat /\ (n - 1) + 1 = n /\ n - 1 < n
    BY <1>3
  <2>2. up[n - 1][n - 1] = up[n][n - 1]
    BY <1>1, <2>1, ApproximationsAgree
  <2>3. up[n][n] = b * up[n][n - 1]
    BY <1>1, <2>1 DEF Approximates
  <2> QED  BY <2>1, <2>2, <2>3
<1>4. pow = [n \in Nat |-> IF n = 0 THEN 1 ELSE b * pow[n - 1]]
  <2> HIDE DEF pow
  <2>1. pow = [n \in Nat |-> pow[n]]
    BY DEF pow
  <2> QED  BY <1>2, <1>3, <2>1
<1> HIDE DEF pow
<1>5. \E f : f = [n \in Nat |-> IF n = 0 THEN 1 ELSE b * f[n - 1]]
  BY <1>4
<1> QED  BY <1>5 DEF Powers

LEMMA PowersArePositive ==
    ASSUME NEW b \in Nat \ {0}, NEW n \in Nat
    PROVE  Powers(b)[n] \in Nat \ {0}
<1> DEFINE p == Powers(b)
           others == {i \in Nat : p[i] \notin Nat \ {0}}
<1>1. p = [i \in Nat |-> IF i = 0 THEN 1 ELSE b * p[i - 1]]
  BY PowersAre
<1> HIDE DEF p
<1> SUFFICES ASSUME others # {} PROVE FALSE
  BY DEF p
<1>2. PICK i \in others : \A m \in others : i <= m
  <2>1. others \subseteq Nat
    OBVIOUS
  <2> HIDE DEF others
  <2> QED  BY <2>1, LeastExists
<1>3. i # 0
  BY <1>1
<1>4. i - 1 \in Nat /\ p[i - 1] \in Nat \ {0}
  BY <1>2, <1>3
<1>5. p[i] = b * p[i - 1]
  BY <1>1, <1>3
<1>6. \A x \in Nat \ {0} : b * x \in Nat \ {0}
  OBVIOUS
<1> QED  BY <1>4, <1>5, <1>6

\* The hash yields a number: it is a residue.
LEMMA HashIsNumber ==
    ASSUME BloomAssumption, NEW k \in FilterKeys, NEW i \in Nat
    PROVE  MurmurHash3(k, i) \in Nat
<1> DEFINE r == (k.base + Powers(31)[k.length] * i) % Powers(2)[Width]
<1>1. Width - 1 \in Nat /\ k.length \in Nat /\ k.base \in Nat
  BY DEF BloomAssumption
<1>2. /\ Powers(31)[k.length] \in Nat \ {0}
      /\ Powers(2)[Width] \in Nat \ {0} /\ Powers(2)[Width - 1] \in Nat \ {0}
  BY <1>1, PowersArePositive DEF BloomAssumption
<1>3. k.base + Powers(31)[k.length] * i \in Nat
  BY <1>1, <1>2
<1>4. r \in Nat
  BY <1>2, <1>3
<1> HIDE DEF r
<1>5. r % Powers(2)[Width - 1] \in Nat
  BY <1>2, <1>4
<1> QED  BY <1>5 DEF MurmurHash3, r

-----------------------------------------------------------------------------
(* The filter.                                                             *)

\* A bit of the filter lies within its bytes: sizes are rounded up.
Contained ==
    /\ bitSize \in Nat \ {0} /\ numHashes \in Nat \ {0}
    /\ keys \subseteq FilterKeys
    /\ \A k \in keys : \A i \in 0 .. numHashes - 1 : Place(k, i) \in bits

LEMMA PlaceWithin ==
    ASSUME BloomAssumption, bitSize \in Nat \ {0},
           NEW k \in FilterKeys, NEW i \in Nat
    PROVE  Place(k, i)[1] < Bytes
<1> DEFINE h == MurmurHash3(k, i) % bitSize
<1>1. MurmurHash3(k, i) \in Nat
  BY HashIsNumber
<1>2. h \in 0 .. bitSize - 1
  BY <1>1
<1>3. Place(k, i)[1] = h \div 8
  BY DEF Place
<1> HIDE DEF h
<1>4. h \div 8 < (bitSize + 7) \div 8
  BY <1>2
<1> QED  BY <1>3, <1>4 DEF Bytes

\* mightContain and add ask for the same bits, and the bytes that go through the file
\* hold them all.
THEOREM AddedIsFound == FilterSpec => []NoFalseNegative
<1>1. FilterInit => Contained
  BY BloomAssumption DEF FilterInit, Contained
<1>2. Contained /\ [FilterNext]_filterVars => Contained'
  <2> SUFFICES ASSUME Contained, [FilterNext]_filterVars PROVE Contained'
    OBVIOUS
  <2>1. CASE UNCHANGED filterVars
    BY <2>1 DEF filterVars, Contained, Place
  <2>2. CASE Seal
    <3>1. \A k \in keys : \A i \in 0 .. numHashes - 1 : Place(k, i) \in {p \in bits : p[1] < Bytes}
      BY PlaceWithin, BloomAssumption DEF Contained
    <3> QED  BY <2>2, <3>1 DEF Seal, Contained, Place
  <2>3. ASSUME NEW k \in FilterKeys, Add(k) PROVE Contained'
    <3>1. \A i \in 0 .. numHashes - 1 : Place(k, i) \in Places(k)
      BY DEF Places
    <3> QED  BY <2>3, <3>1 DEF Add, Contained, Place
  <2> QED  BY <2>1, <2>2, <2>3 DEF FilterNext
<1>3. Contained => NoFalseNegative
  BY DEF Contained, NoFalseNegative, MightContain, Places
<1> QED  BY <1>1, <1>2, <1>3, PTL DEF FilterSpec

-----------------------------------------------------------------------------
(* The block cache.                                                        *)

CacheTypes ==
    /\ order \in Seq([key : Files, place : Slots])
    /\ Len(order) <= MaxCapacity
    /\ missed \in [Engines -> Files \cup {Nothing}]
    /\ recent \in Seq(Files)

\* The map leads from the name of each entry to its place, and from no other name.
Entries ==
    /\ \A i, j \in 1 .. Len(order) : i # j => order[i].place # order[j].place
    /\ DOMAIN index = {order[i].key : i \in 1 .. Len(order)}
    /\ \A i \in 1 .. Len(order) : index[order[i].key] = order[i].place

\* The names in the list are the first ones of the history, which has none twice.
Recency ==
    /\ \A i, j \in 1 .. Len(recent) : i # j => recent[i] # recent[j]
    /\ Len(order) = IF Len(recent) < MaxCapacity THEN Len(recent) ELSE MaxCapacity
    /\ \A i \in 1 .. Len(order) : order[i].key = recent[i]

Cached == CacheTypes /\ Entries /\ Recency

\* emplace_front.
LEMMA PutInFront ==
    ASSUME NEW S, NEW s \in Seq(S), NEW e \in S
    PROVE  /\ <<e>> \o s \in Seq(S) /\ Len(<<e>> \o s) = Len(s) + 1
           /\ (<<e>> \o s)[1] = e
           /\ \A j \in 2 .. Len(s) + 1 : (<<e>> \o s)[j] = s[j - 1]
  OBVIOUS

LEMMA Beginning ==
    ASSUME NEW S, NEW s \in Seq(S), NEW n \in 0 .. Len(s)
    PROVE  /\ SubSeq(s, 1, n) \in Seq(S) /\ Len(SubSeq(s, 1, n)) = n
           /\ \A j \in 1 .. n : SubSeq(s, 1, n)[j] = s[j]
  OBVIOUS

\* splice: one element comes to the front, those that were before it move on by one.
LEMMA MovedToFront ==
    ASSUME NEW S, NEW s \in Seq(S), NEW i \in 1 .. Len(s)
    PROVE  /\ ToFront(s, i) \in Seq(S) /\ Len(ToFront(s, i)) = Len(s)
           /\ ToFront(s, i)[1] = s[i]
           /\ \A j \in 2 .. i : ToFront(s, i)[j] = s[j - 1]
           /\ \A j \in i + 1 .. Len(s) : ToFront(s, i)[j] = s[j]
<1> DEFINE a == SubSeq(s, 1, i - 1)
           b == SubSeq(s, i + 1, Len(s))
           x == <<s[i]>>
<1>1. a \in Seq(S) /\ Len(a) = i - 1 /\ \A j \in 1 .. i - 1 : a[j] = s[j]
  OBVIOUS
<1>2. b \in Seq(S) /\ Len(b) = Len(s) - i /\ \A j \in 1 .. Len(s) - i : b[j] = s[j + i]
  OBVIOUS
<1>3. x \in Seq(S) /\ Len(x) = 1 /\ x[1] = s[i]
  OBVIOUS
<1>4. ToFront(s, i) = x \o (a \o b)
  BY DEF ToFront, RemoveAt
<1> HIDE DEF a, b, x
<1>5. PICK c : c = a \o b
  OBVIOUS
<1>6. /\ c \in Seq(S) /\ Len(c) = Len(s) - 1
      /\ \A j \in 1 .. i - 1 : c[j] = s[j]
      /\ \A j \in i .. Len(s) - 1 : c[j] = s[j + 1]
  <2>1. c \in Seq(S) /\ Len(c) = Len(s) - 1
    BY <1>1, <1>2, <1>5
  <2>2. \A j \in 1 .. i - 1 : c[j] = s[j]
    BY <1>1, <1>2, <1>5
  <2>3. ASSUME NEW j \in i .. Len(s) - 1 PROVE c[j] = s[j + 1]
    <3>1. c[j] = b[j - (i - 1)]
      BY <1>1, <1>2, <1>5
    <3>2. j - (i - 1) \in 1 .. Len(s) - i /\ j - (i - 1) + i = j + 1
      OBVIOUS
    <3> QED  BY <1>2, <3>1, <3>2
  <2> QED  BY <2>1, <2>2, <2>3
<1>7. PICK d : d = <<s[i]>> \o c
  OBVIOUS
<1>8. d \in Seq(S) /\ Len(d) = Len(s) /\ d[1] = s[i] /\ \A j \in 2 .. Len(s) : d[j] = c[j - 1]
  <2>1. s[i] \in S /\ Len(c) + 1 = Len(s)
    BY <1>6
  <2> QED  BY <1>6, <1>7, <2>1, PutInFront
<1>9. /\ \A j \in 2 .. i : d[j] = s[j - 1]
      /\ \A j \in i + 1 .. Len(s) : d[j] = s[j]
  <2>1. \A j \in 2 .. i : j - 1 \in 1 .. i - 1 /\ j \in 2 .. Len(s)
    OBVIOUS
  <2>2. \A j \in i + 1 .. Len(s) : j - 1 \in i .. Len(s) - 1 /\ j - 1 + 1 = j /\ j \in 2 .. Len(s)
    OBVIOUS
  <2> QED  BY <1>6, <1>8, <2>1, <2>2
<1> QED  BY <1>4, <1>5, <1>7, <1>8, <1>9 DEF x

\* Entries that are used move to the front of list and history alike.
LEMMA TouchKeeps ==
    ASSUME Cached, NEW f \in DOMAIN index, Touch(f), Use(f)
    PROVE  /\ order' \in Seq([key : Files, place : Slots]) /\ recent' \in Seq(Files)
           /\ Len(order') = Len(order)
           /\ Entries' /\ Recency'
<1>1. PICK i \in 1 .. Len(order) : order[i].key = f
  BY DEF Cached, Entries
<1>2. Position(f) = i
  BY <1>1 DEF Cached, Entries, Position
<1>3. order' = ToFront(order, i) /\ index' = index
  BY <1>2 DEF Touch
<1>4. Len(order) \in Nat /\ Len(recent) \in Nat /\ i \in 1 .. Len(recent) /\ recent[i] = f
  BY <1>1, BlockCacheAssumption DEF Cached, Recency, CacheTypes
<1>5. (CHOOSE j \in 1 .. Len(recent) : recent[j] = f) = i
  BY <1>4 DEF Cached, Recency
<1>6. recent' = ToFront(recent, i)
  BY <1>4, <1>5 DEF Use
<1>7. /\ order' \in Seq([key : Files, place : Slots]) /\ Len(order') = Len(order)
      /\ order'[1] = order[i]
      /\ \A j \in 2 .. i : order'[j] = order[j - 1]
      /\ \A j \in i + 1 .. Len(order) : order'[j] = order[j]
  BY <1>3, MovedToFront DEF Cached, CacheTypes
<1>8. /\ recent' \in Seq(Files) /\ Len(recent') = Len(recent)
      /\ recent'[1] = recent[i]
      /\ \A j \in 2 .. i : recent'[j] = recent[j - 1]
      /\ \A j \in i + 1 .. Len(recent) : recent'[j] = recent[j]
  BY <1>4, <1>6, MovedToFront DEF Cached, CacheTypes
<1> DEFINE old(j) == IF j = 1 THEN i ELSE IF j <= i THEN j - 1 ELSE j
           new(j) == IF j = i THEN 1 ELSE IF j < i THEN j + 1 ELSE j
<1>9. /\ \A j \in 1 .. Len(order) : old(j) \in 1 .. Len(order)
      /\ \A j \in 1 .. Len(recent) : old(j) \in 1 .. Len(recent)
      /\ \A j, l \in 1 .. Len(recent) : j # l => old(j) # old(l)
      /\ \A j, l \in 1 .. Len(order) : j # l => old(j) # old(l)
      /\ \A j \in 1 .. Len(order) : new(j) \in 1 .. Len(order) /\ old(new(j)) = j
  BY <1>1, <1>4
<1>12. \A j \in 1 .. Len(order) : order'[j] = order[old(j)]
  <2> SUFFICES ASSUME NEW j \in 1 .. Len(order) PROVE order'[j] = order[old(j)]
    OBVIOUS
  <2>1. CASE j = 1
    BY <1>7, <2>1
  <2>2. CASE j \in 2 .. i
    BY <1>7, <2>2
  <2>3. CASE j \in i + 1 .. Len(order)
    BY <1>7, <2>3
  <2> QED  BY <1>1, <1>4, <2>1, <2>2, <2>3
<1>13. \A j \in 1 .. Len(recent) : recent'[j] = recent[old(j)]
  <2> SUFFICES ASSUME NEW j \in 1 .. Len(recent) PROVE recent'[j] = recent[old(j)]
    OBVIOUS
  <2>1. CASE j = 1
    BY <1>8, <2>1
  <2>2. CASE j \in 2 .. i
    BY <1>8, <2>2
  <2>3. CASE j \in i + 1 .. Len(recent)
    BY <1>8, <2>3
  <2> QED  BY <1>1, <1>4, <2>1, <2>2, <2>3
<1> HIDE DEF old, new
<1>14. PICK n : n = Len(order) /\ n = Len(order')
  BY <1>7
<1>10. Entries'
  <2>1. \A j, l \in 1 .. Len(order') : j # l => order'[j].place # order'[l].place
    <3> SUFFICES ASSUME NEW j \in 1 .. n, NEW l \in 1 .. n, j # l
                 PROVE  order'[j].place # order'[l].place
      BY <1>14
    <3>1. old(j) \in 1 .. n /\ old(l) \in 1 .. n /\ old(j) # old(l)
      BY <1>9, <1>14
    <3>2. order'[j] = order[old(j)] /\ order'[l] = order[old(l)]
      BY <1>12, <1>14
    <3> QED  BY <1>14, <3>1, <3>2 DEF Cached, Entries
  <2>2. \A j \in 1 .. Len(order') : index'[order'[j].key] = order'[j].place /\ order'[j].key \in DOMAIN index'
    <3> SUFFICES ASSUME NEW j \in 1 .. n
                 PROVE  index[order'[j].key] = order'[j].place /\ order'[j].key \in DOMAIN index
      BY <1>3, <1>14
    <3>1. old(j) \in 1 .. n /\ order'[j] = order[old(j)]
      BY <1>9, <1>12, <1>14
    <3> QED  BY <1>14, <3>1 DEF Cached, Entries
  <2>3. \A g \in DOMAIN index' : \E j \in 1 .. Len(order') : order'[j].key = g
    <3> SUFFICES ASSUME NEW g \in DOMAIN index PROVE \E j \in 1 .. n : order'[j].key = g
      BY <1>3, <1>14
    <3>1. PICK j \in 1 .. Len(order) : order[j].key = g
      BY DEF Cached, Entries
    <3> QED  BY <1>9, <1>12, <1>14, <3>1
  <2>4. DOMAIN index' = {order'[j].key : j \in 1 .. Len(order')}
    BY <2>2, <2>3
  <2> QED  BY <2>1, <2>2, <2>4 DEF Entries
<1>11. Recency'
  <2>1. \A j, l \in 1 .. Len(recent') : j # l => recent'[j] # recent'[l]
    <3> SUFFICES ASSUME NEW j \in 1 .. Len(recent), NEW l \in 1 .. Len(recent), j # l
                 PROVE  recent'[j] # recent'[l]
      BY <1>8
    <3>1. old(j) \in 1 .. Len(recent) /\ old(l) \in 1 .. Len(recent) /\ old(j) # old(l)
      BY <1>9
    <3> QED  BY <1>13, <3>1 DEF Cached, Recency
  <2>2. Len(order') = IF Len(recent') < MaxCapacity THEN Len(recent') ELSE MaxCapacity
    BY <1>7, <1>8 DEF Cached, Recency
  <2>3. \A j \in 1 .. Len(order') : order'[j].key = recent'[j]
    <3>1. \A j \in 1 .. Len(order) : j \in 1 .. Len(recent)
      BY <1>4, BlockCacheAssumption DEF Cached, Recency
    <3> QED  BY <1>9, <1>12, <1>13, <1>14, <3>1 DEF Cached, Recency
  <2> QED  BY <2>1, <2>2, <2>3 DEF Recency
<1> QED  BY <1>7, <1>8, <1>10, <1>11

\* There is a free place: one more than the list may have entries.
LEMMA FreeSlot ==
    ASSUME Cached
    PROVE  \E p \in Slots : \A i \in 1 .. Len(order) : order[i].place # p
<1>1. PICK n \in Nat : n = Len(order) /\ n <= MaxCapacity
  BY DEF Cached, CacheTypes
<1>2. IsFiniteSet(1 .. n) /\ Cardinality(1 .. n) <= n
  BY FS_Interval
<1>3. Cardinality(Slots) = MaxCapacity + 1
  BY FS_Interval, BlockCacheAssumption DEF Slots
<1>4. SUFFICES ASSUME \A p \in Slots : \E i \in 1 .. n : order[i].place = p PROVE FALSE
  BY <1>1
<1> DEFINE at == [p \in Slots |-> CHOOSE i \in 1 .. n : order[i].place = p]
<1>5. \A p \in Slots : at[p] \in 1 .. n /\ order[at[p]].place = p
  BY <1>4
<1>6. at \in [Slots -> 1 .. n]
  BY <1>5
<1> HIDE DEF at
<1>7. at \in Injection(Slots, 1 .. n)
  BY <1>5, <1>6 DEF Injection, IsInjective
<1>8. Cardinality(Slots) <= Cardinality(1 .. n)
  BY <1>2, <1>7, FS_Injection
<1>9. Cardinality(1 .. n) \in Nat
  BY <1>2, FS_CardinalityType
<1> QED  BY <1>1, <1>2, <1>3, <1>8, <1>9, BlockCacheAssumption

\* A new entry comes to the front; the last one goes if there is one too many.
LEMMA InsertKeeps ==
    ASSUME Cached, NEW f \in Files \ DOMAIN index, Insert(f), Use(f)
    PROVE  /\ order' \in Seq([key : Files, place : Slots]) /\ recent' \in Seq(Files)
           /\ Len(order') <= MaxCapacity
           /\ Entries' /\ Recency'
<1> DEFINE entry == NewEntry(f)
<1>1. /\ entry \in [key : Files, place : Slots] /\ entry.key = f
      /\ \A i \in 1 .. Len(order) : order[i].place # entry.place
  BY FreeSlot DEF NewEntry
<1> HIDE DEF entry
<1>2. PICK n \in Nat : n = Len(order) /\ n <= MaxCapacity
  BY DEF Cached, CacheTypes
<1>3. PICK m \in 1 .. MaxCapacity : m = IF n + 1 > MaxCapacity THEN MaxCapacity ELSE n + 1
  BY <1>2, BlockCacheAssumption
<1>4. PICK grown : grown = <<entry>> \o order
  OBVIOUS
<1>5. /\ grown \in Seq([key : Files, place : Slots]) /\ Len(grown) = n + 1
      /\ grown[1] = entry /\ \A j \in 2 .. n + 1 : grown[j] = order[j - 1]
  BY <1>1, <1>2, <1>4, PutInFront DEF Cached, CacheTypes
<1>6. /\ order' \in Seq([key : Files, place : Slots]) /\ Len(order') = m
      /\ \A j \in 1 .. m : order'[j] = grown[j]
  <2>1. order' = IF n + 1 > MaxCapacity THEN SubSeq(grown, 1, n) ELSE grown
    BY <1>4, <1>5 DEF Insert, Front, entry
  <2>2. CASE n + 1 > MaxCapacity
    <3>1. n = m
      BY <1>2, <1>3, <2>2, BlockCacheAssumption
    <3>2. PICK cut : cut = SubSeq(grown, 1, n)
      OBVIOUS
    <3>3. cut \in Seq([key : Files, place : Slots]) /\ Len(cut) = n /\ \A j \in 1 .. n : cut[j] = grown[j]
      <4>1. n \in 0 .. Len(grown)
        BY <1>2, <1>5
      <4> QED  BY <1>5, <3>2, <4>1, Beginning
    <3> QED  BY <2>1, <2>2, <3>1, <3>2, <3>3
  <2>3. CASE ~ (n + 1 > MaxCapacity)
    BY <1>3, <1>5, <2>1, <2>3
  <2> QED  BY <2>2, <2>3
<1>7. order'[1] = entry /\ \A j \in 2 .. m : j - 1 \in 1 .. n /\ order'[j] = order[j - 1]
  BY <1>2, <1>3, <1>5, <1>6, BlockCacheAssumption
<1>8. \A i \in 1 .. n : order[i].key # f /\ order[i].key \in Files /\ recent[i] = order[i].key /\ i \in 1 .. Len(recent)
  BY <1>2, BlockCacheAssumption DEF Cached, CacheTypes, Entries, Recency
<1>9. PICK k \in Nat : /\ k = Len(recent) /\ n <= k /\ (n = k \/ n = MaxCapacity)
                       /\ n = IF k < MaxCapacity THEN k ELSE MaxCapacity
  BY <1>2, BlockCacheAssumption DEF Cached, CacheTypes, Recency
<1>10. \A j, l \in 1 .. k : j # l => recent[j] # recent[l]
  BY <1>9 DEF Cached, Recency
<1>11. /\ recent' \in Seq(Files) /\ recent'[1] = f
       /\ Len(recent') >= m /\ (Len(recent') = m \/ m = MaxCapacity)
       /\ \A j \in 2 .. m : recent'[j] = recent[j - 1]
       /\ \A j, l \in 1 .. Len(recent') : j # l => recent'[j] # recent'[l]
  <2> DEFINE fresh ==
          /\ recent' \in Seq(Files) /\ recent'[1] = f
          /\ Len(recent') >= m /\ (Len(recent') = m \/ m = MaxCapacity)
          /\ \A j \in 2 .. m : recent'[j] = recent[j - 1]
          /\ \A j, l \in 1 .. Len(recent') : j # l => recent'[j] # recent'[l]
  <2>1. ASSUME NEW q \in 1 .. k, recent[q] = f PROVE fresh
    <3>1. (CHOOSE i \in 1 .. Len(recent) : recent[i] = f) = q
      BY <1>9, <1>10, <2>1
    <3>2. recent' = ToFront(recent, q)
      BY <1>9, <2>1, <3>1 DEF Use
    <3>3. /\ recent' \in Seq(Files) /\ Len(recent') = k
          /\ recent'[1] = f
          /\ \A j \in 2 .. q : recent'[j] = recent[j - 1]
          /\ \A j \in q + 1 .. k : recent'[j] = recent[j]
      BY <1>9, <2>1, <3>2, MovedToFront DEF Cached, CacheTypes
    <3>4. n < q /\ n = MaxCapacity /\ m = MaxCapacity
      <4>1. ~ (q \in 1 .. n)
        BY <1>8, <2>1
      <4> QED  BY <1>2, <1>3, <1>9, <4>1
    <3>5. \A j \in 2 .. m : recent'[j] = recent[j - 1]
      BY <3>3, <3>4
    <3> DEFINE old(j) == IF j = 1 THEN q ELSE IF j <= q THEN j - 1 ELSE j
    <3>6. \A j \in 1 .. k : old(j) \in 1 .. k /\ recent'[j] = recent[old(j)]
      <4> SUFFICES ASSUME NEW j \in 1 .. k PROVE old(j) \in 1 .. k /\ recent'[j] = recent[old(j)]
        OBVIOUS
      <4>1. CASE j = 1
        BY <2>1, <3>3, <4>1
      <4>2. CASE j \in 2 .. q
        BY <3>3, <4>2
      <4>3. CASE j \in q + 1 .. k
        BY <3>3, <4>3
      <4> QED  BY <4>1, <4>2, <4>3
    <3>7. \A j, l \in 1 .. k : j # l => old(j) # old(l)
      OBVIOUS
    <3> HIDE DEF old
    <3>8. \A j, l \in 1 .. k : j # l => recent'[j] # recent'[l]
      <4> SUFFICES ASSUME NEW j \in 1 .. k, NEW l \in 1 .. k, j # l PROVE recent'[j] # recent'[l]
        OBVIOUS
      <4>1. old(j) \in 1 .. k /\ old(l) \in 1 .. k /\ old(j) # old(l)
        BY <3>6, <3>7
      <4> QED  BY <1>10, <3>6, <4>1
    <3> QED  BY <1>9, <3>3, <3>4, <3>5, <3>8
  <2>2. CASE \A q \in 1 .. k : recent[q] # f
    <3>1. recent' = <<f>> \o recent
      BY <1>9, <2>2 DEF Use
    <3>2. /\ recent' \in Seq(Files) /\ Len(recent') = k + 1 /\ recent'[1] = f
          /\ \A j \in 2 .. k + 1 : recent'[j] = recent[j - 1]
      BY <1>9, <3>1, PutInFront DEF Cached, CacheTypes
    <3>3. \A j, l \in 1 .. k + 1 : j # l => recent'[j] # recent'[l]
      <4> SUFFICES ASSUME NEW j \in 1 .. k + 1, NEW l \in 1 .. k + 1, j < l PROVE recent'[j] # recent'[l]
        OBVIOUS
      <4>1. l \in 2 .. k + 1 /\ l - 1 \in 1 .. k /\ recent'[l] = recent[l - 1]
        BY <3>2
      <4>2. CASE j = 1
        BY <2>2, <3>2, <4>1, <4>2
      <4>3. CASE j \in 2 .. k + 1
        <5>1. j - 1 \in 1 .. k /\ j - 1 # l - 1 /\ recent'[j] = recent[j - 1]
          BY <3>2, <4>3
        <5> QED  BY <1>10, <4>1, <5>1
      <4> QED  BY <4>2, <4>3
    <3>4. m <= k + 1 /\ (m = k + 1 \/ m = MaxCapacity)
      BY <1>2, <1>3, <1>9
    <3> QED  BY <3>2, <3>3, <3>4
  <2> QED  BY <2>1, <2>2
<1>12. Recency'
  <2>1. Len(order') = IF Len(recent') < MaxCapacity THEN Len(recent') ELSE MaxCapacity
    BY <1>3, <1>6, <1>11
  <2>2. ASSUME NEW j \in 1 .. m PROVE order'[j].key = recent'[j]
    <3>1. CASE j = 1
      BY <1>1, <1>7, <1>11, <3>1
    <3>2. CASE j \in 2 .. m
      BY <1>7, <1>8, <1>11, <3>2, SMTT(20)
    <3> QED  BY <3>1, <3>2
  <2> QED  BY <1>6, <1>11, <2>1, <2>2 DEF Recency
<1>13. Entries'
  <2>1. \A j, l \in 1 .. m : j # l => order'[j].place # order'[l].place
    <3> SUFFICES ASSUME NEW j \in 1 .. m, NEW l \in 1 .. m, j < l PROVE order'[j].place # order'[l].place
      OBVIOUS
    <3>1. l - 1 \in 1 .. n /\ order'[l] = order[l - 1]
      BY <1>7
    <3>2. CASE j = 1
      BY <1>1, <1>2, <1>7, <3>1, <3>2
    <3>3. CASE j \in 2 .. m
      <4>1. j - 1 \in 1 .. n /\ j - 1 # l - 1 /\ order'[j] = order[j - 1]
        BY <1>7, <3>3
      <4> QED  BY <1>2, <3>1, <4>1 DEF Cached, Entries
    <3> QED  BY <3>2, <3>3
  <2> DEFINE placed == [g \in DOMAIN index \cup {f} |-> IF g = f THEN entry.place ELSE index[g]]
  <2>2. /\ DOMAIN placed = DOMAIN index \cup {f} /\ placed[f] = entry.place
        /\ \A i \in 1 .. n : placed[order[i].key] = order[i].place
    BY <1>2, <1>8 DEF Cached, Entries
  <2>3. \A g : g \in DOMAIN index <=> \E i \in 1 .. n : order[i].key = g
    BY <1>2 DEF Cached, Entries
  <2>4. index' = IF n + 1 > MaxCapacity
                 THEN [g \in DOMAIN placed \ {Last(grown).key} |-> placed[g]] ELSE placed
    BY <1>4, <1>5 DEF Insert, entry
  <2> HIDE DEF placed
  <2>5. \A g : g \in DOMAIN index' <=> \E j \in 1 .. m : order'[j].key = g
    <3>1. CASE n + 1 > MaxCapacity
      <4>1. n = m /\ n = MaxCapacity /\ Last(grown) = order[n]
        BY <1>2, <1>3, <1>5, <3>1 DEF Last
      <4>2. \A i \in 1 .. n : order[i].key = order[n].key => i = n
        BY <1>8, <1>9, <1>10, <4>1
      <4>3. \A g : g \in DOMAIN index' <=> g = f \/ \E i \in 1 .. n - 1 : order[i].key = g
        <5>1. \A g : g \in DOMAIN index' <=> (g \in DOMAIN index \/ g = f) /\ g # order[n].key
          BY <2>2, <2>4, <3>1, <4>1
        <5>2. f # order[n].key
          BY <1>8, <4>1
        <5>3. \A g : (\E i \in 1 .. n : order[i].key = g) /\ g # order[n].key <=> \E i \in 1 .. n - 1 : order[i].key = g
          <6>1. \A i \in 1 .. n : i = n \/ i \in 1 .. n - 1
            BY <1>2
          <6>2. \A i \in 1 .. n - 1 : i \in 1 .. n /\ i # n
            BY <1>2
          <6> QED  BY <4>2, <6>1, <6>2
        <5> QED  BY <2>3, <5>1, <5>2, <5>3
      <4>4. \A g : (\E j \in 1 .. m : order'[j].key = g) <=> g = f \/ \E i \in 1 .. n - 1 : order[i].key = g
        <5>1. 1 \in 1 .. m /\ \A j \in 1 .. m : j = 1 \/ (j \in 2 .. m /\ j - 1 \in 1 .. n - 1)
          BY <1>3, <4>1
        <5>2. \A i \in 1 .. n - 1 : i + 1 \in 2 .. m /\ i + 1 \in 1 .. m /\ i + 1 - 1 = i
          BY <4>1
        <5>3. \A j \in 1 .. m : order'[j].key = f \/ \E i \in 1 .. n - 1 : order[i].key = order'[j].key
          BY <1>1, <1>7, <5>1
        <5>4. order'[1].key = f /\ \A i \in 1 .. n - 1 : order'[i + 1].key = order[i].key
          <6>1. order'[1].key = f
            BY <1>1, <1>7
          <6>2. ASSUME NEW i \in 1 .. n - 1 PROVE order'[i + 1].key = order[i].key
            <7>1. PICK l \in 2 .. m : l = i + 1
              BY <5>2
            <7>2. l - 1 = i
              BY <7>1
            <7>3. order'[l] = order[l - 1]
              BY <1>7
            <7> QED  BY <7>1, <7>2, <7>3
          <6> QED  BY <6>1, <6>2
        <5> QED  BY <5>1, <5>2, <5>3, <5>4
      <4> QED  BY <4>3, <4>4
    <3>2. CASE ~ (n + 1 > MaxCapacity)
      <4>1. m = n + 1 /\ index' = placed
        BY <1>3, <2>4, <3>2
      <4>2. 1 \in 1 .. m /\ \A j \in 1 .. m : j = 1 \/ (j \in 2 .. m /\ j - 1 \in 1 .. n)
        BY <1>3, <4>1
      <4>3. \A i \in 1 .. n : i + 1 \in 2 .. m /\ i + 1 \in 1 .. m /\ i + 1 - 1 = i
        BY <4>1
      <4>4. \A j \in 1 .. m : order'[j].key = f \/ \E i \in 1 .. n : order[i].key = order'[j].key
        BY <1>1, <1>7, <4>2
      <4>5. order'[1].key = f /\ \A i \in 1 .. n : order'[i + 1].key = order[i].key
        BY <1>1, <1>7, <4>3
      <4>6. \A g : g \in DOMAIN index' <=> g = f \/ \E i \in 1 .. n : order[i].key = g
        BY <2>2, <2>3, <4>1
      <4> QED  BY <4>2, <4>3, <4>4, <4>5, <4>6
    <3> QED  BY <3>1, <3>2
  <2>6. \A g \in DOMAIN index' : index'[g] = placed[g]
    BY <2>4
  <2>7. ASSUME NEW j \in 1 .. m PROVE index'[order'[j].key] = order'[j].place
    <3>1. index'[order'[j].key] = placed[order'[j].key]
      BY <2>5, <2>6
    <3>2. CASE j = 1
      BY <1>1, <1>7, <2>2, <3>1, <3>2
    <3>3. CASE j \in 2 .. m
      BY <1>7, <2>2, <3>1, <3>3
    <3> QED  BY <3>2, <3>3
  <2>8. DOMAIN index' = {order'[j].key : j \in 1 .. m}
    BY <2>5
  <2> QED  BY <1>6, <2>1, <2>7, <2>8 DEF Entries
<1> QED  BY <1>3, <1>6, <1>11, <1>12, <1>13

LEMMA CachedKept == Cached /\ [CacheNext]_cacheVars => Cached'
<1> SUFFICES ASSUME Cached, [CacheNext]_cacheVars PROVE Cached'
  OBVIOUS
<1>2. ASSUME NEW e \in Engines, Hit(e) PROVE Cached'
  <2>1. PICK f \in DOMAIN index : Touch(f) /\ Use(f)
    BY <1>2 DEF Hit
  <2>2. missed' = missed
    BY <1>2 DEF Hit
  <2> QED  BY <2>1, <2>2, TouchKeeps DEF Cached, CacheTypes
<1>3. ASSUME NEW e \in Engines, Miss(e) PROVE Cached'
  <2>1. missed' \in [Engines -> Files \cup {Nothing}]
    BY <1>3 DEF Miss, Cached, CacheTypes
  <2>2. UNCHANGED <<order, index, recent>>
    BY <1>3 DEF Miss
  <2> QED  BY <2>1, <2>2 DEF Cached, CacheTypes, Entries, Recency
<1>4. ASSUME NEW e \in Engines, Put(e) PROVE Cached'
  <2>1. PICK f \in Files : f = missed[e]
    BY <1>4 DEF Put, Cached, CacheTypes
  <2>2. Use(f) /\ missed' \in [Engines -> Files \cup {Nothing}]
    BY <1>4, <2>1 DEF Put, Cached, CacheTypes
  <2>3. CASE f \in DOMAIN index /\ Touch(f)
    BY <2>2, <2>3, TouchKeeps DEF Cached, CacheTypes
  <2>4. CASE f \notin DOMAIN index /\ Insert(f)
    BY <2>2, <2>4, InsertKeeps DEF Cached, CacheTypes
  <2> QED  BY <1>4, <2>1, <2>3, <2>4 DEF Put
<1>5. CASE UNCHANGED cacheVars
  BY <1>5 DEF cacheVars, Cached, CacheTypes, Entries, Recency
<1> QED  BY <1>2, <1>3, <1>4, <1>5 DEF CacheNext

\* get and put under mutex_: what list, map and history have in common is an inductive
\* invariant, whatever the engines ask for in between.
THEOREM InductiveCache == CacheSpec => []Cached
<1>1. CacheInit => Cached
  BY BlockCacheAssumption DEF CacheInit, Cached, CacheTypes, Entries, Recency
<1> QED  BY <1>1, CachedKept, PTL DEF CacheSpec

\* order_ and index_ of the cache: no iterator outlives its entry, every name has one
\* entry, and neither grows beyond maxCapacity_.
THEOREM ListMatchesMap == CacheSpec => []ListAndMapAgree
<1>1. ASSUME Cached PROVE ListAndMapAgree
  <2>1. PICK n \in Nat : n = Len(order)
    BY <1>1 DEF Cached, CacheTypes
  <2> DEFINE name == [i \in 1 .. n |-> order[i].key]
  <2>2. \A i, j \in 1 .. n : i # j => order[i].key # order[j].key
    <3>1. \A i \in 1 .. n : i \in 1 .. Len(recent)
      BY <1>1, <2>1, BlockCacheAssumption DEF Cached, CacheTypes, Recency
    <3> QED  BY <1>1, <2>1, <3>1 DEF Cached, Recency
  <2>3. name \in Bijection(1 .. n, DOMAIN index)
    <3>1. DOMAIN index = {order[i].key : i \in 1 .. n}
      BY <1>1, <2>1 DEF Cached, Entries
    <3> QED  BY <2>2, <3>1 DEF Bijection, Injection, Surjection, IsInjective
  <2> HIDE DEF name
  <2>4. Cardinality(DOMAIN index) = n
    <3>1. IsFiniteSet(1 .. n) /\ Cardinality(1 .. n) = n
      BY FS_Interval
    <3>2. ExistsBijection(1 .. n, DOMAIN index)
      BY <2>3 DEF ExistsBijection
    <3> QED  BY <3>1, <3>2, FS_Bijection
  <2> QED  BY <1>1, <2>1, <2>4 DEF Cached, CacheTypes, Entries, ListAndMapAgree
<1> QED  BY <1>1, InductiveCache, PTL

\* put after a miss and get: the cache holds the names used last, in the order of their
\* last use, also when two engines have missed the same name at the same time.
THEOREM MostRecentKept == CacheSpec => []KeepsMostRecent
<1>1. ASSUME Cached PROVE KeepsMostRecent
  <2>1. PICK n \in Nat : n = Len(order) /\ n = IF Len(recent) < MaxCapacity THEN Len(recent) ELSE MaxCapacity
    BY <1>1 DEF Cached, CacheTypes, Recency
  <2>2. n <= Len(recent)
    BY <1>1, <2>1, BlockCacheAssumption DEF Cached, CacheTypes
  <2>3. PICK first : first = SubSeq(recent, 1, n)
    OBVIOUS
  <2>4. first = [i \in 1 .. n |-> recent[i]]
    BY <1>1, <2>2, <2>3 DEF Cached, CacheTypes
  <2>5. \A i \in 1 .. n : order[i].key = recent[i]
    BY <1>1, <2>1 DEF Cached, Recency
  <2> QED  BY <2>1, <2>3, <2>4, <2>5 DEF KeepsMostRecent
<1> QED  BY <1>1, InductiveCache, PTL

-----------------------------------------------------------------------------
(* The connections of the server.                                          *)

ConnectionTypes ==
    /\ sent \in [Connections -> Seq(Requests)]
    /\ stream \in [Connections -> Nat]
    /\ taken \in [Connections -> Nat]
    /\ store \in [StoreKeys -> Nat] /\ ops \in Nat
    /\ answers \in [Connections -> Seq([to : Requests, ok : BOOLEAN, value : Nat])]
    /\ \A c \in Connections :
          /\ taken[c] <= stream[c]
          /\ stream[c] <= Frame * Len(sent[c])
    /\ reader \in [Connections -> [part : {"length", "payload", "serve", "closed"}, got : Nat]]

\* How far the thread is in its frame.
InFrame(c) ==
    IF reader[c].part = "length" THEN reader[c].got
    ELSE IF reader[c].part = "payload" THEN Length + reader[c].got ELSE Frame

\* One answer for each frame that was read before this one.
FramesAligned ==
    \A c \in Connections :
        IF reader[c].part = "closed" THEN Frame * Len(answers[c]) <= taken[c]
        ELSE /\ taken[c] = Frame * Len(answers[c]) + InFrame(c)
             /\ Reading(c) => reader[c].got < Wanted(c)

AnswersMatch ==
    \A c \in Connections :
        /\ Len(answers[c]) <= Len(sent[c])
        /\ \A i \in 1 .. Len(answers[c]) : answers[c][i].to = sent[c][i]

Served == ConnectionTypes /\ FramesAligned /\ AnswersMatch

LEMMA FrameArithmetic ==
    ASSUME NEW F \in Nat \ {0}, NEW n \in Nat
    PROVE  /\ F * (n + 1) = F * n + F /\ F * n \in Nat
           /\ \A x \in Nat : x = F * n + F => (x - 1) \div F = n
           /\ \A x \in Nat : F * n <= x => n <= x \div F
           /\ \A m \in Nat : F * n + F <= F * m => n + 1 <= m
<1>1. F * (n + 1) = F * n + F /\ F * n \in Nat
  OBVIOUS
<1>2. ASSUME NEW x \in Nat, x = F * n + F PROVE (x - 1) \div F = n
  BY <1>2
<1>3. ASSUME NEW x \in Nat, F * n <= x PROVE n <= x \div F
  BY <1>3
<1>4. ASSUME NEW m \in Nat, F * n + F <= F * m PROVE n + 1 <= m
  BY <1>4
<1> QED  BY <1>1, <1>2, <1>3, <1>4

\* In "serve" the frame that was read last is that of the next answer.
LEMMA NextRequest ==
    ASSUME Served, NEW c \in Connections, reader[c].part = "serve"
    PROVE  /\ Len(answers[c]) + 1 \in 1 .. Len(sent[c])
           /\ Request(c) = sent[c][Len(answers[c]) + 1] /\ Request(c) \in Requests
           /\ taken[c] = Frame * (Len(answers[c]) + 1)
<1>1. Frame \in Nat \ {0}
  BY ServerAssumption DEF Frame
<1>2. PICK n \in Nat, m \in Nat : n = Len(answers[c]) /\ m = Len(sent[c])
  BY DEF Served, ConnectionTypes
<1>3. taken[c] = Frame * n + Frame
  BY <1>2 DEF Served, FramesAligned, InFrame
<1>4. taken[c] <= Frame * m
  <2>1. taken[c] \in Nat /\ stream[c] \in Nat /\ Frame * m \in Nat
    BY <1>1, <1>2 DEF Served, ConnectionTypes
  <2>2. taken[c] <= stream[c] /\ stream[c] <= Frame * m
    BY <1>2 DEF Served, ConnectionTypes
  <2> QED  BY <2>1, <2>2
<1>5. n + 1 <= m
  <2>1. Frame * n + Frame <= Frame * m
    BY <1>3, <1>4
  <2> QED  BY <1>1, <1>2, <2>1, FrameArithmetic
<1>6. (taken[c] - 1) \div Frame + 1 = n + 1
  <2>1. taken[c] \in Nat
    BY DEF Served, ConnectionTypes
  <2>2. (taken[c] - 1) \div Frame = n
    BY <1>1, <1>2, <1>3, <2>1, FrameArithmetic
  <2> QED  BY <2>2
<1>7. Request(c) = sent[c][n + 1]
  BY <1>6 DEF Request
<1>8. sent[c][n + 1] \in Requests
  BY <1>2, <1>5 DEF Served, ConnectionTypes
<1>9. taken[c] = Frame * (n + 1)
  BY <1>1, <1>2, <1>3, FrameArithmetic
<1> QED  BY <1>2, <1>5, <1>7, <1>8, <1>9

\* A new request comes behind those that are answered or on their way.
LEMMA SendKeeps ==
    ASSUME Served, NEW c \in Connections, Send(c)
    PROVE  Served'
<1>1. Frame \in Nat \ {0}
  BY ServerAssumption DEF Frame
<1>2. PICK q \in Requests : sent' = [sent EXCEPT ![c] = Append(@, q)]
  BY DEF Send
<1>3. /\ stream' = [stream EXCEPT ![c] = @ + Frame]
      /\ UNCHANGED <<broken, taken, reader, answers, store, ops>>
  BY DEF Send
<1>4. \A d \in Connections : sent[d] \in Seq(Requests) /\ stream[d] \in Nat /\ taken[d] \in Nat
                             /\ taken[d] <= stream[d] /\ stream[d] <= Frame * Len(sent[d])
  BY DEF Served, ConnectionTypes
<1>5. /\ sent' \in [Connections -> Seq(Requests)] /\ stream' \in [Connections -> Nat]
      /\ sent'[c] = Append(sent[c], q) /\ stream'[c] = stream[c] + Frame
      /\ \A d \in Connections \ {c} : sent'[d] = sent[d] /\ stream'[d] = stream[d]
  <2>1. Append(sent[c], q) \in Seq(Requests) /\ stream[c] + Frame \in Nat
    BY <1>1, <1>4
  <2> QED  BY <1>2, <1>3, <2>1 DEF Served, ConnectionTypes
<1>6. /\ Len(sent'[c]) = Len(sent[c]) + 1
      /\ \A i \in 1 .. Len(sent[c]) : sent'[c][i] = sent[c][i]
  BY <1>4, <1>5
<1>7. \A d \in Connections : taken'[d] <= stream'[d] /\ stream'[d] <= Frame * Len(sent'[d])
  <2>1. taken[c] <= stream[c] + Frame /\ stream[c] + Frame <= Frame * (Len(sent[c]) + 1)
    <3>1. Len(sent[c]) \in Nat /\ stream[c] <= Frame * Len(sent[c])
      BY <1>4
    <3>2. Frame * (Len(sent[c]) + 1) = Frame * Len(sent[c]) + Frame /\ Frame * Len(sent[c]) \in Nat
      BY <1>1, <3>1, FrameArithmetic
    <3> QED  BY <1>1, <1>4, <3>1, <3>2
  <2> QED  BY <1>3, <1>4, <1>5, <1>6, <2>1
<1>8. ConnectionTypes'
  BY <1>3, <1>5, <1>7 DEF Served, ConnectionTypes
<1>9. FramesAligned'
  BY <1>3 DEF Served, FramesAligned, InFrame, Reading, Wanted
<1>10. AnswersMatch'
  <2>1. ASSUME NEW d \in Connections
        PROVE  /\ Len(answers[d]) <= Len(sent'[d])
               /\ \A i \in 1 .. Len(answers[d]) : answers[d][i].to = sent'[d][i]
    <3>1. Len(answers[d]) \in Nat /\ Len(answers[d]) <= Len(sent[d]) /\ Len(sent[d]) \in Nat
      BY <1>4 DEF Served, ConnectionTypes, AnswersMatch
    <3>2. \A i \in 1 .. Len(answers[d]) : answers[d][i].to = sent[d][i] /\ i \in 1 .. Len(sent[d])
      BY <3>1 DEF Served, AnswersMatch
    <3>3. CASE d = c
      BY <1>6, <3>1, <3>2, <3>3
    <3>4. CASE d # c
      BY <1>5, <3>1, <3>2, <3>4
    <3> QED  BY <3>3, <3>4
  <2> QED  BY <1>3, <2>1 DEF AnswersMatch
<1> QED  BY <1>8, <1>9, <1>10 DEF Served

\* recv takes a part of what the thread waits for; at the end of it the next part begins.
LEMMA RecvKeeps ==
    ASSUME Served, NEW c \in Connections, Recv(c)
    PROVE  Served'
<1>1. Length \in Nat \ {0} /\ Payload \in Nat \ {0} /\ Frame = Length + Payload /\ Frame \in Nat
  BY ServerAssumption DEF Frame
<1>2. PICK part \in {"length", "payload"}, got \in Nat : reader[c] = [part |-> part, got |-> got]
  BY DEF Recv, Reading, Served, ConnectionTypes
<1>3. PICK w \in Nat : w = Wanted(c) /\ w = IF part = "length" THEN Length ELSE Payload
  BY <1>1, <1>2 DEF Wanted
<1>4. got < w /\ taken[c] = Frame * Len(answers[c]) + InFrame(c)
  <2>1. Reading(c) /\ reader[c].part # "closed" /\ reader[c].got = got
    BY <1>2 DEF Reading
  <2> QED  BY <1>3, <2>1 DEF Served, FramesAligned
<1>5. taken[c] \in Nat /\ stream[c] \in Nat /\ taken[c] <= stream[c] /\ Len(answers[c]) \in Nat
  BY DEF Served, ConnectionTypes
<1>6. PICK n \in 1 .. Least(w - got, stream[c] - taken[c]) :
          /\ taken' = [taken EXCEPT ![c] = @ + n]
          /\ reader' = [reader EXCEPT ![c] =
                IF @.got + n < w THEN [part |-> @.part, got |-> @.got + n]
                ELSE IF @.part = "length" THEN At("payload") ELSE At("serve")]
  <2>1. reader[c].got = got
    BY <1>2
  <2> QED  BY <1>3, <2>1, ZenonT(30) DEF Recv
<1>7. n \in Nat /\ n >= 1 /\ n <= w - got /\ n <= stream[c] - taken[c]
  BY <1>5, <1>6 DEF Least
<1>8. UNCHANGED <<sent, stream, broken, answers, store, ops>>
  BY DEF Recv
<1> DEFINE now == IF got + n < w THEN [part |-> part, got |-> got + n]
                  ELSE IF part = "length" THEN At("payload") ELSE At("serve")
<1>9. now \in [part : {"length", "payload", "serve", "closed"}, got : Nat]
  BY <1>7 DEF At
<1>10. /\ DOMAIN reader' = Connections /\ reader'[c] = now
       /\ \A d \in Connections \ {c} : reader'[d] = reader[d]
  <2>1. reader[c].part = part /\ reader[c].got = got
    BY <1>2
  <2>2. DOMAIN reader = Connections
    BY DEF Served, ConnectionTypes
  <2>3. /\ DOMAIN reader' = Connections
        /\ \A d \in Connections \ {c} : reader'[d] = reader[d]
    BY <1>6, <2>2
  <2>4. reader'[c] = now
    <3>1. reader'[c] = IF reader[c].got + n < w THEN [part |-> reader[c].part, got |-> reader[c].got + n]
                       ELSE IF reader[c].part = "length" THEN At("payload") ELSE At("serve")
      BY <1>6, <2>2
    <3> QED  BY <2>1, <3>1 DEF now
  <2> QED  BY <2>3, <2>4
<1> HIDE DEF now
<1>11. /\ reader'[c] = now /\ taken'[c] = taken[c] + n
       /\ \A d \in Connections \ {c} : reader'[d] = reader[d] /\ taken'[d] = taken[d]
       /\ reader' \in [Connections -> [part : {"length", "payload", "serve", "closed"}, got : Nat]]
       /\ taken' \in [Connections -> Nat]
  <2>1. reader' = [d \in Connections |-> reader'[d]]
    BY <1>6 DEF Served, ConnectionTypes
  <2>2. \A d \in Connections : reader'[d] \in [part : {"length", "payload", "serve", "closed"}, got : Nat]
    BY <1>9, <1>10 DEF Served, ConnectionTypes
  <2>3. reader' \in [Connections -> [part : {"length", "payload", "serve", "closed"}, got : Nat]]
    BY <2>1, <2>2
  <2> QED  BY <1>5, <1>6, <1>7, <1>10, <2>3 DEF Served, ConnectionTypes
<1>12. ConnectionTypes'
  <2>1. \A d \in Connections : taken'[d] <= stream[d]
    <3> SUFFICES ASSUME NEW d \in Connections PROVE taken'[d] <= stream[d]
      OBVIOUS
    <3>1. CASE d = c
      BY <1>5, <1>7, <1>11, <3>1
    <3>2. CASE d # c
      BY <1>11, <3>2 DEF Served, ConnectionTypes
    <3> QED  BY <3>1, <3>2
  <2> QED  BY <1>8, <1>11, <2>1 DEF Served, ConnectionTypes
<1>13. FramesAligned'
  <2>1. ASSUME NEW d \in Connections \ {c}
        PROVE  IF reader'[d].part = "closed" THEN Frame * Len(answers'[d]) <= taken'[d]
               ELSE /\ taken'[d] = Frame * Len(answers'[d]) + InFrame(d)'
                    /\ Reading(d)' => reader'[d].got < Wanted(d)'
    BY <1>8, <1>11 DEF Served, FramesAligned, InFrame, Reading, Wanted
  <2>2. /\ reader'[c].part # "closed"
        /\ taken'[c] = Frame * Len(answers'[c]) + InFrame(c)'
        /\ Reading(c)' => reader'[c].got < Wanted(c)'
    <3>1. PICK base : base = Frame * Len(answers[c])
      OBVIOUS
    <3>6. base \in Int
      <4>1. \A x, y \in Nat : x * y \in Int
        OBVIOUS
      <4> QED  BY <1>1, <1>5, <3>1, <4>1
    <3>2. taken[c] = base + IF part = "length" THEN got ELSE Length + got
      BY <1>2, <1>4, <3>1 DEF InFrame
    <3>7. Frame * Len(answers'[c]) = base
      BY <1>8, <3>1
    <3> DEFINE onward ==
            /\ reader'[c].part # "closed"
            /\ taken'[c] = base + InFrame(c)'
            /\ Reading(c)' => reader'[c].got < Wanted(c)'
    <3>3. ASSUME got + n < w PROVE onward
      <4>1. now = [part |-> part, got |-> got + n]
        BY <3>3 DEF now
      <4>2. Reading(c)' /\ reader'[c].got = got + n /\ reader'[c].part = part
        BY <1>2, <1>11, <4>1 DEF Reading
      <4>3. InFrame(c)' = IF part = "length" THEN got + n ELSE Length + (got + n)
        BY <1>2, <4>2 DEF InFrame
      <4>4. Wanted(c)' = w
        BY <1>3, <4>2 DEF Wanted
      <4> QED  BY <1>1, <1>2, <1>7, <1>11, <3>2, <3>3, <3>6, <4>2, <4>3, <4>4
    <3>4. ASSUME ~ (got + n < w) /\ part = "length" PROVE onward
      <4>1. now = [part |-> "payload", got |-> 0] /\ got + n = Length
        BY <1>1, <1>3, <1>7, <3>4 DEF now, At
      <4>2. reader'[c].got = 0 /\ reader'[c].part = "payload"
        BY <1>11, <4>1
      <4>3. InFrame(c)' = Length + 0 /\ Wanted(c)' = Payload
        BY <4>2 DEF InFrame, Wanted
      <4> QED  BY <1>1, <1>7, <1>11, <3>2, <3>4, <3>6, <4>1, <4>2, <4>3
    <3>5. ASSUME ~ (got + n < w) /\ part = "payload" PROVE onward
      <4>1. now = [part |-> "serve", got |-> 0] /\ got + n = Payload
        BY <1>1, <1>3, <1>7, <3>5 DEF now, At
      <4>2. reader'[c].part = "serve" /\ ~ Reading(c)'
        BY <1>11, <4>1 DEF Reading
      <4>3. InFrame(c)' = Frame
        BY <4>2 DEF InFrame
      <4> QED  BY <1>1, <1>7, <1>11, <3>2, <3>5, <3>6, <4>1, <4>2, <4>3
    <3> QED  BY <3>3, <3>4, <3>5, <3>7
  <2> QED  BY <2>1, <2>2 DEF FramesAligned
<1>14. AnswersMatch'
  BY <1>8 DEF Served, AnswersMatch
<1> QED  BY <1>12, <1>13, <1>14 DEF Served

\* The call of the service and its answer.
LEMMA ServeKeeps ==
    ASSUME Served, NEW c \in Connections, Serve(c)
    PROVE  Served'
<1>1. Frame \in Nat \ {0} /\ reader[c].part = "serve"
  BY ServerAssumption DEF Frame, Serve
<1>2. PICK n \in Nat : n = Len(answers[c])
  BY DEF Served, ConnectionTypes
<1>3. n + 1 <= Len(sent[c]) /\ Request(c) = sent[c][n + 1] /\ Request(c) \in Requests
  <2>1. n + 1 \in 1 .. Len(sent[c])
    BY <1>1, <1>2, NextRequest
  <2> QED  BY <1>1, <1>2, <2>1, NextRequest
<1>4. taken[c] = Frame * (n + 1)
  BY <1>1, <1>2, NextRequest
<1>5. PICK ok \in BOOLEAN, value \in Nat :
          Answer(c, ok, value) /\ store' \in [StoreKeys -> Nat] /\ ops' \in Nat
  <2>1. store \in [StoreKeys -> Nat] /\ ops \in Nat /\ Request(c).key \in StoreKeys
    BY <1>3 DEF Served, ConnectionTypes, Requests
  <2>2. CASE Refuse(c)
    BY <2>1, <2>2 DEF Refuse, Engine!Absent
  <2>3. CASE PutKey(c)
    <3>1. ops' = ops + 1 /\ store' = [store EXCEPT ![Request(c).key] = ops']
      BY <2>3 DEF PutKey, Engine!Put
    <3>2. ops' \in Nat /\ store' \in [StoreKeys -> Nat]
      BY <2>1, <3>1
    <3>3. Answer(c, TRUE, ops')
      BY <2>3 DEF PutKey
    <3> QED  BY <3>2, <3>3
  <2>4. CASE RemoveKey(c)
    <3>1. ops' = ops + 1 /\ store' = [store EXCEPT ![Request(c).key] = 0]
      BY <2>4 DEF RemoveKey, Engine!Remove, Engine!Absent
    <3>2. ops' \in Nat /\ store' \in [StoreKeys -> Nat]
      BY <2>1, <3>1
    <3>3. Answer(c, TRUE, 0)
      BY <2>4 DEF RemoveKey, Engine!Absent
    <3> QED  BY <3>2, <3>3
  <2>5. CASE GetKey(c)
    <3>1. PICK value \in Nat : value = store[Request(c).key]
      BY <2>1
    <3>2. store' = store /\ ops' = ops /\ Answer(c, value # Engine!Absent, value)
      BY <2>5, <3>1 DEF GetKey
    <3>3. CASE value = Engine!Absent
      <4>1. Answer(c, FALSE, value)
        BY <3>2, <3>3, (value # Engine!Absent) = FALSE DEF Answer
      <4> QED  BY <2>1, <3>2, <4>1
    <3>4. CASE value # Engine!Absent
      <4>1. Answer(c, TRUE, value)
        BY <3>2, <3>4, (value # Engine!Absent) = TRUE DEF Answer
      <4> QED  BY <2>1, <3>2, <4>1
    <3> QED  BY <3>3, <3>4
  <2> QED  BY <2>2, <2>3, <2>4, <2>5 DEF Serve
<1>6. PICK a \in [to : Requests, ok : BOOLEAN, value : Nat] :
          a = [to |-> Request(c), ok |-> ok, value |-> value]
  BY <1>3
<1>7. /\ answers' = [answers EXCEPT ![c] = Append(@, a)]
      /\ reader' = [reader EXCEPT ![c] = At("length")]
      /\ UNCHANGED <<sent, stream, broken, taken>>
  BY <1>5, <1>6 DEF Answer
<1>8. \A d \in Connections : answers[d] \in Seq([to : Requests, ok : BOOLEAN, value : Nat])
  BY DEF Served, ConnectionTypes
<1>9. /\ answers' \in [Connections -> Seq([to : Requests, ok : BOOLEAN, value : Nat])]
      /\ answers'[c] = Append(answers[c], a) /\ Len(answers'[c]) = n + 1
      /\ \A i \in 1 .. n : answers'[c][i] = answers[c][i]
      /\ answers'[c][n + 1] = a
      /\ \A d \in Connections \ {c} : answers'[d] = answers[d]
  <2>1. Append(answers[c], a) \in Seq([to : Requests, ok : BOOLEAN, value : Nat])
    <3> DEFINE S == [to : Requests, ok : BOOLEAN, value : Nat]
    <3>1. a \in S /\ answers[c] \in Seq(S)
      BY <1>8
    <3> HIDE DEF S
    <3>2. Append(answers[c], a) \in Seq(S)
      BY <3>1
    <3> QED  BY <3>2 DEF S
  <2>2. answers' \in [Connections -> Seq([to : Requests, ok : BOOLEAN, value : Nat])]
    BY <1>7, <2>1 DEF Served, ConnectionTypes
  <2>3. answers'[c] = Append(answers[c], a) /\ \A d \in Connections \ {c} : answers'[d] = answers[d]
    BY <1>7 DEF Served, ConnectionTypes
  <2>4. /\ Len(Append(answers[c], a)) = n + 1
        /\ \A i \in 1 .. n : Append(answers[c], a)[i] = answers[c][i]
        /\ Append(answers[c], a)[n + 1] = a
    BY <1>2, <1>6, <1>8
  <2> QED  BY <2>2, <2>3, <2>4
<1>10. /\ reader' \in [Connections -> [part : {"length", "payload", "serve", "closed"}, got : Nat]]
       /\ reader'[c] = [part |-> "length", got |-> 0]
       /\ \A d \in Connections \ {c} : reader'[d] = reader[d]
  BY <1>7 DEF At, Served, ConnectionTypes
<1>11. ConnectionTypes'
  BY <1>5, <1>7, <1>9, <1>10 DEF Served, ConnectionTypes
<1>12. FramesAligned'
  <2>1. ASSUME NEW d \in Connections \ {c}
        PROVE  IF reader'[d].part = "closed" THEN Frame * Len(answers'[d]) <= taken'[d]
               ELSE /\ taken'[d] = Frame * Len(answers'[d]) + InFrame(d)'
                    /\ Reading(d)' => reader'[d].got < Wanted(d)'
    BY <1>7, <1>9, <1>10 DEF Served, FramesAligned, InFrame, Reading, Wanted
  <2>2. /\ reader'[c].part = "length"
        /\ taken'[c] = Frame * Len(answers'[c]) + InFrame(c)'
        /\ reader'[c].got < Wanted(c)'
    <3>1. InFrame(c)' = 0 /\ Wanted(c)' = Length /\ 0 < Length
      BY <1>10, ServerAssumption DEF InFrame, Wanted
    <3>2. taken'[c] = Frame * Len(answers'[c]) /\ taken[c] \in Nat
      BY <1>4, <1>7, <1>9 DEF Served, ConnectionTypes
    <3> QED  BY <1>7, <1>10, <3>1, <3>2
  <2> QED  BY <2>1, <2>2 DEF FramesAligned
<1>13. AnswersMatch'
  <2>1. ASSUME NEW d \in Connections
        PROVE  /\ Len(answers'[d]) <= Len(sent[d])
               /\ \A i \in 1 .. Len(answers'[d]) : answers'[d][i].to = sent[d][i]
    <3>1. CASE d = c
      <4>1. \A i \in 1 .. n : answers[c][i].to = sent[c][i]
        BY <1>2 DEF Served, AnswersMatch
      <4>2. a.to = sent[c][n + 1]
        BY <1>3, <1>6
      <4>3. \A i \in 1 .. n + 1 : i \in 1 .. n \/ i = n + 1
        OBVIOUS
      <4> QED  BY <1>3, <1>9, <3>1, <4>1, <4>2, <4>3
    <3>2. CASE d # c
      BY <1>9, <3>2 DEF Served, AnswersMatch
    <3> QED  BY <3>1, <3>2
  <2> QED  BY <1>7, <2>1 DEF AnswersMatch
<1> QED  BY <1>11, <1>12, <1>13 DEF Served

\* readFrame gives up: what it has read of the frame is forgotten.
LEMMA HangupKeeps ==
    ASSUME Served, NEW c \in Connections, Hangup(c)
    PROVE  Served'
<1>1. reader' = [reader EXCEPT ![c] = [part |-> "closed", got |-> 0]]
  BY DEF Hangup, At
<1>2. UNCHANGED <<sent, stream, broken, taken, answers, store, ops>>
  BY DEF Hangup
<1>3. /\ reader' \in [Connections -> [part : {"length", "payload", "serve", "closed"}, got : Nat]]
      /\ reader'[c].part = "closed"
      /\ \A d \in Connections \ {c} : reader'[d] = reader[d]
  BY <1>1 DEF Served, ConnectionTypes
<1>4. Frame * Len(answers[c]) <= taken[c]
  <2>1. Frame \in Nat /\ Len(answers[c]) \in Nat /\ Length \in Nat
    BY ServerAssumption DEF Frame, Served, ConnectionTypes
  <2>2. InFrame(c) \in Nat
    BY <2>1 DEF InFrame, Served, ConnectionTypes
  <2>3. taken[c] = Frame * Len(answers[c]) + InFrame(c)
    BY DEF Hangup, Reading, Served, FramesAligned
  <2>4. \A x, y \in Nat : x * y \in Nat
    OBVIOUS
  <2>5. PICK base : base = Frame * Len(answers[c])
    OBVIOUS
  <2>6. base \in Nat
    BY <2>1, <2>4, <2>5
  <2> QED  BY <2>2, <2>3, <2>5, <2>6
<1>5. FramesAligned'
  BY <1>2, <1>3, <1>4 DEF Served, FramesAligned, InFrame, Reading, Wanted
<1> QED  BY <1>2, <1>3, <1>5 DEF Served, ConnectionTypes, AnswersMatch

LEMMA ServedKept == Served /\ [ServerNext]_serverVars => Served'
<1> SUFFICES ASSUME Served, [ServerNext]_serverVars PROVE Served'
  OBVIOUS
<1>1. ASSUME NEW c \in Connections, Break(c) PROVE Served'
  <2>1. PICK n \in taken[c] .. stream[c] : stream' = [stream EXCEPT ![c] = n]
    BY <1>1 DEF Break
  <2>2. taken[c] \in Nat /\ stream[c] \in Nat /\ n \in Nat /\ taken[c] <= n /\ n <= stream[c]
    BY DEF Served, ConnectionTypes
  <2>3. UNCHANGED <<sent, taken, reader, answers, store, ops>>
    BY <1>1 DEF Break
  <2>4. stream' \in [Connections -> Nat] /\ stream'[c] = n /\ \A d \in Connections \ {c} : stream'[d] = stream[d]
    BY <2>1, <2>2 DEF Served, ConnectionTypes
  <2>5. \A d \in Connections : taken[d] <= stream'[d] /\ stream'[d] <= Frame * Len(sent[d])
    <3>1. PICK whole : whole = Frame * Len(sent[c])
      OBVIOUS
    <3>2. stream[c] <= whole /\ whole \in Int
      <4>1. \A x, y \in Nat : x * y \in Int
        OBVIOUS
      <4>2. Frame \in Nat /\ Len(sent[c]) \in Nat
        BY ServerAssumption DEF Frame, Served, ConnectionTypes
      <4> QED  BY <3>1, <4>1, <4>2 DEF Served, ConnectionTypes
    <3>3. taken[c] <= stream'[c] /\ stream'[c] <= Frame * Len(sent[c])
      BY <2>2, <2>4, <3>1, <3>2
    <3> QED  BY <2>4, <3>3 DEF Served, ConnectionTypes
  <2>6. ConnectionTypes'
    BY <2>3, <2>4, <2>5 DEF Served, ConnectionTypes
  <2> QED  BY <2>3, <2>6 DEF Served, FramesAligned, InFrame, Reading, Wanted, AnswersMatch
<1>2. CASE UNCHANGED serverVars
  BY <1>2 DEF serverVars, Served, ConnectionTypes, FramesAligned, InFrame, Reading, Wanted, AnswersMatch
<1> QED  BY <1>1, <1>2, SendKeeps, RecvKeeps, HangupKeeps, ServeKeeps DEF ServerNext, Step

\* handleConnection: at each moment the thread has read whole frames and a part of the next
\* one, of which it knows the length, and has answered each frame but the one it serves.
THEOREM InductiveFrames == ServerSpec => []Served
<1>1. ServerInit => Served
  <2> SUFFICES ASSUME ServerInit PROVE Served
    OBVIOUS
  <2>1. Frame \in Nat /\ Frame * 0 = 0
    BY ServerAssumption DEF Frame
  <2>2. ConnectionTypes
    BY <2>1 DEF ServerInit, ConnectionTypes, At, Engine!Init, Engine!Absent
  <2>3. FramesAligned
    <3> SUFFICES ASSUME NEW c \in Connections
                 PROVE  /\ reader[c].part = "length" /\ taken[c] = Frame * Len(answers[c]) + InFrame(c)
                        /\ reader[c].got < Wanted(c)
      BY DEF FramesAligned
    <3>1. reader[c].part = "length" /\ reader[c].got = 0 /\ taken[c] = 0 /\ Len(answers[c]) = 0
      BY DEF ServerInit, At
    <3>2. InFrame(c) = 0 /\ Wanted(c) = Length /\ 0 < Length
      BY <3>1, ServerAssumption DEF InFrame, Wanted
    <3>3. Frame * Len(answers[c]) = 0
      BY <2>1, <3>1
    <3> QED  BY <3>1, <3>2, <3>3
  <2> QED  BY <2>2, <2>3 DEF ServerInit, Served, AnswersMatch
<1> QED  BY <1>1, ServedKept, PTL DEF ServerSpec

\* readFrame and writeFrame, however TCP cuts the streams: answers are those to the requests
\* that have arrived whole, in their order; a frame that broke off has no answer.
THEOREM AnswersFollowRequests == ServerSpec => []AnswersInOrder
<1>1. ASSUME Served PROVE AnswersInOrder
  <2> SUFFICES ASSUME NEW c \in Connections PROVE Len(answers[c]) <= taken[c] \div Frame
    BY <1>1 DEF Served, AnswersMatch, AnswersInOrder
  <2>1. Frame \in Nat \ {0} /\ Length \in Nat
    BY ServerAssumption DEF Frame
  <2>2. PICK n \in Nat : n = Len(answers[c])
    BY <1>1 DEF Served, ConnectionTypes
  <2>3. taken[c] \in Nat
    BY <1>1 DEF Served, ConnectionTypes
  <2>4. Frame * n <= taken[c]
    <3>1. CASE reader[c].part = "closed"
      BY <1>1, <2>2, <3>1 DEF Served, FramesAligned
    <3>2. CASE reader[c].part # "closed"
      <4>1. InFrame(c) \in Nat
        BY <1>1, <2>1 DEF Served, ConnectionTypes, InFrame
      <4>2. taken[c] = Frame * n + InFrame(c)
        BY <1>1, <2>2, <3>2 DEF Served, FramesAligned
      <4>3. Frame * n \in Nat
        BY <2>1, FrameArithmetic
      <4> QED  BY <4>1, <4>2, <4>3
    <3> QED  BY <3>1, <3>2
  <2> QED  BY <2>1, <2>2, <2>3, <2>4, FrameArithmetic
<1> QED  BY <1>1, InductiveFrames, PTL

-----------------------------------------------------------------------------
(* The merge.                                                              *)

Types ==
    /\ in \in [FileIds -> {file \in InputFiles : Sorted(file)}]
    /\ heap \in [FileIds -> Nat \ {0}]
    /\ last \in Nat
    /\ out \in Seq(FileIds \X Nat)

\* What has left the heap is not above lastProcessedKey, what is still to come not below.
Swept ==
    \A f \in FileIds : \A i \in DOMAIN in[f] :
        IF i < heap[f] THEN in[f][i].key <= last ELSE in[f][i].key >= last

\* The newest version of lastProcessedKey has left the heap.
LastSettled ==
    last # 0 => \E f \in FileIds : \E i \in DOMAIN in[f] :
                    i < heap[f] /\ in[f][i].key = last /\ Newest(f, i)

Written(f, i) == \E n \in DOMAIN out : out[n] = <<f, i>>

\* Of what has left the heap the right records were written.
WrittenSoFar ==
    \A f \in FileIds : \A i \in DOMAIN in[f] :
        Written(f, i) <=> i < heap[f] /\ Newest(f, i) /\ ~ in[f][i].del

Merging == Types /\ Swept /\ LastSettled /\ WrittenSoFar

\* The positions of a file are those from 1 to its length, and its keys are in order.
LEMMA FileShape ==
    ASSUME MergeAssumption, Types, NEW f \in FileIds
    PROVE  /\ f \in Nat /\ heap[f] \in Nat \ {0}
           /\ \E n \in 0 .. MaxRecords : DOMAIN in[f] = 1 .. n
           /\ \A i \in DOMAIN in[f] : i \in Nat \ {0} /\ in[f][i].key \in Nat \ {0} /\ in[f][i].del \in BOOLEAN
           /\ \A i, j \in DOMAIN in[f] : i <= j => in[f][i].key <= in[f][j].key
<1>1. f \in Nat /\ heap[f] \in Nat \ {0}
  BY DEF MergeAssumption, Types
<1>2. in[f] \in InputFiles /\ Sorted(in[f])
  BY DEF Types
<1>3. PICK n \in 0 .. MaxRecords : in[f] \in [1 .. n -> Records]
  BY <1>2 DEF InputFiles
<1>4. DOMAIN in[f] = 1 .. n
  BY <1>3
<1>5. \A i \in DOMAIN in[f] : i \in Nat \ {0} /\ in[f][i].key \in Nat \ {0} /\ in[f][i].del \in BOOLEAN
  <2>1. SUFFICES ASSUME NEW i \in 1 .. n
                 PROVE  i \in Nat \ {0} /\ in[f][i].key \in Nat \ {0} /\ in[f][i].del \in BOOLEAN
    BY <1>4
  <2>2. in[f][i] \in [key : Keys, del : BOOLEAN]
    BY <1>3 DEF Records
  <2>3. in[f][i].key \in Keys /\ in[f][i].del \in BOOLEAN
    BY <2>2
  <2>4. in[f][i].key \in Nat \ {0}
    BY <2>3, Zenon DEF MergeAssumption
  <2>5. i \in Nat \ {0}
    OBVIOUS
  <2> QED  BY <2>3, <2>4, <2>5
<1> QED  BY <1>1, <1>2, <1>4, <1>5 DEF Sorted

\* For a key there is one newest version at most.
LEMMA NewestIsUnique ==
    ASSUME MergeAssumption, Types,
           NEW f \in FileIds, NEW i \in DOMAIN in[f], Newest(f, i),
           NEW g \in FileIds, NEW j \in DOMAIN in[g], Newest(g, j),
           in[f][i].key = in[g][j].key
    PROVE  f = g /\ i = j
<1>1. f \in Nat /\ g \in Nat /\ i \in Nat /\ j \in Nat
  BY FileShape
<1>2. f <= g /\ g <= f
  BY DEF Newest
<1>3. f = g
  BY <1>1, <1>2
<1>4. i <= j /\ j <= i
  BY <1>3 DEF Newest
<1> QED  BY <1>1, <1>3, <1>4

\* The heap never leaves a smaller key behind: the record that it gives out has the
\* smallest of the keys that are still to come.
LEMMA TopIsLeast ==
    ASSUME MergeAssumption, Types, NEW f \in FileIds, Top(f),
           NEW g \in FileIds, NEW j \in DOMAIN in[g], j >= heap[g]
    PROVE  /\ InHeap(g)
           /\ in[f][heap[f]].key <= in[g][j].key
           /\ in[g][j].key = in[f][heap[f]].key => g <= f /\ Head_(g).key = Head_(f).key
<1>1. PICK n \in 0 .. MaxRecords : DOMAIN in[g] = 1 .. n
  BY FileShape
<1>2. heap[g] \in Nat \ {0} /\ j \in Nat
  BY FileShape
<1>3. heap[g] \in DOMAIN in[g]
  BY <1>1, <1>2, MergeAssumption DEF MergeAssumption
<1>4. Above(f, g) /\ heap[f] \in DOMAIN in[f]
  BY <1>3 DEF Top, InHeap
<1>5. in[g][heap[g]].key <= in[g][j].key
  BY <1>2, <1>3, FileShape
<1>6. in[g][heap[g]].key \in Nat /\ in[g][j].key \in Nat /\ in[f][heap[f]].key \in Nat
  BY <1>3, <1>4, FileShape
<1>7. g \in Nat /\ f \in Nat
  BY FileShape
<1>8. IF in[f][heap[f]].key < in[g][heap[g]].key THEN TRUE
      ELSE in[f][heap[f]].key = in[g][heap[g]].key /\ f >= g
  BY <1>4 DEF Above, Head_
<1>9. in[g][heap[g]].key \in Nat
  BY <1>3, FileShape
<1>10. in[f][heap[f]].key <= in[g][j].key
  BY <1>5, <1>6, <1>8, <1>9
<1>11. in[g][j].key = in[f][heap[f]].key => g <= f /\ Head_(g).key = Head_(f).key
  BY <1>5, <1>6, <1>7, <1>8, <1>9 DEF Head_
<1> QED  BY <1>3, <1>10, <1>11 DEF InHeap

\* A record with a key not met before is the newest version of its key.
LEMMA TopIsNewest ==
    ASSUME MergeAssumption, Types, Swept, NEW f \in FileIds, Top(f), Head_(f).key # last
    PROVE  Newest(f, heap[f]) /\ Head_(f).key > last
<1> DEFINE k == in[f][heap[f]].key
<1>1. heap[f] \in DOMAIN in[f] /\ heap[f] \in Nat /\ k \in Nat /\ last \in Nat /\ f \in Nat
  BY FileShape DEF Top, InHeap, Types
<1>2. k > last
  BY <1>1 DEF Swept, Head_
<1>3. ASSUME NEW g \in FileIds, NEW j \in DOMAIN in[g], in[g][j].key = k
      PROVE  j >= heap[g]
  <2>1. j \in Nat /\ heap[g] \in Nat
    BY FileShape
  <2>2. j < heap[g] => in[g][j].key <= last
    BY DEF Swept
  <2> QED  BY <1>1, <1>2, <1>3, <2>1, <2>2
<1>4. \A j \in DOMAIN in[f] : in[f][j].key = k => heap[f] <= j
  BY <1>1, <1>3, FileShape
<1>5. \A g \in FileIds : \A j \in DOMAIN in[g] : in[g][j].key = k => g <= f
  BY <1>3, TopIsLeast
<1> QED  BY <1>1, <1>2, <1>4, <1>5 DEF Newest, Head_

LEMMA MergingInit == ASSUME MergeAssumption, MergeInit PROVE Merging
<1>1. Types
  BY EmptySeq DEF MergeInit, Types
<1>2. \A f \in FileIds : \A i \in DOMAIN in[f] : ~ (i < heap[f]) /\ in[f][i].key >= last
  BY <1>1, FileShape DEF MergeInit
<1>3. DOMAIN out = {}
  BY DEF MergeInit
<1> QED  BY <1>1, <1>2, <1>3 DEF Merging, Swept, LastSettled, WrittenSoFar, Written, MergeInit

LEMMA Advanced ==
    ASSUME MergeAssumption, Types, UNCHANGED in, NEW f \in FileIds, Top(f), AdvanceScanner(f)
    PROVE  /\ heap' \in [FileIds -> Nat \ {0}]
           /\ \A g \in FileIds : \A i \in DOMAIN in[g] :
                 i < heap'[g] <=> i < heap[g] \/ (g = f /\ i = heap[f])
           /\ \A g \in FileIds : \A i \in DOMAIN in[g] : Newest(g, i)' <=> Newest(g, i)
<1>1. heap \in [FileIds -> Nat \ {0}]
  BY DEF Types
<1>2. heap' = [heap EXCEPT ![f] = heap[f] + 1]
  BY DEF AdvanceScanner
<1>3. heap' \in [FileIds -> Nat \ {0}]
  BY <1>1, <1>2
<1>4. \A g \in FileIds : \A i \in DOMAIN in[g] :
          i < heap'[g] <=> i < heap[g] \/ (g = f /\ i = heap[f])
  BY <1>1, <1>2, FileShape
<1> QED  BY <1>3, <1>4 DEF Newest

\* What every step does to the sweep, when it leaves lastProcessedKey at the key of the
\* record that it takes from the heap.
LEMMA SweptStep ==
    ASSUME MergeAssumption, Types, Swept, UNCHANGED in, NEW f \in FileIds, Top(f),
           AdvanceScanner(f), last' = in[f][heap[f]].key
    PROVE  Swept'
<1>1. heap[f] \in DOMAIN in[f] /\ last \in Nat /\ last' \in Nat
  BY FileShape DEF Top, InHeap, Types
<1>2. last <= last'
  BY <1>1, FileShape DEF Swept
<1>3. SUFFICES ASSUME NEW g \in FileIds, NEW i \in DOMAIN in[g]
               PROVE  IF i < heap'[g] THEN in[g][i].key <= last' ELSE in[g][i].key >= last'
  BY DEF Swept
<1>4. in[g][i].key \in Nat /\ i \in Nat /\ heap[g] \in Nat
  BY FileShape
<1>5. CASE i < heap[g]
  <2>1. in[g][i].key <= last
    BY <1>5 DEF Swept
  <2>2. i < heap'[g]
    BY <1>1, <1>4, <1>5, Advanced
  <2> QED  BY <1>1, <1>2, <1>4, <2>1, <2>2
<1>6. CASE g = f /\ i = heap[f]
  BY <1>1, <1>4, <1>6, Advanced
<1>7. CASE ~ (i < heap[g]) /\ ~ (g = f /\ i = heap[f])
  <2>1. i >= heap[g]
    BY <1>4, <1>7
  <2>2. in[f][heap[f]].key <= in[g][i].key
    BY <2>1, TopIsLeast
  <2>3. ~ (i < heap'[g])
    BY <1>7, Advanced
  <2> QED  BY <2>2, <2>3
<1> QED  BY <1>5, <1>6, <1>7

LEMMA MergingStep == ASSUME MergeAssumption, Merging, [MergeNext]_mergeVars PROVE Merging'
<1> USE DEF Merging
<1>1. CASE UNCHANGED mergeVars
  <2>1. UNCHANGED <<in, heap, last, out>>
    BY <1>1 DEF mergeVars
  <2>2. Types' /\ Swept'
    BY <2>1 DEF Types, Swept
  <2>3. LastSettled'
    BY <2>1 DEF LastSettled, Newest
  <2>4. WrittenSoFar'
    BY <2>1 DEF WrittenSoFar, Written, Newest
  <2> QED  BY <2>2, <2>3, <2>4
<1>2. ASSUME NEW f \in FileIds, SkipShadowed(f) PROVE Merging'
  <2>1. UNCHANGED <<in, last, out>> /\ Top(f) /\ AdvanceScanner(f) /\ in[f][heap[f]].key = last
    BY <1>2 DEF SkipShadowed, Head_
  <2>2. heap[f] \in DOMAIN in[f] /\ last # 0 /\ last \in Nat
    BY <2>1, FileShape DEF Top, InHeap
  <2>3. Types'
    BY <2>1, Advanced DEF Types
  <2>4. Swept'
    BY <2>1, SweptStep
  <2>5. PICK g \in FileIds : \E i \in DOMAIN in[g] :
            i < heap[g] /\ in[g][i].key = last /\ Newest(g, i)
    BY <2>2 DEF LastSettled
  <2>6. PICK i \in DOMAIN in[g] : i < heap[g] /\ in[g][i].key = last /\ Newest(g, i)
    BY <2>5
  <2>7. LastSettled'
    BY <2>1, <2>6, Advanced DEF LastSettled
  <2>8. ~ Newest(f, heap[f])
    <3> SUFFICES ASSUME Newest(f, heap[f]) PROVE FALSE
      OBVIOUS
    <3>1. in[f][heap[f]].key = in[g][i].key
      BY <2>1, <2>6
    <3>2. f = g /\ heap[f] = i
      BY <2>2, <2>6, <3>1, NewestIsUnique
    <3> QED  BY <2>6, <3>2, FileShape
  <2>9. WrittenSoFar'
    <3> SUFFICES ASSUME NEW h \in FileIds, NEW j \in DOMAIN in[h]'
                 PROVE  (Written(h, j) <=> j < heap[h] /\ Newest(h, j) /\ ~ in[h][j].del)'
      BY DEF WrittenSoFar
    <3>1. Written(h, j)' <=> Written(h, j)
      BY <2>1 DEF Written
    <3>2. /\ j < heap'[h] <=> j < heap[h] \/ (h = f /\ j = heap[f])
          /\ Newest(h, j)' <=> Newest(h, j)
      BY <2>1, Advanced
    <3> QED  BY <2>1, <2>8, <3>1, <3>2 DEF WrittenSoFar
  <2> QED  BY <2>3, <2>4, <2>7, <2>9
<1>3. ASSUME NEW f \in FileIds, SkipTombstone(f) \/ Emit(f) PROVE Merging'
  <2>1. /\ UNCHANGED in /\ Top(f) /\ AdvanceScanner(f) /\ last' = in[f][heap[f]].key
        /\ Head_(f).key # last
    BY <1>3 DEF SkipTombstone, Emit, Head_
  <2>2. heap[f] \in DOMAIN in[f] /\ heap[f] \in Nat /\ last' \in Nat /\ in[f][heap[f]].del \in BOOLEAN
    BY <2>1, FileShape DEF Top, InHeap
  <2>3. Newest(f, heap[f])
    BY <2>1, TopIsNewest
  <2>4. Swept'
    BY <2>1, SweptStep
  <2>5. LastSettled'
    BY <2>1, <2>2, <2>3, Advanced DEF LastSettled
  <2>6. \A g \in FileIds : \A i \in DOMAIN in[g] :
            Written(g, i)' <=> Written(g, i) \/ (g = f /\ i = heap[f] /\ ~ in[f][heap[f]].del)
    <3>1. CASE SkipTombstone(f)
      BY <2>2, <3>1 DEF SkipTombstone, Head_, Written
    <3>2. CASE Emit(f)
      <4>1. out' = Append(out, <<f, heap[f]>>) /\ ~ in[f][heap[f]].del
        BY <3>2 DEF Emit, Head_
      <4>2. out \in Seq(FileIds \X Nat) /\ Len(out) \in Nat
        BY LenProperties DEF Types
      <4>3. /\ Len(out') = Len(out) + 1 /\ DOMAIN out = 1 .. Len(out) /\ DOMAIN out' = 1 .. Len(out) + 1
            /\ \A n \in 1 .. Len(out) : out'[n] = out[n]
            /\ out'[Len(out) + 1] = <<f, heap[f]>>
        BY <4>1, <4>2
      <4>4. SUFFICES ASSUME NEW g \in FileIds, NEW i \in DOMAIN in[g]
                     PROVE  Written(g, i)' <=> Written(g, i) \/ (g = f /\ i = heap[f])
        BY <2>1, <4>1
      <4>5. Written(g, i)' <=> \E n \in 1 .. Len(out) + 1 : out'[n] = <<g, i>>
        BY <4>3 DEF Written
      <4>6. Written(g, i) <=> \E n \in 1 .. Len(out) : out[n] = <<g, i>>
        BY <4>3 DEF Written
      <4>7. \A n \in 1 .. Len(out) + 1 : n \in 1 .. Len(out) \/ n = Len(out) + 1
        BY <4>2
      <4>8. 1 .. Len(out) \subseteq 1 .. Len(out) + 1 /\ Len(out) + 1 \in 1 .. Len(out) + 1
        BY <4>2
      <4> QED  BY <4>3, <4>5, <4>6, <4>7, <4>8
    <3> QED  BY <1>3, <3>1, <3>2
  <2>7. Types'
    <3>1. out' \in Seq(FileIds \X Nat)
      <4>1. out' = out \/ out' = Append(out, <<f, heap[f]>>)
        BY <1>3 DEF SkipTombstone, Emit
      <4>2. out \in Seq(FileIds \X Nat)
        BY DEF Types
      <4>3. ASSUME NEW S, NEW s \in Seq(S), NEW e \in S PROVE Append(s, e) \in Seq(S)
        BY AppendProperties
      <4>4. <<f, heap[f]>> \in FileIds \X Nat
        BY <2>2
      <4>5. Append(out, <<f, heap[f]>>) \in Seq(FileIds \X Nat)
        BY <4>2, <4>3, <4>4, Zenon
      <4> QED  BY <4>1, <4>2, <4>5
    <3> QED  BY <2>1, <2>2, <3>1, Advanced DEF Types
  <2>8. WrittenSoFar'
    BY <2>1, <2>2, <2>3, <2>6, Advanced, FileShape DEF WrittenSoFar
  <2> QED  BY <2>4, <2>5, <2>7, <2>8
<1> QED  BY <1>1, <1>2, <1>3 DEF MergeNext

\* Compactor::executeCompaction: whatever files it is given, the file that it builds
\* holds the newest version of each key that is not deleted, and nothing else.
THEOREM MergeCorrect == MergeSpec => []MergedNewest
<1>1. MergeInit => Merging
  BY MergingInit, MergeAssumption
<1>2. Merging /\ [MergeNext]_mergeVars => Merging'
  BY MergingStep, MergeAssumption
<1>3. Merging => MergedNewest
  <2>1. SUFFICES ASSUME Merging, \A f \in FileIds : ~ InHeap(f), NEW f \in FileIds, NEW i \in DOMAIN in[f]
                 PROVE  Written(f, i) <=> Newest(f, i) /\ ~ in[f][i].del
    BY DEF MergedNewest, Written
  <2>2. PICK n \in 0 .. MaxRecords : DOMAIN in[f] = 1 .. n
    BY <2>1, FileShape, MergeAssumption DEF Merging
  <2>3. heap[f] \in Nat \ {0} /\ i \in Nat /\ heap[f] \notin 1 .. n
    BY <2>1, <2>2, FileShape, MergeAssumption DEF Merging, InHeap
  <2>4. i < heap[f]
    BY <2>2, <2>3, MergeAssumption
  <2> QED  BY <2>1, <2>4 DEF Merging, WrittenSoFar
<1> QED  BY <1>1, <1>2, <1>3, PTL DEF MergeSpec

-----------------------------------------------------------------------------
(* The order of the output.                                                *)

\* Every record written is one of the input, and its key was processed.
Behind ==
    \A n \in DOMAIN out :
        /\ out[n][1] \in FileIds /\ out[n][2] \in DOMAIN in[out[n][1]]
        /\ in[out[n][1]][out[n][2]].key <= last

Ascending == Behind /\ OutputSorted

LEMMA AscendingStep ==
    ASSUME MergeAssumption, Merging, Ascending, [MergeNext]_mergeVars
    PROVE  Ascending'
<1> USE DEF Merging, Ascending
<1>1. CASE UNCHANGED <<in, last, out>>
  BY <1>1 DEF Behind, OutputSorted
<1>2. ASSUME NEW f \in FileIds, SkipTombstone(f) \/ Emit(f) PROVE Ascending'
  <2> DEFINE k == in[f][heap[f]].key
             key(n) == in[out[n][1]][out[n][2]].key
  <2>1. UNCHANGED in /\ Top(f) /\ Head_(f).key # last /\ last' = k
    BY <1>2 DEF SkipTombstone, Emit, Head_
  <2>2. heap[f] \in DOMAIN in[f] /\ k \in Nat /\ last \in Nat
    BY <2>1, FileShape DEF Top, InHeap, Types
  <2>3. k > last
    BY <2>1, TopIsNewest DEF Head_
  <2>4. \A n \in DOMAIN out : key(n) \in Nat /\ key(n) <= last
    BY FileShape DEF Behind
  <2>5. CASE SkipTombstone(f)
    <3>1. UNCHANGED <<in, out>>
      BY <2>5 DEF SkipTombstone
    <3>2. \A n \in DOMAIN out : key(n) <= k
      BY <2>2, <2>3, <2>4
    <3> QED  BY <2>1, <3>1, <3>2 DEF Behind, OutputSorted
  <2>6. CASE Emit(f)
    <3>1. out' = Append(out, <<f, heap[f]>>) /\ out \in Seq(FileIds \X Nat) /\ Len(out) \in Nat
      BY <2>6, LenProperties DEF Emit, Types
    <3>2. /\ DOMAIN out = 1 .. Len(out) /\ DOMAIN out' = 1 .. Len(out) + 1
          /\ \A n \in 1 .. Len(out) : out'[n] = out[n]
          /\ out'[Len(out) + 1] = <<f, heap[f]>>
      BY <3>1
    <3>3. \A n \in DOMAIN out' : n \in DOMAIN out \/ n = Len(out) + 1
      BY <3>1, <3>2
    <3> DEFINE after(n) == in[out'[n][1]][out'[n][2]].key
    <3>4. /\ \A n \in DOMAIN out : after(n) = key(n)
          /\ after(Len(out) + 1) = k
      BY <3>2
    <3>5. Behind'
      <4>1. SUFFICES ASSUME NEW n \in DOMAIN out'
                     PROVE  /\ out'[n][1] \in FileIds /\ out'[n][2] \in DOMAIN in[out'[n][1]]
                            /\ after(n) <= k
        BY <2>1 DEF Behind
      <4>2. CASE n \in DOMAIN out
        BY <2>2, <2>3, <2>4, <3>2, <3>4, <4>2 DEF Behind
      <4>3. CASE n = Len(out) + 1
        BY <2>2, <3>2, <3>4, <4>3
      <4> QED  BY <3>3, <4>1, <4>2, <4>3
    <3>6. OutputSorted'
      <4>1. SUFFICES ASSUME NEW m \in DOMAIN out', NEW n \in DOMAIN out', m < n
                     PROVE  after(m) < after(n)
        BY <2>1 DEF OutputSorted
      <4>2. m \in DOMAIN out
        BY <3>1, <3>2, <4>1
      <4>3. CASE n \in DOMAIN out
        <5>1. key(m) < key(n)
          BY <4>1, <4>2, <4>3 DEF OutputSorted
        <5> QED  BY <3>4, <4>2, <4>3, <5>1
      <4>4. CASE n = Len(out) + 1
        <5>1. key(m) < k
          BY <2>2, <2>3, <2>4, <4>2
        <5> QED  BY <3>4, <4>2, <4>4, <5>1
      <4> QED  BY <3>3, <4>1, <4>3, <4>4
    <3> QED  BY <3>5, <3>6
  <2> QED  BY <1>2, <2>5, <2>6
<1>3. ASSUME NEW f \in FileIds, SkipShadowed(f) PROVE Ascending'
  BY <1>1, <1>3 DEF SkipShadowed
<1> QED  BY <1>1, <1>2, <1>3 DEF MergeNext, mergeVars

\* Compactor::executeCompaction hands the builder each key once and in order, whatever
\* files it is given: what index and search of the new file rest on.
THEOREM OutputInOrder == MergeSpec => []OutputSorted
<1>1. MergeInit => Merging /\ Ascending
  BY MergingInit, MergeAssumption DEF MergeInit, Ascending, Behind, OutputSorted
<1>2. Merging /\ Ascending /\ [MergeNext]_mergeVars => (Merging /\ Ascending)'
  BY MergingStep, AscendingStep, MergeAssumption
<1>3. Ascending => OutputSorted
  BY DEF Ascending
<1> QED  BY <1>1, <1>2, <1>3, PTL DEF MergeSpec

=============================================================================
