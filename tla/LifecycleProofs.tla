--------------------------- MODULE LifecycleProofs --------------------------
(***************************************************************************)
(* Theorems about module Lifecycle, for all bounds and any set of keys:    *)
(* the types, the logs that the next start-up would find, and that the     *)
(* newest value of a key survives flushes, compactions, crashes and        *)
(* start-ups.                                                              *)
(***************************************************************************)
EXTENDS Lifecycle, FiniteSetTheorems, SequenceTheorems, NaturalsInduction, WellFoundedInduction, TLAPS

-----------------------------------------------------------------------------
(* Types.                                                                  *)

Tables == [wal : Nat, recs : Seq(Ops), step : {"new", "write", "failed"}, name : {0} \X Nat]

Typed ==
    /\ DOMAIN files \subseteq {0, 1} \X Nat /\ IsFiniteSet(DOMAIN files)
    /\ \A n \in Names : files[n] \in [recs : SUBSET Ops, whole : BOOLEAN]
    /\ DOMAIN wals \subseteq Nat /\ IsFiniteSet(DOMAIN wals)
    /\ \A w \in DOMAIN wals : wals[w] \in Seq(Ops)
    /\ phase \in {"down", "replay", "up", "closing"}
    /\ active \in [wal : Nat, recs : Seq(Ops), full : BOOLEAN]
    /\ imms \in Seq(Tables)
    /\ doomed \subseteq Nat
    /\ readers \in Seq([name : {0, 1} \X Nat, recs : SUBSET Ops])
    /\ gen \in Nat
    /\ todo \in Seq(Nat) /\ done \in Nat
    /\ merge \in [step : {"none", "write", "remove"}, in : SUBSET ({0} \X Nat), out : {1} \X Nat]
    /\ latest \in [Keys -> [key : Keys, ver : 0 .. MaxPuts, del : BOOLEAN]]
    /\ puts \in 0 .. MaxPuts /\ rounds \in Nat /\ now \in Nat

\* The arena of the active table.
Roomy ==
    /\ Len(active.recs) <= Capacity
    /\ ~ active.full => Len(active.recs) < Threshold

\* What the phases mean for the rest of the process.
Phases ==
    /\ phase \in {"down", "replay"} => imms = <<>> /\ doomed = {}
    /\ phase # "up" => merge = NoMerge
    /\ phase # "replay" => todo = <<>> /\ done = 0
    /\ phase = "replay" => todo # <<>>

Merging ==
    /\ merge.in \subseteq L0Names
    /\ merge.step = "none" => merge = NoMerge
    /\ merge.step # "none" => merge.out \in Names /\ rounds # 0

\* Names of logs are times, and there is a log for each table to come.
Clocked ==
    /\ \A w \in DOMAIN wals : w <= now
    /\ active.wal <= now
    /\ phase = "replay" =>
          /\ active.wal \in DOMAIN wals
          /\ \A i \in 1 .. Len(todo) : todo[i] \in DOMAIN wals /\ todo[i] < active.wal
          /\ \A i, j \in 1 .. Len(todo) : i < j => todo[i] < todo[j]

\* Which logs exist.
Accounted ==
    /\ phase \in {"up", "closing"} =>
          \A w \in DOMAIN wals :
              w = active.wal \/ w \in doomed \/ \E i \in 1 .. Len(imms) : imms[i].wal = w
    /\ phase = "replay" =>
          \A w \in DOMAIN wals : w = active.wal \/ \E i \in 1 .. Len(todo) : todo[i] = w

Sound == Typed /\ Roomy /\ Phases /\ Merging /\ Clocked /\ Accounted

\* Without the fault "clock": each table has a log of its own, in the order of the tables.
LogsHeld ==
    /\ doomed \subseteq DOMAIN wals
    /\ \A i \in 1 .. Len(imms) : imms[i].wal \in DOMAIN wals \ doomed
    /\ \A i, j \in 1 .. Len(imms) : i < j => imms[i].wal < imms[j].wal
    /\ phase \in {"up", "closing"} => \A w \in DOMAIN wals : w <= active.wal
    /\ phase = "up" =>
          /\ active.wal \in DOMAIN wals \ doomed
          /\ \A i \in 1 .. Len(imms) : imms[i].wal < active.wal

-----------------------------------------------------------------------------
(* What is stored where.                                                   *)

Known(r) == r.ver <= latest[r.key].ver /\ (r.ver = latest[r.key].ver => r = latest[r.key])

Versions ==
    /\ \A k \in Keys : latest[k].key = k /\ latest[k].ver <= puts /\ (latest[k].ver = 0 => latest[k].del)
    /\ \A w \in DOMAIN wals : \A i \in 1 .. Len(wals[w]) : Known(wals[w][i])
    /\ \A n \in Names : \A r \in files[n].recs : Known(r)

\* A table and its log hold the same.
TableLogs ==
    /\ phase \in {"replay", "up"} => wals[active.wal] = active.recs
    /\ \A i \in 1 .. Len(imms) : wals[imms[i].wal] = imms[i].recs

\* Of two records of a key in a log the first is not newer.
Ascending(recs) ==
    \A i, j \in 1 .. Len(recs) : i < j /\ recs[i].key = recs[j].key => recs[i].ver <= recs[j].ver

\* No record of a in front of a newer one of the same key in b.
Before(a, b) ==
    \A i \in 1 .. Len(a), j \in 1 .. Len(b) : a[i].key = b[j].key => a[i].ver <= b[j].ver

LogsSorted ==
    /\ \A w \in DOMAIN wals : Ascending(wals[w])
    /\ \A v, w \in DOMAIN wals :
          v < w /\ ~ (phase = "replay" /\ w = active.wal) => Before(wals[v], wals[w])

\* While logs are replayed: what has been is in the new log, and not newer than the rest.
Replayed ==
    phase = "replay" =>
        /\ done <= Len(wals[todo[1]])
        /\ \A j \in 1 .. done : wals[todo[1]][j] \in Range(active.recs)
        /\ \A i \in 1 .. Len(active.recs), j \in done + 1 .. Len(wals[todo[1]]) :
              active.recs[i].key = wals[todo[1]][j].key => active.recs[i].ver <= wals[todo[1]][j].ver
        /\ \A h \in 2 .. Len(todo) : Before(active.recs, wals[todo[h]])

\* A file that is being written, and the turns that flushes and compactions take.
Writing ==
    /\ \A n \in Names : ~ files[n].whole => files[n].recs = {}
    /\ \A i \in 1 .. Len(imms) : imms[i].step = "write" =>
          /\ doomed = {} /\ merge.step = "none"
          /\ imms[i].name \in Names /\ ~ files[imms[i].name].whole
          /\ \A m \in Names : m = imms[i].name \/ m[2] < imms[i].name[2]
    /\ \A i, j \in 1 .. Len(imms) : i < j /\ imms[j].step # "new" => imms[i].step = "failed"
    /\ \A i \in 1 .. Len(imms) : imms[i].step = "failed" => "sst" \in Faults
    /\ phase = "replay" => \A n \in Names : files[n].whole

\* Up to the end of the first compaction, or for ever when no flush fails.
Trusted == "sst" \notin Faults \/ rounds = 0 \/ merge.step = "write"

\* For one key a greater number means newer data.
FilesOrdered ==
    \A m, n \in L0Names : \A a \in files[m].recs, b \in files[n].recs :
        a.key = b.key => (m = n => a = b) /\ (m[2] > n[2] => a.ver >= b.ver)

\* Of each key that it holds the records of a log are not all older than a file.
LogAbove(w) ==
    \A n \in L0Names : \A b \in files[n].recs :
        (\E i \in 1 .. Len(wals[w]) : wals[w][i].key = b.key) =>
            \E i \in 1 .. Len(wals[w]) : wals[w][i].key = b.key /\ wals[w][i].ver >= b.ver
LogsAbove ==
    \A n \in L0Names : \A b \in files[n].recs :
        (\E w \in DOMAIN wals : \E i \in 1 .. Len(wals[w]) : wals[w][i].key = b.key) =>
            \E w \in DOMAIN wals : \E i \in 1 .. Len(wals[w]) : wals[w][i].key = b.key /\ wals[w][i].ver >= b.ver

Failed(w) == \E i \in 1 .. Len(imms) : imms[i].wal = w /\ imms[i].step = "failed"

\* A flush that failed leaves a file that nobody will finish.
Unfinished ==
    \A i \in 1 .. Len(imms) : imms[i].step = "failed" =>
        /\ imms[i].name \in Names /\ ~ files[imms[i].name].whole
        /\ \A j \in 1 .. Len(imms) : imms[j].step = "write" => imms[j].name # imms[i].name

FilesBelow ==
    Trusted =>
        /\ FilesOrdered
        /\ phase = "down" => LogsAbove \/ \E n \in Names : ~ files[n].whole
        /\ phase = "replay" => LogsAbove
        /\ phase \in {"up", "closing"} => \A w \in DOMAIN wals : LogAbove(w) \/ Failed(w)
        /\ Unfinished

\* A compaction: the newest values are in the file that it has written.
Compacting ==
    /\ merge.step = "write" => ~ files[merge.out].whole
    /\ merge.step = "remove" =>
          /\ files[merge.out].whole
          /\ \A n \in merge.in : \A r \in files[n].recs :
                r = latest[r.key] /\ ~ r.del => r \in files[merge.out].recs

Kept ==
    \A k \in Keys :
        \/ latest[k].del
        \/ \E n \in Names : files[n].whole /\ latest[k] \in files[n].recs
        \/ \E w \in DOMAIN wals \ doomed : latest[k] \in Range(wals[w])

Stored ==
    /\ Versions /\ TableLogs /\ LogsSorted /\ Replayed
    /\ Writing /\ FilesBelow /\ Compacting /\ Kept

Preserved == mishaps = {} => Stored

-----------------------------------------------------------------------------
(* Numbers.                                                                *)

LEMMA Least ==
    ASSUME NEW S, S \subseteq Nat, S # {}
    PROVE  \E p \in S : \A q \in S : p <= q
<1> DEFINE R == OpToRel(<, Nat)
<1>1. (\A p, q \in Nat : q < p => <<q, p>> \in R) /\ IsWellFoundedOn(R, Nat)
  BY NatLessThanWellFounded DEF OpToRel
<1> HIDE DEF R
<1>2. PICK p \in S : \A q \in S : ~ (<<q, p>> \in R)
  BY <1>1, WFMin
<1>3. \A q \in S : p <= q
  <2>1. \A q \in S : ~ (q < p)
    BY <1>1, <1>2
  <2> QED  BY <2>1
<1> QED  BY <1>3

\* f is the powers of ten up to the n-th.
Approximates(f, n) ==
    f \in [Nat -> Nat] /\ f[0] = 1 /\ \A i \in Nat : i < n => f[i + 1] = 10 * f[i]

LEMMA ApproximationsExist == \A n \in Nat : \E f : Approximates(f, n)
<1> DEFINE missing == {n \in Nat : ~ \E f : Approximates(f, n)}
<1> SUFFICES ASSUME missing # {} PROVE FALSE
  OBVIOUS
<1>1. PICK n \in missing : \A m \in missing : n <= m
  <2>1. missing \subseteq Nat
    OBVIOUS
  <2> HIDE DEF missing
  <2> QED  BY <2>1, Least
<1>2. n \in Nat /\ ~ \E f : Approximates(f, n)
  OBVIOUS
<1>3. CASE n = 0
  <2> DEFINE f == [i \in Nat |-> 1]
  <2>1. Approximates(f, n)
    BY <1>3 DEF Approximates
  <2> QED  BY <1>2, <2>1
<1>4. CASE n # 0
  <2>1. n - 1 \in Nat /\ ~ (n <= n - 1)
    BY <1>2, <1>4
  <2>2. PICK g : Approximates(g, n - 1)
    BY <1>1, <2>1
  <2> DEFINE x == 10 * g[n - 1]
             f == [i \in Nat |-> IF i = n THEN x ELSE g[i]]
  <2>3. g \in [Nat -> Nat] /\ g[0] = 1 /\ \A i \in Nat : i < n - 1 => g[i + 1] = 10 * g[i]
    BY <2>2 DEF Approximates
  <2>4. x \in Nat
    BY <2>1, <2>3
  <2>5. f[0] = 1 /\ f \in [Nat -> Nat]
    <3> HIDE DEF x
    <3> QED  BY <1>4, <2>3, <2>4
  <2>6. ASSUME NEW i \in Nat, i < n PROVE f[i + 1] = 10 * f[i]
    <3>1. CASE i = n - 1
      BY <1>2, <2>1, <3>1
    <3>2. CASE i # n - 1
      <4>1. i < n - 1 /\ i + 1 # n /\ i # n /\ i + 1 \in Nat
        BY <1>2, <2>6, <3>2
      <4>2. f[i + 1] = g[i + 1] /\ f[i] = g[i]
        BY <4>1
      <4> QED  BY <2>3, <4>1, <4>2
    <3> QED  BY <3>1, <3>2
  <2>7. Approximates(f, n)
    BY <2>5, <2>6 DEF Approximates
  <2> QED  BY <1>2, <2>7
<1> QED  BY <1>3, <1>4

LEMMA ApproximationsAgree ==
    ASSUME NEW n \in Nat, NEW f, NEW g, Approximates(f, n), Approximates(g, n + 1)
    PROVE  f[n] = g[n]
<1> DEFINE apart == {i \in Nat : i <= n /\ f[i] # g[i]}
<1> SUFFICES ASSUME apart # {} PROVE FALSE
  OBVIOUS
<1>1. PICK i \in apart : \A m \in apart : i <= m
  <2>1. apart \subseteq Nat
    OBVIOUS
  <2> HIDE DEF apart
  <2> QED  BY <2>1, Least
<1>2. i # 0
  BY DEF Approximates
<1>3. i - 1 \in Nat /\ i - 1 < n /\ f[i - 1] = g[i - 1]
  BY <1>1, <1>2
<1>4. (i - 1) + 1 = i /\ i - 1 < n + 1
  BY <1>3
<1>5. f[i] = 10 * f[i - 1] /\ g[i] = 10 * g[i - 1]
  BY <1>3, <1>4 DEF Approximates
<1> QED  BY <1>1, <1>3, <1>5

LEMMA TenToIs ==
    /\ TenTo[0] = 1
    /\ \A n \in Nat : n # 0 => TenTo[n] = 10 * TenTo[n - 1]
<1> DEFINE up[n \in Nat] == CHOOSE f : Approximates(f, n)
           ten == [n \in Nat |-> up[n][n]]
<1>1. \A n \in Nat : Approximates(up[n], n)
  BY ApproximationsExist
<1> HIDE DEF up
<1>2. ten[0] = 1
  BY <1>1 DEF Approximates
<1>3. ASSUME NEW n \in Nat, n # 0 PROVE ten[n] = 10 * ten[n - 1]
  <2>1. n - 1 \in Nat /\ (n - 1) + 1 = n /\ n - 1 < n
    BY <1>3
  <2>2. up[n - 1][n - 1] = up[n][n - 1]
    BY <1>1, <2>1, ApproximationsAgree
  <2>3. up[n][n] = 10 * up[n][n - 1]
    BY <1>1, <2>1 DEF Approximates
  <2> QED  BY <2>1, <2>2, <2>3
<1>4. ten = [n \in Nat |-> IF n = 0 THEN 1 ELSE 10 * ten[n - 1]]
  <2> HIDE DEF ten
  <2>1. ten = [n \in Nat |-> ten[n]]
    BY DEF ten
  <2> QED  BY <1>2, <1>3, <2>1
<1> HIDE DEF ten
<1>5. \E f : f = [n \in Nat |-> IF n = 0 THEN 1 ELSE 10 * f[n - 1]]
  BY <1>4
<1>6. TenTo = [n \in Nat |-> IF n = 0 THEN 1 ELSE 10 * TenTo[n - 1]]
  BY <1>5 DEF TenTo
<1> QED  BY <1>6

LEMMA TenToGrows == \A n \in Nat : TenTo[n] \in Nat /\ TenTo[n] > n
<1> DEFINE others == {i \in Nat : ~ (TenTo[i] \in Nat /\ TenTo[i] > i)}
<1> SUFFICES ASSUME others # {} PROVE FALSE
  OBVIOUS
<1>1. PICK i \in others : \A m \in others : i <= m
  <2>1. others \subseteq Nat
    OBVIOUS
  <2> HIDE DEF others
  <2> QED  BY <2>1, Least
<1>2. i # 0
  BY TenToIs
<1>3. i - 1 \in Nat /\ TenTo[i - 1] \in Nat /\ TenTo[i - 1] > i - 1
  BY <1>1, <1>2
<1>4. TenTo[i] = 10 * TenTo[i - 1]
  BY <1>2, TenToIs
<1> QED  BY <1>3, <1>4

\* A number has digits, at least one.
LEMMA DigitsAre ==
    ASSUME NEW n \in Nat
    PROVE  Digits(n) \in Nat /\ TenTo[Digits(n)] \in Nat \ {0}
<1> DEFINE enough == {d \in Nat \ {0} : n < TenTo[d]}
<1>1. n + 1 \in enough
  BY TenToGrows
<1>2. PICK d \in enough : \A e \in enough : d <= e
  <2>1. enough \subseteq Nat /\ enough # {}
    BY <1>1
  <2> HIDE DEF enough
  <2> QED  BY <2>1, Least
<1>3. d \in 1 .. n + 1 /\ n < TenTo[d]
  BY <1>1, <1>2
<1>4. d = 1 \/ TenTo[d - 1] <= n
  <2> SUFFICES ASSUME d # 1 PROVE TenTo[d - 1] <= n
    OBVIOUS
  <2>1. d - 1 \in Nat \ {0} /\ d - 1 \notin enough
    BY <1>2, <1>3
  <2>2. TenTo[d - 1] \in Nat
    BY <2>1, TenToGrows
  <2> QED  BY <2>1, <2>2
<1>5. Digits(n) \in 1 .. n + 1
  BY <1>3, <1>4 DEF Digits
<1> QED  BY <1>5, TenToGrows

-----------------------------------------------------------------------------
(* The order of names.                                                     *)

LEMMA Fractions ==
    ASSUME NEW m \in Nat, NEW n \in Nat, NEW o \in Nat,
           NEW p \in Nat \ {0}, NEW q \in Nat \ {0}, NEW r \in Nat \ {0},
           m * q >= n * p, n * r >= o * q
    PROVE  /\ m * r >= o * p
           /\ m * r = o * p => m * q = n * p /\ n * r = o * q
<1>1. \A x, y \in Nat : x >= y => r * x >= r * y /\ p * x >= p * y
  OBVIOUS
<1>2. \A x, y \in Nat : x > y => r * x > r * y /\ p * x > p * y /\ q * x > q * y
  OBVIOUS
<1>3. m * q \in Nat /\ n * p \in Nat /\ n * r \in Nat /\ o * q \in Nat /\ m * r \in Nat /\ o * p \in Nat
  OBVIOUS
<1>4. r * (m * q) = q * (m * r) /\ r * (n * p) = p * (n * r) /\ p * (o * q) = q * (o * p)
  OBVIOUS
<1>5. \A x, y \in Nat : r * x \in Nat /\ p * x \in Nat /\ q * x \in Nat
  OBVIOUS
<1> DEFINE A == q * (m * r)
           B == p * (n * r)
           C == q * (o * p)
<1>6. A \in Nat /\ B \in Nat /\ C \in Nat
  BY <1>3, <1>5
<1>7. A >= B /\ (m * q > n * p => A > B)
  BY <1>1, <1>2, <1>3, <1>4
<1>8. B >= C /\ (n * r > o * q => B > C)
  BY <1>1, <1>2, <1>3, <1>4
<1>9. o * p > m * r => C > A
  BY <1>2, <1>3
<1>10. m * r = o * p => C = A
  OBVIOUS
<1> HIDE DEF A, B, C
<1> QED  BY <1>3, <1>6, <1>7, <1>8, <1>9, <1>10

LEMMA NamesAreOrdered ==
    /\ \A m \in {0, 1} \X Nat : ~ NameGreater(m, m)
    /\ \A m, n \in {0, 1} \X Nat : m # n => NameGreater(m, n) \/ NameGreater(n, m)
    /\ \A m, n, o \in {0, 1} \X Nat : NameGreater(m, n) /\ NameGreater(n, o) => NameGreater(m, o)
<1> DEFINE T(n) == TenTo[Digits(n)]
<1>1. \A m, n \in Nat : /\ T(n) \in Nat \ {0} /\ m * T(n) \in Nat
                        /\ TextGreater(m, n) <=> (m * T(n) > n * T(m) \/ (m * T(n) = n * T(m) /\ m > n))
  BY DigitsAre DEF TextGreater
<1> HIDE DEF T
<1>2. \A m \in Nat : ~ TextGreater(m, m)
  BY <1>1
<1>3. ASSUME NEW m \in Nat, NEW n \in Nat, m # n PROVE TextGreater(m, n) \/ TextGreater(n, m)
  <2> DEFINE a == m * T(n)
             b == n * T(m)
  <2>1. /\ a \in Nat /\ b \in Nat
        /\ TextGreater(m, n) <=> (a > b \/ (a = b /\ m > n))
        /\ TextGreater(n, m) <=> (b > a \/ (b = a /\ n > m))
    BY <1>1
  <2> HIDE DEF a, b
  <2> QED  BY <1>3, <2>1
<1>4. ASSUME NEW m \in Nat, NEW n \in Nat, NEW o \in Nat, TextGreater(m, n), TextGreater(n, o)
      PROVE  TextGreater(m, o)
  <2> DEFINE p == T(m)
             q == T(n)
             r == T(o)
  <2>1. /\ p \in Nat \ {0} /\ q \in Nat \ {0} /\ r \in Nat \ {0}
        /\ m * q \in Nat /\ n * p \in Nat /\ n * r \in Nat /\ o * q \in Nat /\ m * r \in Nat /\ o * p \in Nat
        /\ TextGreater(m, n) <=> (m * q > n * p \/ (m * q = n * p /\ m > n))
        /\ TextGreater(n, o) <=> (n * r > o * q \/ (n * r = o * q /\ n > o))
        /\ TextGreater(m, o) <=> (m * r > o * p \/ (m * r = o * p /\ m > o))
    BY <1>1
  <2> HIDE DEF p, q, r
  <2>2. m * q >= n * p /\ (m * q = n * p => m > n)
    BY <1>4, <2>1
  <2>3. n * r >= o * q /\ (n * r = o * q => n > o)
    BY <1>4, <2>1
  <2>4. m * r >= o * p /\ (m * r = o * p => m * q = n * p /\ n * r = o * q)
    BY <2>1, <2>2, <2>3, Fractions
  <2>5. m * r = o * p => m > o
    BY <2>2, <2>3, <2>4
  <2> QED  BY <2>1, <2>4, <2>5
<1>5. \A m \in {0, 1} \X Nat : m[1] \in {0, 1} /\ m[2] \in Nat /\ m = <<m[1], m[2]>>
  OBVIOUS
<1>6. \A m \in {0, 1} \X Nat : ~ NameGreater(m, m)
  BY <1>2, <1>5 DEF NameGreater
<1>7. ASSUME NEW m \in {0, 1} \X Nat, NEW n \in {0, 1} \X Nat, m # n
      PROVE  NameGreater(m, n) \/ NameGreater(n, m)
  BY <1>3, <1>5, <1>7 DEF NameGreater
<1>8. ASSUME NEW m \in {0, 1} \X Nat, NEW n \in {0, 1} \X Nat, NEW o \in {0, 1} \X Nat,
             NameGreater(m, n), NameGreater(n, o)
      PROVE  NameGreater(m, o)
  BY <1>4, <1>5, <1>8 DEF NameGreater
<1> QED  BY <1>6, <1>7, <1>8

-----------------------------------------------------------------------------
(* InOrder.                                                                *)

Orders(R, S) ==
    /\ \A x \in S : <<x, x>> \notin R
    /\ \A x, y \in S : x # y => <<x, y>> \in R \/ <<y, x>> \in R
    /\ \A x, y, z \in S : <<x, y>> \in R /\ <<y, z>> \in R => <<x, z>> \in R

\* The elements in front of x.
InFront(R, S, x) == {y \in S : <<y, x>> \in R}

LEMMA Ranks ==
    ASSUME NEW S, IsFiniteSet(S), NEW R, Orders(R, S)
    PROVE  LET rank == [x \in S |-> Cardinality(InFront(R, S, x))]
           IN  /\ Cardinality(S) \in Nat
               /\ rank \in [S -> 0 .. Cardinality(S) - 1]
               /\ \A x, y \in S : <<x, y>> \in R => rank[x] < rank[y]
               /\ \A x, y \in S : rank[x] = rank[y] => x = y
               /\ \A i \in 0 .. Cardinality(S) - 1 : \E x \in S : Cardinality(InFront(R, S, x)) = i
<1> DEFINE n == Cardinality(S)
           below(x) == InFront(R, S, x)
           rank == [x \in S |-> Cardinality(below(x))]
<1>1. n \in Nat
  BY FS_CardinalityType
<1>2. ASSUME NEW x \in S PROVE IsFiniteSet(below(x)) /\ Cardinality(below(x)) \in 0 .. n - 1
  <2> DEFINE B == below(x)
  <2>1. B \in SUBSET S /\ x \in S /\ x \notin B
    BY DEF Orders, InFront
  <2> HIDE DEF B
  <2>2. IsFiniteSet(B) /\ Cardinality(B) <= n /\ Cardinality(B) # n
    BY <2>1, FS_Subset
  <2>3. Cardinality(B) \in Nat
    BY <2>2, FS_CardinalityType
  <2>4. IsFiniteSet(B) /\ Cardinality(B) \in 0 .. n - 1
    BY <1>1, <2>2, <2>3
  <2> QED  BY <2>4 DEF B
<1>3. ASSUME NEW x \in S, NEW y \in S, <<x, y>> \in R PROVE Cardinality(below(x)) < Cardinality(below(y))
  <2> DEFINE A == below(x)
             B == below(y)
  <2>1. A \in SUBSET B /\ x \in B /\ x \notin A
    BY <1>3 DEF Orders, InFront
  <2>2. IsFiniteSet(B) /\ Cardinality(A) \in 0 .. n - 1 /\ Cardinality(B) \in 0 .. n - 1
    BY <1>2
  <2> HIDE DEF A, B
  <2>3. Cardinality(A) <= Cardinality(B) /\ Cardinality(A) # Cardinality(B)
    BY <2>1, <2>2, FS_Subset
  <2>4. Cardinality(A) < Cardinality(B)
    BY <1>1, <2>2, <2>3
  <2> QED  BY <2>4 DEF A, B
<1>4. rank \in [S -> 0 .. n - 1] /\ \A x, y \in S : <<x, y>> \in R => rank[x] < rank[y]
  BY <1>2, <1>3
<1> HIDE DEF rank
<1>5. \A x, y \in S : rank[x] = rank[y] => x = y
  <2> SUFFICES ASSUME NEW x \in S, NEW y \in S, x # y PROVE rank[x] # rank[y]
    OBVIOUS
  <2>1. <<x, y>> \in R \/ <<y, x>> \in R
    BY DEF Orders
  <2>2. rank[x] \in 0 .. n - 1 /\ rank[y] \in 0 .. n - 1
    BY <1>4
  <2> QED  BY <1>1, <1>4, <2>1, <2>2
<1>6. \A i \in 0 .. n - 1 : \E x \in S : rank[x] = i
  <2> DEFINE N == 0 .. n - 1
  <2>1. IsFiniteSet(N) /\ Cardinality(N) = n
    BY <1>1, FS_Interval
  <2>2. rank \in Injection(S, N)
    BY <1>4, <1>5 DEF Injection, IsInjective
  <2> HIDE DEF N
  <2>3. rank \in Surjection(S, N)
    BY <2>1, <2>2, FS_Injection
  <2>4. \A i \in N : \E x \in S : rank[x] = i
    BY <2>3 DEF Surjection
  <2> QED  BY <2>4 DEF N
<1>7. \A i \in 0 .. n - 1 : \E x \in S : Cardinality(below(x)) = i
  BY <1>6 DEF rank
<1> QED  BY <1>1, <1>4, <1>5, <1>7 DEF rank

LEMMA RanksTaken ==
    ASSUME NEW S, IsFiniteSet(S), NEW R, Orders(R, S)
    PROVE  \A i \in 0 .. Cardinality(S) - 1 : \E x \in S : Cardinality(InFront(R, S, x)) = i
BY Ranks

\* The i-th element has i - 1 before it: that is S in order.
LEMMA Ordered ==
    ASSUME NEW S, IsFiniteSet(S), NEW R, Orders(R, S), NEW s,
           \A i \in 1 .. Cardinality(S) : s[i] \in S /\ Cardinality(InFront(R, S, s[i])) = i - 1
    PROVE  /\ \A x \in S : \E i \in 1 .. Cardinality(S) : s[i] = x
           /\ \A i, j \in 1 .. Cardinality(S) : i < j => <<s[i], s[j]>> \in R
<1> DEFINE n == Cardinality(S)
           rank == [x \in S |-> Cardinality(InFront(R, S, x))]
<1>1. /\ n \in Nat
      /\ rank \in [S -> 0 .. n - 1]
      /\ \A x, y \in S : <<x, y>> \in R => rank[x] < rank[y]
      /\ \A x, y \in S : rank[x] = rank[y] => x = y
  BY Ranks
<1>2. \A i \in 1 .. n : s[i] \in S /\ rank[s[i]] = i - 1
  OBVIOUS
<1> HIDE DEF rank
<1>3. ASSUME NEW x \in S PROVE \E i \in 1 .. n : s[i] = x
  <2>1. rank[x] \in 0 .. n - 1
    BY <1>1
  <2>2. rank[x] + 1 \in 1 .. n
    BY <1>1, <2>1
  <2>3. rank[s[rank[x] + 1]] = rank[x] /\ s[rank[x] + 1] \in S
    BY <1>2, <2>1, <2>2
  <2> QED  BY <1>1, <2>2, <2>3
<1>4. ASSUME NEW i \in 1 .. n, NEW j \in 1 .. n, i < j PROVE <<s[i], s[j]>> \in R
  <2>1. s[i] \in S /\ s[j] \in S /\ rank[s[i]] = i - 1 /\ rank[s[j]] = j - 1
    BY <1>2
  <2>2. s[i] # s[j]
    BY <1>4, <2>1
  <2>3. <<s[i], s[j]>> \in R \/ <<s[j], s[i]>> \in R
    BY <2>1, <2>2 DEF Orders
  <2>4. ~ (rank[s[j]] < rank[s[i]])
    BY <1>4, <2>1
  <2> QED  BY <1>1, <2>1, <2>3, <2>4
<1> QED  BY <1>3, <1>4

\* recoverFromOldWals: every log, the oldest first.
LEMMA WalsInOrderIs ==
    ASSUME Typed
    PROVE  /\ WalsInOrder \in Seq(DOMAIN wals)
           /\ \A w \in DOMAIN wals : \E i \in 1 .. Len(WalsInOrder) : WalsInOrder[i] = w
           /\ \A i, j \in 1 .. Len(WalsInOrder) : i < j => WalsInOrder[i] < WalsInOrder[j]
<1> DEFINE S == DOMAIN wals
           n == Cardinality(S)
           R == {p \in S \X S : p[1] < p[2]}
           s == WalsInOrder
<1>1. S \subseteq Nat /\ IsFiniteSet(S) /\ n \in Nat
  BY FS_CardinalityType DEF Typed
<1>2. s = [i \in 1 .. n |-> CHOOSE x \in S : Cardinality({y \in S : y < x}) = i - 1]
  BY DEF WalsInOrder, InOrder
<1> HIDE DEF s, n, S
<1>3. \A x, y \in S : <<x, y>> \in R <=> x < y
  OBVIOUS
<1> HIDE DEF R
<1>4. Orders(R, S)
  BY <1>1, <1>3 DEF Orders
<1>5. \A x \in S : {y \in S : y < x} = InFront(R, S, x)
  BY <1>3 DEF InFront
<1>6. ASSUME NEW i \in 1 .. n PROVE s[i] \in S /\ Cardinality(InFront(R, S, s[i])) = i - 1
  <2>1. i - 1 \in 0 .. n - 1
    BY <1>1
  <2>2. \A h \in 0 .. n - 1 : \E x \in S : Cardinality(InFront(R, S, x)) = h
    <3>1. IsFiniteSet(S)
      BY <1>1
    <3>2. \A h \in 0 .. Cardinality(S) - 1 : \E x \in S : Cardinality(InFront(R, S, x)) = h
      BY <1>4, <3>1, RanksTaken, SMTT(30)
    <3> QED  BY <3>2 DEF n
  <2>3. \E x \in S : Cardinality({y \in S : y < x}) = i - 1
    BY <1>5, <2>1, <2>2
  <2>4. s[i] \in S /\ Cardinality({y \in S : y < s[i]}) = i - 1
    BY <1>2, <2>3
  <2> QED  BY <1>5, <2>4
<1>7. /\ \A x \in S : \E i \in 1 .. n : s[i] = x
      /\ \A i, j \in 1 .. n : i < j => <<s[i], s[j]>> \in R
  <2>1. \A i \in 1 .. Cardinality(S) : s[i] \in S /\ Cardinality(InFront(R, S, s[i])) = i - 1
    BY <1>6 DEF n
  <2> QED  BY <1>1, <1>4, <2>1, Ordered DEF n
<1>8. s \in Seq(S) /\ Len(s) = n
  <2>1. s \in [1 .. n -> S]
    BY <1>2, <1>6
  <2> QED  BY <1>1, <2>1
<1> QED  BY <1>3, <1>6, <1>7, <1>8 DEF s, S

\* loadSSTables: the order of names is one; in it each file has its place.
LEMMA InNameOrder ==
    ASSUME NEW S, S \subseteq {0, 1} \X Nat, IsFiniteSet(S)
    PROVE  LET s == InOrder(S, NameGreater)
           IN  /\ s \in Seq(S) /\ (S # {} => Len(s) # 0)
               /\ \A x \in S : \E i \in 1 .. Len(s) : s[i] = x
               /\ \A i, j \in 1 .. Len(s) : i < j => NameGreater(s[i], s[j])
<1> DEFINE n == Cardinality(S)
           R == {p \in S \X S : NameGreater(p[1], p[2])}
           s == InOrder(S, NameGreater)
<1>1. n \in Nat
  BY FS_CardinalityType
<1>2. s = [i \in 1 .. n |-> CHOOSE x \in S : Cardinality({y \in S : NameGreater(y, x)}) = i - 1]
  BY DEF InOrder
<1> HIDE DEF s, n
<1>3. \A x, y \in S : <<x, y>> \in R <=> NameGreater(x, y)
  OBVIOUS
<1> HIDE DEF R
<1>4. Orders(R, S)
  BY <1>3, NamesAreOrdered DEF Orders
<1>5. \A x \in S : {y \in S : NameGreater(y, x)} = InFront(R, S, x)
  BY <1>3 DEF InFront
<1>6. ASSUME NEW i \in 1 .. n PROVE s[i] \in S /\ Cardinality(InFront(R, S, s[i])) = i - 1
  <2>1. i - 1 \in 0 .. n - 1
    BY <1>1
  <2>2. \A h \in 0 .. n - 1 : \E x \in S : Cardinality(InFront(R, S, x)) = h
    <3>1. \A h \in 0 .. Cardinality(S) - 1 : \E x \in S : Cardinality(InFront(R, S, x)) = h
      BY <1>4, RanksTaken, SMTT(30)
    <3> QED  BY <3>1 DEF n
  <2>3. \E x \in S : Cardinality({y \in S : NameGreater(y, x)}) = i - 1
    BY <1>5, <2>1, <2>2
  <2>4. s[i] \in S /\ Cardinality({y \in S : NameGreater(y, s[i])}) = i - 1
    BY <1>2, <2>3
  <2> QED  BY <1>5, <2>4
<1>7. /\ \A x \in S : \E i \in 1 .. n : s[i] = x
      /\ \A i, j \in 1 .. n : i < j => <<s[i], s[j]>> \in R
  <2>1. \A i \in 1 .. Cardinality(S) : s[i] \in S /\ Cardinality(InFront(R, S, s[i])) = i - 1
    BY <1>6 DEF n
  <2> QED  BY <1>4, <2>1, Ordered DEF n
<1>8. s \in Seq(S) /\ Len(s) = n
  <2>1. s \in [1 .. n -> S]
    BY <1>2, <1>6
  <2> QED  BY <1>1, <2>1
<1>9. S # {} => n # 0
  BY <1>1, FS_EmptySet DEF n
<1>10. \A i, j \in 1 .. Len(s) : i < j => NameGreater(s[i], s[j])
  BY <1>3, <1>6, <1>7, <1>8
<1> QED  BY <1>7, <1>8, <1>9, <1>10 DEF s

LEMMA NamesInOrderIs ==
    ASSUME Typed
    PROVE  /\ NamesInOrder \in Seq(Names) /\ (Names # {} => Len(NamesInOrder) # 0)
           /\ \A n \in Names : \E i \in 1 .. Len(NamesInOrder) : NamesInOrder[i] = n
           /\ \A i, j \in 1 .. Len(NamesInOrder) : i < j => NameGreater(NamesInOrder[i], NamesInOrder[j])
<1>1. Names \subseteq {0, 1} \X Nat /\ IsFiniteSet(Names)
  BY DEF Typed, Names
<1> QED  BY <1>1, InNameOrder DEF NamesInOrder

LEMMA MaxSSTableIdIsNumber ==
    ASSUME Typed
    PROVE  MaxSSTableId \in Nat
<1>1. \A n \in {0, 1} \X Nat : NumberOf(n) \in Nat
  <2> TAKE n \in {0, 1} \X Nat
  <2>1. n[1] \in Nat /\ n[2] \in Nat /\ TenTo[Digits(n[2])] \in Nat
    BY DigitsAre
  <2>2. n[1] * TenTo[Digits(n[2])] \in Nat
    BY <2>1
  <2> QED  BY <2>1, <2>2 DEF NumberOf
<1>2. ASSUME Names # {} PROVE NumberOf(NamesInOrder[1]) \in Nat
  <2>1. NamesInOrder \in Seq(Names) /\ 1 \in 1 .. Len(NamesInOrder)
    BY <1>2, NamesInOrderIs
  <2>2. NamesInOrder[1] \in Names
    BY <2>1
  <2> QED  BY <1>1, <2>2 DEF Typed, Names
<1> QED  BY <1>2 DEF MaxSSTableId

-----------------------------------------------------------------------------
(* Sequences of records.                                                   *)

LEMMA Greatest ==
    ASSUME NEW n \in Nat, NEW S, S \subseteq 0 .. n, S # {}
    PROVE  \E p \in S : \A q \in S : q <= p
<1> DEFINE T == {n - q : q \in S}
<1>1. T \subseteq Nat /\ T # {}
  <2>1. \A q \in S : n - q \in Nat
    OBVIOUS
  <2> QED  BY <2>1
<1>2. PICK t \in T : \A u \in T : t <= u
  <2> HIDE DEF T
  <2> QED  BY <1>1, Least
<1>3. PICK p \in S : t = n - p
  OBVIOUS
<1>4. \A q \in S : q <= p
  <2> SUFFICES ASSUME NEW q \in S PROVE q <= p
    OBVIOUS
  <2>1. n - q \in T /\ q \in 0 .. n /\ p \in 0 .. n
    OBVIOUS
  <2>2. n - p <= n - q
    BY <1>2, <1>3, <2>1
  <2> HIDE DEF T
  <2> QED  BY <2>1, <2>2
<1> QED  BY <1>4

\* The version of a key that a table or a log serves is the one inserted last.
LEMMA LastOfIs ==
    ASSUME NEW recs \in Seq(Ops), NEW k, NEW h \in 1 .. Len(recs), recs[h].key = k
    PROVE  \E m \in 1 .. Len(recs) :
              /\ LastOf(recs, k) = recs[m] /\ recs[m].key = k
              /\ \A i \in 1 .. Len(recs) : recs[i].key = k => i <= m
<1> DEFINE S == OfKey(recs, k)
<1>1. \A i : i \in S <=> (i \in 1 .. Len(recs) /\ recs[i].key = k)
  BY DEF OfKey
<1>2. S \subseteq 0 .. Len(recs) /\ S # {} /\ Len(recs) \in Nat
  BY <1>1
<1> HIDE DEF S
<1>3. PICK p \in S : \A q \in S : q <= p
  BY <1>2, Greatest
<1>4. Max(S) \in S /\ \A q \in S : Max(S) >= q
  <2>1. \A q \in S : p >= q
    BY <1>2, <1>3
  <2> QED  BY <2>1 DEF Max
<1>5. LastOf(recs, k) = recs[Max(S)]
  BY <1>2 DEF LastOf, S
<1> QED  BY <1>1, <1>2, <1>4, <1>5

\* What a flush writes of a table: of each key the record inserted last.
LEMMA SurvivorsAre ==
    ASSUME NEW recs \in Seq(Ops)
    PROVE  /\ Survivors(recs) \subseteq Ops
           /\ \A r \in Survivors(recs) : \E m \in 1 .. Len(recs) :
                 /\ recs[m] = r
                 /\ \A i \in 1 .. Len(recs) : recs[i].key = r.key => i <= m
           /\ \A h \in 1 .. Len(recs) : \E r \in Survivors(recs) : r.key = recs[h].key
           /\ \A a, b \in Survivors(recs) : a.key = b.key => a = b
<1> DEFINE K == {r.key : r \in Range(recs)}
<1>1. \A k : k \in K <=> \E h \in 1 .. Len(recs) : recs[h].key = k
  BY DEF Range
<1>2. Survivors(recs) = {LastOf(recs, k) : k \in K}
  BY DEF Survivors
<1> HIDE DEF K
<1>3. ASSUME NEW k \in K
      PROVE  \E m \in 1 .. Len(recs) :
                /\ LastOf(recs, k) = recs[m] /\ recs[m].key = k /\ LastOf(recs, k).key = k
                /\ \A i \in 1 .. Len(recs) : recs[i].key = k => i <= m
  <2>1. PICK h \in 1 .. Len(recs) : recs[h].key = k
    BY <1>1
  <2>2. PICK m \in 1 .. Len(recs) :
                /\ LastOf(recs, k) = recs[m] /\ recs[m].key = k
                /\ \A i \in 1 .. Len(recs) : recs[i].key = k => i <= m
    BY <2>1, LastOfIs
  <2> QED  BY <2>2
<1>4. \A r \in Survivors(recs) : r.key \in K /\ r = LastOf(recs, r.key)
  BY <1>2, <1>3
<1>5. ASSUME NEW r \in Survivors(recs)
      PROVE  \E m \in 1 .. Len(recs) :
                /\ recs[m] = r
                /\ \A i \in 1 .. Len(recs) : recs[i].key = r.key => i <= m
  BY <1>3, <1>4
<1>6. ASSUME NEW h \in 1 .. Len(recs) PROVE \E r \in Survivors(recs) : r.key = recs[h].key
  <2>1. recs[h].key \in K
    BY <1>1
  <2> QED  BY <1>2, <1>3, <2>1
<1>7. Survivors(recs) \subseteq Ops
  BY <1>5, ElementOfSeq
<1> QED  BY <1>4, <1>5, <1>6, <1>7

LEMMA RemoveAtIs ==
    ASSUME NEW S, NEW s \in Seq(S), NEW i \in 1 .. Len(s)
    PROVE  /\ RemoveAt(s, i) \in Seq(S) /\ Len(RemoveAt(s, i)) = Len(s) - 1
           /\ \A j \in 1 .. Len(s) - 1 :
                 RemoveAt(s, i)[j] = IF j < i THEN s[j] ELSE s[j + 1]
<1> DEFINE a == SubSeq(s, 1, i - 1)
           b == SubSeq(s, i + 1, Len(s))
<1>1. Len(s) \in Nat /\ i \in Nat /\ 1 <= i /\ i <= Len(s)
  OBVIOUS
<1>2. a \in Seq(S) /\ Len(a) = i - 1 /\ \A j \in 1 .. i - 1 : a[j] = s[j]
  <2>1. \A j \in 1 .. i - 1 : s[j] \in S
    BY <1>1, ElementOfSeq
  <2>2. /\ a \in Seq(S) /\ Len(a) = IF 1 <= i - 1 THEN (i - 1) - 1 + 1 ELSE 0
        /\ \A j \in 1 .. (i - 1) - 1 + 1 : a[j] = s[1 + j - 1]
    BY <1>1, <2>1, SubSeqProperties
  <2> HIDE DEF a
  <2> QED  BY <1>1, <2>2
<1>3. b \in Seq(S) /\ Len(b) = Len(s) - i /\ \A j \in 1 .. Len(s) - i : b[j] = s[i + j]
  <2>1. \A j \in i + 1 .. Len(s) : s[j] \in S
    BY <1>1, ElementOfSeq
  <2>2. /\ b \in Seq(S) /\ Len(b) = IF i + 1 <= Len(s) THEN Len(s) - (i + 1) + 1 ELSE 0
        /\ \A j \in 1 .. Len(s) - (i + 1) + 1 : b[j] = s[(i + 1) + j - 1]
    BY <1>1, <2>1, SubSeqProperties
  <2> HIDE DEF b
  <2> QED  BY <1>1, <2>2
<1> HIDE DEF a, b
<1>4. /\ a \o b \in Seq(S) /\ Len(a \o b) = Len(a) + Len(b)
      /\ \A j \in 1 .. Len(a) + Len(b) : (a \o b)[j] = IF j <= Len(a) THEN a[j] ELSE b[j - Len(a)]
  BY <1>2, <1>3, ConcatProperties
<1>5. Len(a) + Len(b) = Len(s) - 1
  BY <1>1, <1>2, <1>3
<1>6. ASSUME NEW j \in 1 .. Len(s) - 1 PROVE (a \o b)[j] = IF j < i THEN s[j] ELSE s[j + 1]
  <2>1. CASE j < i
    BY <1>1, <1>2, <1>4, <1>5, <2>1
  <2>2. CASE ~ (j < i)
    <3>1. j - (i - 1) \in 1 .. Len(s) - i /\ i + (j - (i - 1)) = j + 1 /\ ~ (j <= i - 1)
      BY <1>1, <2>2
    <3> QED  BY <1>1, <1>2, <1>3, <1>4, <1>5, <2>2, <3>1
  <2> QED  BY <2>1, <2>2
<1> QED  BY <1>4, <1>5, <1>6 DEF RemoveAt, a, b

LEMMA OneMore ==
    ASSUME NEW S, NEW s \in Seq(S), NEW x \in S
    PROVE  /\ s \o <<x>> = Append(s, x)
           /\ Append(s, x) \in Seq(S) /\ Len(Append(s, x)) = Len(s) + 1
           /\ \A i \in 1 .. Len(s) : Append(s, x)[i] = s[i]
           /\ Append(s, x)[Len(s) + 1] = x
BY AppendProperties, AppendIsConcat

LEMMA Appended ==
    ASSUME NEW S, NEW s \in Seq(S), NEW x \in S
    PROVE  \A i \in 1 .. Len(Append(s, x)) :
              \/ i \in 1 .. Len(s) /\ Append(s, x)[i] = s[i]
              \/ i = Len(s) + 1 /\ Append(s, x)[i] = x
BY OneMore

-----------------------------------------------------------------------------
(* The directory.                                                          *)

LEMMA LargestNumber ==
    ASSUME NEW S, S \subseteq {0} \X Nat, IsFiniteSet(S), S # {}
    PROVE  \E n \in S : \A m \in S : m[2] <= n[2]
<1> DEFINE R == {p \in S \X S : p[1][2] > p[2][2]}
<1>1. \A x, y \in S : <<x, y>> \in R <=> x[2] > y[2]
  OBVIOUS
<1>2. \A x \in S : x[2] \in Nat /\ x = <<0, x[2]>>
  OBVIOUS
<1> HIDE DEF R
<1>3. Orders(R, S)
  BY <1>1, <1>2 DEF Orders
<1>4. Cardinality(S) \in Nat /\ Cardinality(S) # 0
  BY FS_CardinalityType, FS_EmptySet
<1>5. PICK n \in S : Cardinality(InFront(R, S, n)) = 0
  <2>1. \A i \in 0 .. Cardinality(S) - 1 : \E x \in S : Cardinality(InFront(R, S, x)) = i
    BY <1>3, RanksTaken
  <2> QED  BY <1>4, <2>1
<1>6. InFront(R, S, n) = {}
  <2>1. InFront(R, S, n) \in SUBSET S
    BY DEF InFront
  <2>2. IsFiniteSet(InFront(R, S, n))
    BY <2>1, FS_Subset
  <2> QED  BY <1>5, <2>2, FS_EmptySet
<1>7. \A m \in S : ~ (m[2] > n[2])
  BY <1>1, <1>6 DEF InFront
<1> QED  BY <1>2, <1>7

\* The merge takes of each key a record of the input with the greatest number.
LEMMA WinnerFrom ==
    ASSUME Typed, Merging, NEW k, NEW o \in merge.in, NEW a \in files[o].recs, a.key = k
    PROVE  \E n \in merge.in :
              /\ Winner(k) = CHOOSE r \in files[n].recs : r.key = k
              /\ Winner(k) \in files[n].recs /\ Winner(k).key = k
              /\ \A m \in merge.in : (\E r \in files[m].recs : r.key = k) => m[2] <= n[2]
<1> DEFINE having == {n \in merge.in : \E r \in files[n].recs : r.key = k}
           N == CHOOSE n \in having : \A m \in having : m[2] <= n[2]
<1>1. having \subseteq merge.in /\ o \in having
  OBVIOUS
<1>2. merge.in \subseteq L0Names /\ L0Names \subseteq Names /\ merge.in \subseteq {0} \X Nat
  BY DEF Merging, L0Names, Typed
<1>3. IsFiniteSet(having)
  <2>1. having \in SUBSET Names /\ IsFiniteSet(Names)
    BY <1>1, <1>2 DEF Typed, Names
  <2> QED  BY <2>1, FS_Subset
<1>4. Winner(k) = CHOOSE r \in files[N].recs : r.key = k
  BY DEF Winner
<1>5. \A n \in merge.in : n \in having <=> \E r \in files[n].recs : r.key = k
  OBVIOUS
<1> HIDE DEF having
<1>6. N \in having /\ \A m \in having : m[2] <= N[2]
  <2>1. having \subseteq {0} \X Nat
    BY <1>1, <1>2
  <2>2. \E n \in having : \A m \in having : m[2] <= n[2]
    BY <1>1, <1>3, <2>1, LargestNumber
  <2> QED  BY <2>2
<1> HIDE DEF N
<1>7. Winner(k) \in files[N].recs /\ Winner(k).key = k
  <2>1. \E r \in files[N].recs : r.key = k
    BY <1>1, <1>5, <1>6
  <2> QED  BY <1>4, <2>1
<1> QED  BY <1>1, <1>4, <1>5, <1>6, <1>7

LEMMA WinnerIs ==
    ASSUME Typed, Merging, NEW o \in merge.in, NEW a \in files[o].recs
    PROVE  \E n \in merge.in :
              /\ Winner(a.key) \in files[n].recs /\ Winner(a.key).key = a.key /\ o[2] <= n[2]
BY WinnerFrom

LEMMA MergedAre ==
    ASSUME Typed, Merging
    PROVE  /\ Merged \subseteq Ops
           /\ \A r \in Merged : ~ r.del /\ r = Winner(r.key) /\ \E n \in merge.in : r \in files[n].recs
           /\ \A n \in merge.in : \A a \in files[n].recs :
                 ~ Winner(a.key).del => Winner(a.key) \in Merged
<1> DEFINE K == {r.key : r \in UNION {files[n].recs : n \in merge.in}}
<1>1. \A k : k \in K <=> \E n \in merge.in : \E a \in files[n].recs : a.key = k
  OBVIOUS
<1>2. Merged = {r \in {Winner(k) : k \in K} : ~ r.del}
  BY DEF Merged
<1> HIDE DEF K
<1>3. ASSUME NEW k \in K PROVE Winner(k).key = k /\ \E n \in merge.in : Winner(k) \in files[n].recs
  BY <1>1, WinnerIs
<1>4. \A r \in Merged : ~ r.del /\ r = Winner(r.key) /\ \E n \in merge.in : r \in files[n].recs
  BY <1>2, <1>3
<1>5. \A n \in merge.in : files[n].recs \subseteq Ops
  BY DEF Typed, Merging, L0Names
<1>6. \A n \in merge.in : \A a \in files[n].recs : ~ Winner(a.key).del => Winner(a.key) \in Merged
  BY <1>1, <1>2
<1> QED  BY <1>4, <1>5, <1>6

-----------------------------------------------------------------------------
(* Types are kept.                                                         *)

LEMMA TableIs ==
    ASSUME LifecycleAssumption, NEW w \in Nat, NEW recs \in Seq(Ops)
    PROVE  /\ Table(w, recs) \in [wal : Nat, recs : Seq(Ops), full : BOOLEAN]
           /\ Table(w, recs).wal = w /\ Table(w, recs).recs = recs
           /\ Table(w, recs).full <=> (Len(recs) >= Threshold)
<1> DEFINE b == Len(recs) >= Threshold
<1>1. b \in BOOLEAN
  OBVIOUS
<1>2. Table(w, recs) = [wal |-> w, recs |-> recs, full |-> b]
  BY DEF Table
<1>3. b <=> Len(recs) >= Threshold
  OBVIOUS
<1> HIDE DEF b
<1>4. /\ Table(w, recs) \in [wal : Nat, recs : Seq(Ops), full : BOOLEAN]
      /\ Table(w, recs).wal = w /\ Table(w, recs).recs = recs /\ Table(w, recs).full = b
  BY <1>1, <1>2
<1> QED  BY <1>3, <1>4

LEMMA EndTyped ==
    ASSUME Typed, ProcessEnds, UNCHANGED <<dirVars, latest, bounds>>
    PROVE  Typed'
<1>1. /\ NoTable \in [wal : Nat, recs : Seq(Ops), full : BOOLEAN]
      /\ NoMerge \in [step : {"none", "write", "remove"}, in : SUBSET ({0} \X Nat), out : {1} \X Nat]
  BY DEF NoTable, NoMerge
<1> QED  BY <1>1 DEF Typed, ProcessEnds, Names, dirVars, bounds

LEMMA OpenTyped ==
    ASSUME LifecycleAssumption, Typed, Open
    PROVE  Typed'
<1>1. /\ now' \in Nat /\ now' = now + 1
      /\ readers' = [i \in 1 .. Len(NamesInOrder) |-> Reader(NamesInOrder[i], files[NamesInOrder[i]].recs)]
      /\ gen' = MaxSSTableId /\ active' = Table(now', <<>>) /\ wals' = WithWal(now', <<>>)
      /\ todo' = WalsInOrder /\ phase' = IF todo' = <<>> THEN "up" ELSE "replay"
      /\ UNCHANGED <<files, imms, doomed, done, merge, history, puts, rounds>>
  BY DEF Typed, Open
<1>2. active' \in [wal : Nat, recs : Seq(Ops), full : BOOLEAN]
  <2>1. <<>> \in Seq(Ops)
    BY EmptySeq
  <2> QED  BY <1>1, <2>1, TableIs
<1>3. /\ DOMAIN wals' \subseteq Nat /\ IsFiniteSet(DOMAIN wals')
      /\ \A w \in DOMAIN wals' : wals'[w] \in Seq(Ops)
  <2> DEFINE x == IF now' \in DOMAIN wals THEN wals[now'] \o <<>> ELSE <<>>
  <2>1. wals' = With(wals, now', x)
    BY <1>1 DEF WithWal
  <2>2. x \in Seq(Ops)
    BY EmptySeq DEF Typed
  <2> HIDE DEF x
  <2>3. DOMAIN wals' = DOMAIN wals \cup {now'} /\ wals'[now'] = x
        /\ \A z \in DOMAIN wals : z # now' => wals'[z] = wals[z]
    BY <2>1 DEF With
  <2>4. IsFiniteSet(DOMAIN wals')
    <3>1. IsFiniteSet(DOMAIN wals)
      BY DEF Typed
    <3>2. IsFiniteSet(DOMAIN wals \cup {now'})
      BY <3>1, FS_AddElement
    <3> QED  BY <2>3, <3>2
  <2> QED  BY <1>1, <2>2, <2>3, <2>4 DEF Typed
<1>4. readers' \in Seq([name : {0, 1} \X Nat, recs : SUBSET Ops])
  <2> DEFINE s == NamesInOrder
             N == Len(s)
  <2>1. s \in Seq(Names) /\ N \in Nat
    BY NamesInOrderIs
  <2>2. readers' = [i \in 1 .. N |-> [name |-> s[i], recs |-> files[s[i]].recs]]
    BY <1>1 DEF Reader
  <2>3. \A i \in 1 .. N : s[i] \in Names
    BY <2>1
  <2> DEFINE rec(i) == [name |-> s[i], recs |-> files[s[i]].recs]
  <2> HIDE DEF s, N
  <2>4. \A i \in 1 .. N : rec(i) \in [name : {0, 1} \X Nat, recs : SUBSET Ops]
    BY <2>3 DEF Typed, Names
  <2> HIDE DEF rec
  <2>5. [i \in 1 .. N |-> rec(i)] \in Seq([name : {0, 1} \X Nat, recs : SUBSET Ops])
    BY <2>1, <2>4
  <2> QED  BY <2>2, <2>5 DEF rec
<1>5. gen' \in Nat
  BY <1>1, MaxSSTableIdIsNumber
<1>6. todo' \in Seq(Nat)
  BY <1>1, WalsInOrderIs, SeqMonotonic DEF Typed
<1>7. phase' \in {"down", "replay", "up", "closing"}
  BY <1>1
<1> QED  BY <1>1, <1>2, <1>3, <1>4, <1>5, <1>6, <1>7 DEF Typed, Names, history

LEMMA ReplayTyped ==
    ASSUME LifecycleAssumption, Typed, Clocked, Phases, ReplayRecord
    PROVE  Typed'
<1>1. todo # <<>> /\ todo \in Seq(Nat) /\ todo[1] \in DOMAIN wals /\ active.wal \in DOMAIN wals
  <2>1. todo \in Seq(Nat) /\ todo # <<>> /\ phase = "replay"
    BY DEF Typed, Phases, ReplayRecord
  <2>2. 1 \in 1 .. Len(todo)
    BY <2>1
  <2> QED  BY <2>1, <2>2 DEF Clocked
<1> DEFINE r == wals[todo[1]][done + 1]
<1>2. r \in Ops
  <2>1. wals[todo[1]] \in Seq(Ops) /\ done + 1 \in 1 .. Len(wals[todo[1]])
    <3>1. wals[todo[1]] \in Seq(Ops) /\ done \in Nat
      BY <1>1 DEF Typed
    <3>2. done < Len(wals[todo[1]])
      BY DEF ReplayRecord
    <3> QED  BY <3>1, <3>2
  <2> QED  BY <2>1, ElementOfSeq
<1>3. active' = Table(active.wal, Append(active.recs, r)) /\ wals' = [wals EXCEPT ![active.wal] = Append(@, r)]
      /\ done' = done + 1
      /\ UNCHANGED <<files, phase, imms, doomed, readers, gen, todo, merge, history, bounds>>
  BY DEF ReplayRecord
<1> HIDE DEF r
<1>4. active' \in [wal : Nat, recs : Seq(Ops), full : BOOLEAN]
  <2>1. Append(active.recs, r) \in Seq(Ops) /\ active.wal \in Nat
    BY <1>2 DEF Typed
  <2> QED  BY <1>3, <2>1, TableIs
<1>5. DOMAIN wals' = DOMAIN wals /\ \A w \in DOMAIN wals : wals'[w] \in Seq(Ops)
  <2>1. \A w \in DOMAIN wals : wals[w] \in Seq(Ops) /\ Append(wals[w], r) \in Seq(Ops)
    BY <1>2 DEF Typed
  <2> QED  BY <1>1, <1>3, <2>1
<1>6. DOMAIN wals' \subseteq Nat /\ IsFiniteSet(DOMAIN wals') /\ done' \in Nat
  BY <1>3, <1>5 DEF Typed
<1> QED  BY <1>3, <1>4, <1>5, <1>6 DEF Typed, Names, history, bounds

LEMMA ReplayedTyped ==
    ASSUME Typed, Clocked, Phases, RemoveReplayedWal
    PROVE  Typed'
<1> USE DEF RemoveReplayedWal
<1>1. todo \in Seq(Nat) /\ todo # <<>>
  BY DEF Typed, Phases
<1>2. todo' \in Seq(Nat)
  BY <1>1, HeadTailProperties
<1>3. DOMAIN wals' = DOMAIN wals \ {todo[1]} /\ \A w \in DOMAIN wals' : wals'[w] = wals[w]
  BY DEF Without
<1>4. DOMAIN wals' \subseteq Nat /\ IsFiniteSet(DOMAIN wals') /\ \A w \in DOMAIN wals' : wals'[w] \in Seq(Ops)
  <2>1. IsFiniteSet(DOMAIN wals)
    BY DEF Typed
  <2>2. IsFiniteSet(DOMAIN wals \ {todo[1]})
    BY <2>1, FS_RemoveElement
  <2> QED  BY <1>3, <2>2 DEF Typed
<1> QED  BY <1>2, <1>4 DEF Typed, Names, memVars, history, bounds

LEMMA PutIs ==
    ASSUME LifecycleAssumption, Typed, PutOrRemove
    PROVE  \E r \in Ops : r.ver = puts + 1 /\ (Put(r) \/ PutInNewTable(r))
<1>1. PICK k \in Keys, d \in Deletes :
          LET r == [key |-> k, ver |-> puts + 1, del |-> d] IN Put(r) \/ PutInNewTable(r)
  BY DEF PutOrRemove
<1> DEFINE r == [key |-> k, ver |-> puts + 1, del |-> d]
<1>2. puts < MaxPuts /\ puts + 1 \in 1 .. MaxPuts
  BY DEF PutOrRemove, Typed, LifecycleAssumption
<1>3. r \in Ops /\ r.ver = puts + 1 /\ r.key = k
  BY <1>2 DEF Ops, LifecycleAssumption
<1>4. Put(r) \/ PutInNewTable(r)
  BY <1>1
<1> HIDE DEF r
<1> QED  BY <1>3, <1>4

LEMMA PutTyped ==
    ASSUME LifecycleAssumption, Typed, PutOrRemove
    PROVE  Typed'
<1>2. puts < MaxPuts /\ puts + 1 \in 1 .. MaxPuts
  BY DEF PutOrRemove, Typed, LifecycleAssumption
<1>3. PICK r \in Ops : r.ver = puts + 1 /\ (Put(r) \/ PutInNewTable(r))
  BY PutIs
<1>4. Put(r) \/ PutInNewTable(r)
  BY <1>3
<1>5. /\ puts' \in 0 .. MaxPuts
      /\ latest' \in [Keys -> [key : Keys, ver : 0 .. MaxPuts, del : BOOLEAN]]
      /\ UNCHANGED <<files, phase, doomed, readers, gen, startVars, merge, starts, rounds, mishaps>>
  <2>1. Store(r)
    BY <1>4 DEF Put, PutInNewTable
  <2>2. r \in [key : Keys, ver : 0 .. MaxPuts, del : BOOLEAN]
    BY <1>3 DEF Ops
  <2>3. latest' = [latest EXCEPT ![r.key] = r]
    BY <2>1 DEF Store
  <2>4. puts' \in 0 .. MaxPuts
    BY <1>2, <1>3, <2>1 DEF Store, LifecycleAssumption
  <2> QED  BY <2>1, <2>2, <2>3, <2>4 DEF Typed, Store
<1>6. \A w \in Nat : \A u :
         u = WithWal(w, <<r>>) =>
             /\ DOMAIN u \subseteq Nat /\ IsFiniteSet(DOMAIN u)
             /\ \A v \in DOMAIN u : u[v] \in Seq(Ops)
  <2> TAKE w \in Nat
  <2> DEFINE x == IF w \in DOMAIN wals THEN wals[w] \o <<r>> ELSE <<r>>
  <2>1. WithWal(w, <<r>>) = With(wals, w, x)
    BY DEF WithWal
  <2>2. x \in Seq(Ops)
    BY <1>3 DEF Typed
  <2> HIDE DEF x
  <2> DEFINE u == With(wals, w, x)
  <2>3. DOMAIN u = DOMAIN wals \cup {w} /\ u[w] = x /\ \A z \in DOMAIN wals : z # w => u[z] = wals[z]
    BY DEF With
  <2> HIDE DEF u
  <2>4. IsFiniteSet(DOMAIN u)
    <3>1. IsFiniteSet(DOMAIN wals)
      BY DEF Typed
    <3>2. IsFiniteSet(DOMAIN wals \cup {w})
      BY <3>1, FS_AddElement
    <3> QED  BY <2>3, <3>2
  <2>5. DOMAIN u \subseteq Nat /\ IsFiniteSet(DOMAIN u) /\ \A v \in DOMAIN u : u[v] \in Seq(Ops)
    BY <2>2, <2>3, <2>4 DEF Typed
  <2> QED  BY <2>1, <2>5 DEF u
<1>7. /\ active' \in [wal : Nat, recs : Seq(Ops), full : BOOLEAN]
      /\ imms' \in Seq(Tables) /\ now' \in Nat
      /\ DOMAIN wals' \subseteq Nat /\ IsFiniteSet(DOMAIN wals') /\ \A v \in DOMAIN wals' : wals'[v] \in Seq(Ops)
  <2>1. CASE Put(r)
    <3>1. Append(active.recs, r) \in Seq(Ops) /\ active.wal \in Nat
      BY <1>3 DEF Typed
    <3>2. active' \in [wal : Nat, recs : Seq(Ops), full : BOOLEAN]
      BY <2>1, <3>1, TableIs DEF Put
    <3> QED  BY <1>6, <2>1, <3>1, <3>2 DEF Put, Typed
  <2>2. CASE PutInNewTable(r)
    <3>1. PICK w \in WalNames : active' = Table(w, <<r>>) /\ wals' = WithWal(w, <<r>>) /\ now' = w
      BY <2>2 DEF PutInNewTable
    <3>2. w \in Nat
      BY DEF WalNames, Typed
    <3>3. <<r>> \in Seq(Ops)
      BY <1>3
    <3>4. Unflushed(active) \in Tables
      BY DEF Unflushed, Typed, Tables
    <3>5. imms' \in Seq(Tables)
      BY <2>2, <3>4 DEF PutInNewTable, Typed
    <3> QED  BY <1>6, <3>1, <3>2, <3>3, <3>5, TableIs
  <2> QED  BY <1>4, <2>1, <2>2
<1> QED  BY <1>5, <1>7 DEF Typed, Names, startVars

\* What a flush or a compaction does to the directory when it opens its file.
LEMMA CreateTyped ==
    ASSUME Typed, NEW n \in {0, 1} \X Nat, CreateFile(n)
    PROVE  /\ DOMAIN files' \subseteq {0, 1} \X Nat /\ IsFiniteSet(DOMAIN files')
           /\ \A m \in DOMAIN files' : files'[m] \in [recs : SUBSET Ops, whole : BOOLEAN]
           /\ readers' \in Seq([name : {0, 1} \X Nat, recs : SUBSET Ops])
           /\ gen' \in Nat
           /\ DOMAIN files' = DOMAIN files \cup {n} /\ files'[n] = [recs |-> {}, whole |-> FALSE]
           /\ \A m \in DOMAIN files : m # n => files'[m] = files[m]
<1>1. /\ DOMAIN files' = DOMAIN files \cup {n} /\ files'[n] = [recs |-> {}, whole |-> FALSE]
      /\ \A m \in DOMAIN files : m # n => files'[m] = files[m]
  BY DEF With, CreateFile
<1>2. IsFiniteSet(DOMAIN files')
  <2>1. IsFiniteSet(DOMAIN files)
    BY DEF Typed
  <2>2. IsFiniteSet(DOMAIN files \cup {n})
    BY <2>1, FS_AddElement
  <2> QED  BY <1>1, <2>2
<1>3. \A m \in DOMAIN files' : files'[m] \in [recs : SUBSET Ops, whole : BOOLEAN]
  <2>1. [recs |-> {}, whole |-> FALSE] \in [recs : SUBSET Ops, whole : BOOLEAN]
    OBVIOUS
  <2> QED  BY <1>1, <2>1 DEF Typed, Names
<1>4. readers' \in Seq([name : {0, 1} \X Nat, recs : SUBSET Ops])
  <2> DEFINE x(i) == IF readers[i].name = n THEN Reader(n, {}) ELSE readers[i]
  <2>1. readers' = [i \in 1 .. Len(readers) |-> x(i)]
    BY DEF CreateFile
  <2>2. readers \in Seq([name : {0, 1} \X Nat, recs : SUBSET Ops])
    BY DEF Typed
  <2>3. \A i \in 1 .. Len(readers) : x(i) \in [name : {0, 1} \X Nat, recs : SUBSET Ops]
    <3>1. Reader(n, {}) \in [name : {0, 1} \X Nat, recs : SUBSET Ops]
      BY DEF Reader
    <3>2. \A i \in 1 .. Len(readers) : readers[i] \in [name : {0, 1} \X Nat, recs : SUBSET Ops]
      BY <2>2, ElementOfSeq
    <3> QED  BY <3>1, <3>2
  <2> HIDE DEF x
  <2> QED  BY <2>1, <2>2, <2>3
<1> QED  BY <1>1, <1>2, <1>3, <1>4 DEF Typed, CreateFile

LEMMA BeginTyped ==
    ASSUME Typed, NEW i \in 1 .. Len(imms), FlushBegins(i)
    PROVE  /\ Typed'
           /\ imms' = [imms EXCEPT ![i] = [wal |-> imms[i].wal, recs |-> imms[i].recs,
                                           step |-> "write", name |-> <<0, gen + 1>>]]
<1> DEFINE e == [wal |-> imms[i].wal, recs |-> imms[i].recs, step |-> "write", name |-> <<0, gen + 1>>]
<1>1. imms \in Seq(Tables) /\ gen + 1 \in Nat /\ imms[i] \in Tables
  BY DEF Typed
<1>2. e \in Tables
  BY <1>1 DEF Tables
<1>3. imms' = [imms EXCEPT ![i] = e]
  <2>1. imms' = [imms EXCEPT ![i].step = "write", ![i].name = <<0, gen + 1>>]
    BY DEF FlushBegins
  <2> DEFINE n == <<0, gen + 1>>
             a == [imms[i] EXCEPT !.step = "write"]
             b == [a EXCEPT !.name = n]
             f == [imms EXCEPT ![i] = a]
  <2>2. PICK w, recs, st, m : imms[i] = [wal |-> w, recs |-> recs, step |-> st, name |-> m]
    <3>1. imms[i] = [wal |-> imms[i].wal, recs |-> imms[i].recs, step |-> imms[i].step, name |-> imms[i].name]
      BY <1>1 DEF Tables
    <3> QED  BY <3>1
  <2>3. a = [wal |-> w, recs |-> recs, step |-> "write", name |-> m]
    BY <2>2
  <2> HIDE DEF n
  <2>4. b = [wal |-> w, recs |-> recs, step |-> "write", name |-> n]
    <3> HIDE DEF a
    <3> QED  BY <2>3
  <2>5. b = e
    BY <2>2, <2>4 DEF n
  <2>6. imms' = [f EXCEPT ![i] = b]
    BY <1>1, <2>1 DEF n
  <2>7. [f EXCEPT ![i] = b] = [imms EXCEPT ![i] = b]
    <3> HIDE DEF a, b
    <3> QED  OBVIOUS
  <2> QED  BY <2>5, <2>6, <2>7
<1> HIDE DEF e
<1>4. imms' \in Seq(Tables)
  BY <1>1, <1>2, <1>3, ExceptSeq
<1>5. <<0, gen + 1>> \in {0, 1} \X Nat /\ CreateFile(<<0, gen + 1>>)
  BY <1>1 DEF FlushBegins
<1>6. /\ DOMAIN files' \subseteq {0, 1} \X Nat /\ IsFiniteSet(DOMAIN files')
      /\ \A m \in DOMAIN files' : files'[m] \in [recs : SUBSET Ops, whole : BOOLEAN]
      /\ readers' \in Seq([name : {0, 1} \X Nat, recs : SUBSET Ops])
      /\ gen' \in Nat
  BY <1>5, CreateTyped
<1>7. Typed'
  BY <1>4, <1>6 DEF FlushBegins, Typed, Names, startVars, bounds
<1> QED  BY <1>3, <1>7 DEF e

LEMMA FinishTyped ==
    ASSUME Typed, NEW i \in 1 .. Len(imms), FlushFinishes(i)
    PROVE  Typed'
<1> USE DEF FlushFinishes, FinishFile
<1>1. imms \in Seq(Tables) /\ imms[i] \in Tables
  BY DEF Typed
<1>2. Survivors(imms[i].recs) \subseteq Ops
  BY <1>1, SurvivorsAre DEF Tables
<1> DEFINE recs == Survivors(imms[i].recs)
           n == imms[i].name
<1>3. imms[i].wal \in Nat /\ n \in {0, 1} \X Nat
  BY <1>1 DEF Tables
<1>4. files' = [files EXCEPT ![n] = [recs |-> recs, whole |-> TRUE]]
      /\ readers' = <<[name |-> n, recs |-> recs]>> \o readers
  BY DEF Reader
<1>5. imms' \in Seq(Tables)
  BY <1>1, RemoveAtIs
<1> HIDE DEF recs, n
<1>6. readers' \in Seq([name : {0, 1} \X Nat, recs : SUBSET Ops])
  <2>1. <<[name |-> n, recs |-> recs]>> \in Seq([name : {0, 1} \X Nat, recs : SUBSET Ops])
    BY <1>2, <1>3 DEF recs
  <2> QED  BY <1>4, <2>1 DEF Typed
<1>7. DOMAIN files' = DOMAIN files /\ \A m \in Names : files'[m] \in [recs : SUBSET Ops, whole : BOOLEAN]
  BY <1>2, <1>4 DEF Typed, Names, recs
<1> QED  BY <1>3, <1>5, <1>6, <1>7 DEF Typed, Names, startVars, history, bounds

LEMMA ThrowTyped ==
    ASSUME Typed, NEW i \in 1 .. Len(imms), FlushThrows(i)
    PROVE  /\ Typed'
           /\ imms' = [imms EXCEPT ![i] = [wal |-> imms[i].wal, recs |-> imms[i].recs,
                                           step |-> "failed", name |-> imms[i].name]]
<1> DEFINE e == [wal |-> imms[i].wal, recs |-> imms[i].recs, step |-> "failed", name |-> imms[i].name]
<1>1. imms \in Seq(Tables) /\ imms[i] \in Tables
  BY DEF Typed
<1>2. e \in Tables
  BY <1>1 DEF Tables
<1>3. imms' = [imms EXCEPT ![i] = e]
  <2>1. imms' = [imms EXCEPT ![i].step = "failed"]
    BY DEF FlushThrows
  <2> DEFINE a == [imms[i] EXCEPT !.step = "failed"]
  <2>2. PICK w, recs, st, m : imms[i] = [wal |-> w, recs |-> recs, step |-> st, name |-> m]
    <3>1. imms[i] = [wal |-> imms[i].wal, recs |-> imms[i].recs, step |-> imms[i].step, name |-> imms[i].name]
      BY <1>1 DEF Tables
    <3> QED  BY <3>1
  <2>3. a = [wal |-> w, recs |-> recs, step |-> "failed", name |-> m]
    BY <2>2
  <2>4. a = e
    BY <2>2, <2>3
  <2>5. imms' = [imms EXCEPT ![i] = a]
    BY <1>1, <2>1
  <2> QED  BY <2>4, <2>5
<1> HIDE DEF e
<1>4. imms' \in Seq(Tables)
  BY <1>1, <1>2, <1>3, ExceptSeq
<1>5. Typed'
  BY <1>4 DEF FlushThrows, Typed, Names, dirVars, startVars, history, bounds
<1> QED  BY <1>3, <1>5 DEF e

LEMMA MergeBeginTyped ==
    ASSUME Typed, MergeBegins
    PROVE  Typed'
<1>1. <<1, gen + 1>> \in {0, 1} \X Nat /\ CreateFile(<<1, gen + 1>>)
  BY DEF Typed, MergeBegins
<1>2. /\ DOMAIN files' \subseteq {0, 1} \X Nat /\ IsFiniteSet(DOMAIN files')
      /\ \A m \in DOMAIN files' : files'[m] \in [recs : SUBSET Ops, whole : BOOLEAN]
      /\ readers' \in Seq([name : {0, 1} \X Nat, recs : SUBSET Ops])
      /\ gen' \in Nat
  BY <1>1, CreateTyped
<1>3. merge' \in [step : {"none", "write", "remove"}, in : SUBSET ({0} \X Nat), out : {1} \X Nat]
  <2>1. L0Names \subseteq {0} \X Nat
    BY DEF L0Names, Names, Typed
  <2>2. <<1, gen + 1>> \in {1} \X Nat
    BY DEF Typed
  <2> QED  BY <2>1, <2>2 DEF MergeBegins
<1> QED  BY <1>2, <1>3 DEF MergeBegins, Typed, Names, startVars

LEMMA MergeWriteTyped ==
    ASSUME Typed, Merging, MergeWrites
    PROVE  Typed'
<1>1. Merged \subseteq Ops
  BY MergedAre
<1>2. DOMAIN files' = DOMAIN files /\ \A m \in Names : files'[m] \in [recs : SUBSET Ops, whole : BOOLEAN]
  BY <1>1 DEF MergeWrites, Typed, Names
<1>3. merge' \in [step : {"none", "write", "remove"}, in : SUBSET ({0} \X Nat), out : {1} \X Nat]
  BY DEF MergeWrites, Typed
<1> QED  BY <1>2, <1>3 DEF MergeWrites, Typed, Names, memVars, startVars, history, bounds

LEMMA MergeRemoveTyped ==
    ASSUME Typed, MergeRemoves
    PROVE  Typed'
<1>1. PICK n \in merge.in : files' = Without(files, n) /\ merge' = [merge EXCEPT !.in = @ \ {n}]
  BY DEF MergeRemoves
<1>2. DOMAIN files' = DOMAIN files \ {n} /\ \A m \in DOMAIN files' : files'[m] = files[m]
  BY <1>1 DEF Without
<1>3. IsFiniteSet(DOMAIN files')
  <2>1. IsFiniteSet(DOMAIN files)
    BY DEF Typed
  <2>2. IsFiniteSet(DOMAIN files \ {n})
    BY <2>1, FS_RemoveElement
  <2> QED  BY <1>2, <2>2
<1>4. merge' \in [step : {"none", "write", "remove"}, in : SUBSET ({0} \X Nat), out : {1} \X Nat]
  BY <1>1 DEF Typed
<1> QED  BY <1>2, <1>3, <1>4 DEF MergeRemoves, Typed, Names, memVars, startVars, history, bounds

LEMMA MergePublishTyped ==
    ASSUME Typed, Merging, MergePublishes
    PROVE  Typed'
<1>1. merge.out \in Names /\ merge.out \in {0, 1} \X Nat
  BY DEF Merging, MergePublishes, Typed
<1> DEFINE r == [name |-> merge.out, recs |-> files[merge.out].recs]
<1>2. r \in [name : {0, 1} \X Nat, recs : SUBSET Ops]
  BY <1>1 DEF Typed
<1>3. readers' = <<r>> \o readers
  BY DEF MergePublishes, Reader
<1> HIDE DEF r
<1>4. readers' \in Seq([name : {0, 1} \X Nat, recs : SUBSET Ops])
  BY <1>2, <1>3 DEF Typed
<1>5. merge' \in [step : {"none", "write", "remove"}, in : SUBSET ({0} \X Nat), out : {1} \X Nat]
  BY DEF MergePublishes, NoMerge
<1> QED  BY <1>4, <1>5 DEF MergePublishes, Typed, Names, dirVars, startVars, history, bounds

LEMMA DropTyped ==
    ASSUME Typed, DropWal
    PROVE  Typed'
<1>1. PICK w \in doomed : wals' = Without(wals, w) /\ doomed' = doomed \ {w}
  BY DEF DropWal
<1>2. DOMAIN wals' = DOMAIN wals \ {w} /\ \A v \in DOMAIN wals' : wals'[v] = wals[v]
  BY <1>1 DEF Without
<1>3. IsFiniteSet(DOMAIN wals')
  <2>1. IsFiniteSet(DOMAIN wals)
    BY DEF Typed
  <2>2. IsFiniteSet(DOMAIN wals \ {w})
    BY <2>1, FS_RemoveElement
  <2> QED  BY <1>2, <2>2
<1> QED  BY <1>1, <1>2, <1>3 DEF DropWal, Typed, Names, startVars, history, bounds

LEMMA CloseTyped ==
    ASSUME Typed, Close
    PROVE  Typed'
<1>1. Unflushed(active) \in Tables
  BY DEF Unflushed, Typed, Tables
<1>2. imms' \in Seq(Tables)
  BY <1>1 DEF Close, Typed
<1>3. active' \in [wal : Nat, recs : Seq(Ops), full : BOOLEAN]
  BY DEF Close, Typed
<1> QED  BY <1>2, <1>3 DEF Close, Typed, Names, dirVars, startVars, history, bounds

LEMMA TypedKept ==
    ASSUME LifecycleAssumption, Sound, [Next]_vars
    PROVE  Typed'
<1> USE DEF Sound
<1>1. CASE Open
  BY <1>1, OpenTyped
<1>2. CASE OpenThrows
  BY <1>2 DEF OpenThrows, Typed, Names, dirVars, memVars, startVars, history
<1>3. CASE ReplayRecord
  BY <1>3, ReplayTyped
<1>4. CASE ReplayThrows \/ Crash \/ Exit
  BY <1>4, EndTyped DEF ReplayThrows, Crash, Exit
<1>5. CASE RemoveReplayedWal
  BY <1>5, ReplayedTyped
<1>6. CASE PutOrRemove
  BY <1>6, PutTyped
<1>7. CASE \E i \in 1 .. Len(imms) : FlushBegins(i) \/ FlushFinishes(i) \/ FlushThrows(i)
  BY <1>7, BeginTyped, FinishTyped, ThrowTyped
<1>8. CASE DropWal
  BY <1>8, DropTyped
<1>9. CASE MergeBegins \/ MergeStep
  BY <1>9, MergeBeginTyped, MergeWriteTyped, MergeRemoveTyped, MergePublishTyped DEF MergeStep
<1>10. CASE Close
  BY <1>10, CloseTyped
<1>11. CASE UNCHANGED vars
  BY <1>11 DEF vars, Typed, Names, dirVars, memVars, startVars, history, bounds
<1> QED
  BY <1>1, <1>2, <1>3, <1>4, <1>5, <1>6, <1>7, <1>8, <1>9, <1>10, <1>11 DEF Next, ReplayStep, FlushStep

-----------------------------------------------------------------------------
(* The arena, the phases, the compaction.                                  *)

LEMMA RoomyKept ==
    ASSUME LifecycleAssumption, Sound, [Next]_vars
    PROVE  Roomy'
<1> USE DEF Sound
<1>1. CASE Open
  <2>1. active' = Table(now', <<>>) /\ now' \in Nat
    BY <1>1 DEF Open, Typed
  <2>2. active'.recs = <<>>
    BY <2>1 DEF Table
  <2> QED  BY <2>2 DEF Roomy, LifecycleAssumption
<1>2. CASE ReplayRecord
  <2>1. PICK r : active' = Table(active.wal, Append(active.recs, r))
    BY <1>2 DEF ReplayRecord
  <2>2. /\ active'.recs = Append(active.recs, r)
        /\ ~ active'.full => ~ (Len(Append(active.recs, r)) >= Threshold)
    BY <2>1 DEF Table
  <2>3. Len(Append(active.recs, r)) = Len(active.recs) + 1 /\ Len(active.recs) \in Nat
    BY DEF Typed
  <2> QED  BY <1>2, <2>2, <2>3 DEF ReplayRecord, Roomy, LifecycleAssumption
<1>3. CASE ReplayThrows \/ Crash \/ Exit
  <2>1. active' = NoTable
    BY <1>3 DEF ReplayThrows, Crash, Exit, ProcessEnds
  <2> QED  BY <2>1 DEF NoTable, Roomy, LifecycleAssumption
<1>4. CASE PutOrRemove
  <2>1. PICK r \in Ops : Put(r) \/ PutInNewTable(r)
    BY <1>4, PutIs
  <2>2. CASE Put(r)
    <3>1. active' = Table(active.wal, Append(active.recs, r)) /\ ~ active.full
      BY <2>2 DEF Put
    <3>2. /\ active'.recs = Append(active.recs, r)
          /\ ~ active'.full => ~ (Len(Append(active.recs, r)) >= Threshold)
      BY <3>1 DEF Table
    <3>3. Len(Append(active.recs, r)) = Len(active.recs) + 1 /\ Len(active.recs) \in Nat
      BY DEF Typed
    <3> QED  BY <3>1, <3>2, <3>3 DEF Roomy, LifecycleAssumption
  <2>3. CASE PutInNewTable(r)
    <3>1. PICK w : active' = Table(w, <<r>>)
      BY <2>3 DEF PutInNewTable
    <3>2. active'.recs = <<r>> /\ (~ active'.full => ~ (Len(<<r>>) >= Threshold))
      BY <3>1 DEF Table
    <3> QED  BY <3>2 DEF Roomy, LifecycleAssumption
  <2> QED  BY <2>1, <2>2, <2>3
<1>5. CASE Close
  <2>1. active' = [active EXCEPT !.full = TRUE]
    BY <1>5 DEF Close
  <2> QED  BY <2>1 DEF Roomy, Typed
<1>6. CASE UNCHANGED active
  BY <1>6 DEF Roomy
<1>7. CASE OpenThrows \/ RemoveReplayedWal \/ FlushStep \/ MergeBegins \/ MergeStep \/ UNCHANGED vars
  <2>1. UNCHANGED active
    BY <1>7 DEF OpenThrows, RemoveReplayedWal, FlushStep, FlushBegins, FlushFinishes, FlushThrows, DropWal,
                MergeBegins, MergeStep, MergeWrites, MergeRemoves, MergePublishes, vars, memVars
  <2> QED  BY <1>6, <2>1
<1> QED  BY <1>1, <1>2, <1>3, <1>4, <1>5, <1>7 DEF Next, ReplayStep

LEMMA PhasesKept ==
    ASSUME LifecycleAssumption, Sound, [Next]_vars
    PROVE  Phases'
<1> USE DEF Sound
<1>1. CASE Open
  BY <1>1 DEF Open, Phases
<1>2. CASE ReplayThrows \/ Crash \/ Exit
  BY <1>2 DEF ReplayThrows, Crash, Exit, ProcessEnds, Phases
<1>3. CASE RemoveReplayedWal
  BY <1>3 DEF RemoveReplayedWal, Phases, memVars
<1>4. CASE PutOrRemove
  <2>1. PICK r \in Ops : Put(r) \/ PutInNewTable(r)
    BY <1>4, PutIs
  <2>2. phase = "up" /\ phase' = phase /\ merge' = merge /\ UNCHANGED startVars
    BY <2>1 DEF Put, PutInNewTable, Store, startVars
  <2> QED  BY <2>2 DEF Phases, startVars
<1>5. CASE FlushStep
  <2>1. phase \in {"up", "closing"} /\ phase' = phase /\ merge' = merge /\ UNCHANGED startVars
    BY <1>5 DEF FlushStep, FlushBegins, FlushFinishes, FlushThrows, DropWal, Running, startVars
  <2> QED  BY <2>1 DEF Phases, startVars
<1>6. CASE MergeBegins \/ MergeStep
  <2>1. phase = "up" /\ phase' = phase /\ UNCHANGED startVars
    BY <1>6 DEF MergeBegins, MergeStep, MergeWrites, MergeRemoves, MergePublishes, Phases, NoMerge, startVars
  <2> QED  BY <2>1 DEF Phases, startVars
<1>7. CASE Close
  BY <1>7 DEF Close, Phases, Merging, startVars
<1>8. CASE OpenThrows \/ ReplayRecord \/ UNCHANGED vars
  <2>1. UNCHANGED <<phase, imms, doomed, merge, todo>> /\ (phase # "replay" => done' = done)
    BY <1>8 DEF OpenThrows, ReplayRecord, vars, memVars, startVars
  <2> QED  BY <2>1 DEF Phases, startVars
<1> QED  BY <1>1, <1>2, <1>3, <1>4, <1>5, <1>6, <1>7, <1>8 DEF Next, ReplayStep

LEMMA MergingKept ==
    ASSUME LifecycleAssumption, Sound, [Next]_vars
    PROVE  Merging'
<1> USE DEF Sound
<1>1. CASE ReplayThrows \/ Crash \/ Exit
  BY <1>1 DEF ReplayThrows, Crash, Exit, ProcessEnds, NoMerge, Merging
<1>2. CASE MergeBegins
  <2>1. DOMAIN files' = DOMAIN files \cup {<<1, gen + 1>>}
    BY <1>2 DEF MergeBegins, CreateFile, With
  <2>2. rounds' # 0
    BY <1>2 DEF MergeBegins, Typed
  <2> QED  BY <1>2, <2>1, <2>2 DEF MergeBegins, Merging, L0Names, Names
<1>3. CASE MergeWrites
  <2>1. /\ DOMAIN files' = DOMAIN files
        /\ merge'.in = merge.in /\ merge'.out = merge.out /\ merge'.step = "remove" /\ rounds' = rounds
    BY <1>3 DEF MergeWrites, Typed, bounds
  <2> QED  BY <1>3, <2>1 DEF MergeWrites, Merging, L0Names, Names
<1>4. CASE MergeRemoves
  <2>1. PICK n \in merge.in : files' = Without(files, n) /\ merge' = [merge EXCEPT !.in = @ \ {n}]
    BY <1>4 DEF MergeRemoves
  <2>2. DOMAIN files' = DOMAIN files \ {n}
    BY <2>1 DEF Without
  <2>3. merge'.in = merge.in \ {n} /\ merge'.out = merge.out /\ merge'.step = merge.step
    BY <2>1 DEF Typed
  <2>5. rounds' = rounds
    BY <1>4 DEF MergeRemoves, bounds
  <2>4. n[1] = 0 /\ merge.out[1] = 1 /\ merge.step = "remove"
    BY <1>4 DEF MergeRemoves, Typed, Merging, L0Names
  <2> QED  BY <2>2, <2>3, <2>4, <2>5 DEF Merging, L0Names, Names
<1>5. CASE MergePublishes
  BY <1>5 DEF MergePublishes, NoMerge, Merging
<1>6. CASE FlushStep
  <2>1. merge' = merge /\ DOMAIN files \subseteq DOMAIN files' /\ rounds' = rounds
    BY <1>6 DEF FlushStep, FlushBegins, FlushFinishes, FlushThrows, DropWal, CreateFile, FinishFile, With, dirVars, bounds
  <2> QED  BY <2>1 DEF Merging, L0Names, Names
<1>7. CASE Open \/ OpenThrows \/ ReplayRecord \/ RemoveReplayedWal \/ PutOrRemove \/ Close \/ UNCHANGED vars
  <2>1. UNCHANGED <<files, merge, rounds>>
    BY <1>7 DEF Open, OpenThrows, ReplayRecord, RemoveReplayedWal, PutOrRemove, Put, PutInNewTable, Store, Close,
                vars, dirVars, bounds
  <2> QED  BY <2>1 DEF Merging, L0Names, Names
<1> QED  BY <1>1, <1>2, <1>3, <1>4, <1>5, <1>6, <1>7 DEF Next, ReplayStep, MergeStep

-----------------------------------------------------------------------------
(* The names of the logs.                                                  *)

LEMMA OpenIs ==
    ASSUME LifecycleAssumption, Sound, Open
    PROVE  /\ now \in Nat /\ now' = now + 1
           /\ now' \notin DOMAIN wals /\ DOMAIN wals' = DOMAIN wals \cup {now'}
           /\ wals'[now'] = <<>> /\ \A w \in DOMAIN wals : wals'[w] = wals[w]
           /\ active'.wal = now' /\ active'.recs = <<>>
           /\ todo' \in Seq(DOMAIN wals)
           /\ \A w \in DOMAIN wals : \E i \in 1 .. Len(todo') : todo'[i] = w
           /\ \A i, j \in 1 .. Len(todo') : i < j => todo'[i] < todo'[j]
           /\ phase' = (IF todo' = <<>> THEN "up" ELSE "replay")
<1> USE DEF Sound
<1>1. now \in Nat /\ now' = now + 1 /\ now' \notin DOMAIN wals
  BY DEF Open, Typed, Clocked
<1>2. wals' = With(wals, now', <<>>)
  BY <1>1 DEF Open, WithWal
<1>3. /\ DOMAIN wals' = DOMAIN wals \cup {now'}
      /\ wals'[now'] = <<>> /\ \A w \in DOMAIN wals : wals'[w] = wals[w]
  BY <1>1, <1>2 DEF With
<1>4. active'.wal = now' /\ active'.recs = <<>>
  BY DEF Open, Table
<1>5. todo' = WalsInOrder /\ phase' = IF todo' = <<>> THEN "up" ELSE "replay"
  BY DEF Open
<1>6. /\ WalsInOrder \in Seq(DOMAIN wals)
      /\ \A w \in DOMAIN wals : \E i \in 1 .. Len(WalsInOrder) : WalsInOrder[i] = w
      /\ \A i, j \in 1 .. Len(WalsInOrder) : i < j => WalsInOrder[i] < WalsInOrder[j]
  BY WalsInOrderIs
<1> QED  BY <1>1, <1>3, <1>4, <1>5, <1>6

LEMMA ReplayIs ==
    ASSUME LifecycleAssumption, Sound, ReplayRecord
    PROVE  /\ todo \in Seq(Nat) /\ 1 \in 1 .. Len(todo) /\ todo[1] \in DOMAIN wals
           /\ active.wal \in DOMAIN wals /\ todo[1] < active.wal
           /\ wals[todo[1]] \in Seq(Ops) /\ done + 1 \in 1 .. Len(wals[todo[1]])
           /\ wals[todo[1]][done + 1] \in Ops
           /\ active'.wal = active.wal
           /\ active'.recs = Append(active.recs, wals[todo[1]][done + 1])
           /\ DOMAIN wals' = DOMAIN wals
           /\ wals'[active.wal] = Append(wals[active.wal], wals[todo[1]][done + 1])
           /\ \A w \in DOMAIN wals : w # active.wal => wals'[w] = wals[w]
<1> USE DEF Sound
<1>1. todo \in Seq(Nat) /\ 1 \in 1 .. Len(todo) /\ phase = "replay"
  <2>1. todo \in Seq(Nat) /\ todo # <<>> /\ phase = "replay"
    BY DEF Typed, Phases, ReplayRecord
  <2> QED  BY <2>1
<1>2. todo[1] \in DOMAIN wals /\ active.wal \in DOMAIN wals /\ todo[1] < active.wal
  BY <1>1 DEF Clocked
<1>3. wals[todo[1]] \in Seq(Ops) /\ done + 1 \in 1 .. Len(wals[todo[1]])
  <2>1. wals[todo[1]] \in Seq(Ops) /\ done \in Nat
    BY <1>2 DEF Typed
  <2>2. done < Len(wals[todo[1]])
    BY DEF ReplayRecord
  <2> QED  BY <2>1, <2>2
<1>4. wals[todo[1]][done + 1] \in Ops
  BY <1>3, ElementOfSeq
<1>5. active'.wal = active.wal /\ active'.recs = Append(active.recs, wals[todo[1]][done + 1])
  BY DEF ReplayRecord, Table
<1>6. wals' = [wals EXCEPT ![active.wal] = Append(@, wals[todo[1]][done + 1])]
  BY DEF ReplayRecord
<1>7. /\ DOMAIN wals' = DOMAIN wals
      /\ wals'[active.wal] = Append(wals[active.wal], wals[todo[1]][done + 1])
      /\ \A w \in DOMAIN wals : w # active.wal => wals'[w] = wals[w]
  BY <1>2, <1>6
<1> QED  BY <1>1, <1>2, <1>3, <1>4, <1>5, <1>7

LEMMA ReplayedIs ==
    ASSUME Sound, RemoveReplayedWal
    PROVE  /\ todo \in Seq(Nat) /\ 1 \in 1 .. Len(todo) /\ todo[1] \in DOMAIN wals
           /\ Len(todo') = Len(todo) - 1 /\ \A i \in 1 .. Len(todo) - 1 : todo'[i] = todo[i + 1]
           /\ DOMAIN wals' = DOMAIN wals \ {todo[1]} /\ \A w \in DOMAIN wals' : wals'[w] = wals[w]
           /\ phase' = (IF todo' = <<>> THEN "up" ELSE "replay")
           /\ active.wal \in DOMAIN wals' /\ active' = active
           /\ \A i \in 2 .. Len(todo) : todo[i] \in DOMAIN wals'
<1> USE DEF Sound
<1>1. todo \in Seq(Nat) /\ 1 \in 1 .. Len(todo) /\ phase = "replay" /\ todo # <<>>
  <2>1. todo \in Seq(Nat) /\ todo # <<>> /\ phase = "replay"
    BY DEF Typed, Phases, RemoveReplayedWal
  <2> QED  BY <2>1
<1>2. todo' = Tail(todo)
  BY DEF RemoveReplayedWal
<1>3. Len(todo') = Len(todo) - 1 /\ \A i \in 1 .. Len(todo) - 1 : todo'[i] = todo[i + 1]
  <2>1. Len(Tail(todo)) = Len(todo) - 1 /\ \A i \in 1 .. Len(Tail(todo)) : Tail(todo)[i] = todo[i + 1]
    BY <1>1, HeadTailProperties
  <2> QED  BY <1>2, <2>1
<1>4. DOMAIN wals' = DOMAIN wals \ {todo[1]} /\ \A w \in DOMAIN wals' : wals'[w] = wals[w]
  BY DEF RemoveReplayedWal, Without
<1>5. todo[1] \in DOMAIN wals /\ active.wal \in DOMAIN wals /\ todo[1] < active.wal /\ active.wal \in Nat
  BY <1>1 DEF Clocked, Typed
<1>6. \A i \in 2 .. Len(todo) : todo[i] \in DOMAIN wals /\ todo[1] < todo[i] /\ todo[i] \in Nat
  BY <1>1, SMTT(20) DEF Clocked, Typed
<1>7. todo[1] \in Nat
  BY <1>1
<1>8. active.wal \in DOMAIN wals' /\ \A i \in 2 .. Len(todo) : todo[i] \in DOMAIN wals'
  BY <1>4, <1>5, <1>6, <1>7
<1>9. phase' = (IF todo' = <<>> THEN "up" ELSE "replay") /\ active' = active
  BY DEF RemoveReplayedWal, memVars
<1> QED  BY <1>1, <1>3, <1>4, <1>5, <1>8, <1>9

\* The log of a put: that of the active table, or a new one.
LEMMA PutLogs ==
    ASSUME LifecycleAssumption, Sound, PutOrRemove
    PROVE  \E r \in Ops :
              /\ r.ver = puts + 1 /\ Store(r) /\ phase = "up"
              /\ \/ /\ Put(r)
                    /\ active'.wal = active.wal /\ active'.recs = Append(active.recs, r)
                    /\ DOMAIN wals' = DOMAIN wals /\ now' = now /\ imms' = imms
                    /\ active.wal \in DOMAIN wals => wals'[active.wal] = Append(wals[active.wal], r)
                    /\ \A w \in DOMAIN wals : w # active.wal => wals'[w] = wals[w]
                 \/ /\ PutInNewTable(r)
                    /\ now' \in WalNames
                    /\ active'.wal = now' /\ active'.recs = <<r>>
                    /\ DOMAIN wals' = DOMAIN wals \cup {now'}
                    /\ wals'[now'] = IF now' \in DOMAIN wals THEN Append(wals[now'], r) ELSE <<r>>
                    /\ \A w \in DOMAIN wals : w # now' => wals'[w] = wals[w]
                    /\ imms' = Append(imms, Unflushed(active))
<1> USE DEF Sound
<1>1. PICK r \in Ops : r.ver = puts + 1 /\ (Put(r) \/ PutInNewTable(r))
  BY PutIs
<1>2. \A w \in DOMAIN wals : wals[w] \o <<r>> = Append(wals[w], r)
  BY OneMore DEF Typed
<1>3. CASE Put(r)
  <2>1. /\ Store(r) /\ phase = "up"
        /\ active'.wal = active.wal /\ active'.recs = Append(active.recs, r)
        /\ now' = now /\ imms' = imms
        /\ wals' = IF active.wal \in DOMAIN wals THEN WithWal(active.wal, <<r>>) ELSE wals
    BY <1>3 DEF Put, Table
  <2>2. CASE active.wal \in DOMAIN wals
    <3>1. wals' = With(wals, active.wal, Append(wals[active.wal], r))
      BY <1>2, <2>1, <2>2 DEF WithWal
    <3>2. /\ DOMAIN wals' = DOMAIN wals /\ wals'[active.wal] = Append(wals[active.wal], r)
          /\ \A w \in DOMAIN wals : w # active.wal => wals'[w] = wals[w]
      BY <2>2, <3>1 DEF With
    <3> QED  BY <1>1, <1>3, <2>1, <3>2
  <2>3. CASE active.wal \notin DOMAIN wals
    BY <1>1, <1>3, <2>1, <2>3
  <2> QED  BY <2>2, <2>3
<1>4. CASE PutInNewTable(r)
  <2>1. PICK w \in WalNames : active' = Table(w, <<r>>) /\ wals' = WithWal(w, <<r>>) /\ now' = w
    BY <1>4 DEF PutInNewTable
  <2>2. /\ Store(r) /\ phase = "up" /\ imms' = Append(imms, Unflushed(active))
        /\ active'.wal = now' /\ active'.recs = <<r>>
    BY <1>4, <2>1 DEF PutInNewTable, Table
  <2> DEFINE x == IF w \in DOMAIN wals THEN Append(wals[w], r) ELSE <<r>>
  <2>3. wals' = With(wals, w, x)
    BY <1>2, <2>1 DEF WithWal
  <2> HIDE DEF x
  <2>4. DOMAIN wals' = DOMAIN wals \cup {w} /\ wals'[w] = x /\ \A v \in DOMAIN wals : v # w => wals'[v] = wals[v]
    BY <2>3 DEF With
  <2> QED  BY <1>1, <1>4, <2>1, <2>2, <2>4 DEF x
<1> QED  BY <1>1, <1>3, <1>4

LEMMA ClockedKept ==
    ASSUME LifecycleAssumption, Sound, [Next]_vars
    PROVE  Clocked'
<1> USE DEF Sound
<1>1. CASE Open
  <2>1. \A w \in DOMAIN wals : w \in Nat /\ w <= now
    BY DEF Typed, Clocked
  <2>2. \A i \in 1 .. Len(todo') : todo'[i] \in DOMAIN wals
    BY <1>1, OpenIs, ElementOfSeq
  <2>3. /\ now \in Nat /\ now' = now + 1 /\ DOMAIN wals' = DOMAIN wals \cup {now'} /\ active'.wal = now'
        /\ \A i, j \in 1 .. Len(todo') : i < j => todo'[i] < todo'[j]
    BY <1>1, OpenIs
  <2> QED  BY <2>1, <2>2, <2>3 DEF Clocked
<1>2. CASE ReplayRecord
  <2>1. DOMAIN wals' = DOMAIN wals /\ active'.wal = active.wal /\ todo' = todo /\ now' = now /\ phase' = phase
    BY <1>2, ReplayIs DEF ReplayRecord, bounds
  <2> QED  BY <2>1 DEF Clocked
<1>3. CASE ReplayThrows \/ Crash \/ Exit
  <2>1. phase' = "down" /\ wals' = wals /\ now' = now /\ active'.wal = 0
    BY <1>3 DEF ReplayThrows, Crash, Exit, ProcessEnds, NoTable, dirVars, bounds
  <2> QED  BY <2>1 DEF Clocked, Typed
<1>4. CASE RemoveReplayedWal
  <2>1. /\ Len(todo') = Len(todo) - 1 /\ Len(todo) \in Nat
        /\ \A i \in 1 .. Len(todo) - 1 : todo'[i] = todo[i + 1]
        /\ \A i \in 2 .. Len(todo) : todo[i] \in DOMAIN wals'
        /\ DOMAIN wals' \subseteq DOMAIN wals
        /\ active.wal \in DOMAIN wals' /\ active' = active /\ now' = now /\ phase = "replay"
    BY <1>4, ReplayedIs DEF RemoveReplayedWal, bounds
  <2>2. \A i \in 1 .. Len(todo') : i + 1 \in 2 .. Len(todo) /\ i + 1 \in 1 .. Len(todo) /\ todo'[i] = todo[i + 1]
    BY <2>1
  <2>3. \A i, j \in 1 .. Len(todo') : i < j => todo'[i] < todo'[j]
    BY <2>1, <2>2 DEF Clocked
  <2>4. \A i \in 1 .. Len(todo') : todo'[i] \in DOMAIN wals' /\ todo'[i] < active'.wal
    BY <2>1, <2>2 DEF Clocked
  <2> QED  BY <2>1, <2>3, <2>4 DEF Clocked
<1>5. CASE PutOrRemove
  <2>1. PICK r \in Ops :
              /\ Store(r) /\ phase = "up"
              /\ \/ DOMAIN wals' = DOMAIN wals /\ active'.wal = active.wal /\ now' = now
                 \/ now' \in WalNames /\ DOMAIN wals' = DOMAIN wals \cup {now'} /\ active'.wal = now'
    BY <1>5, PutLogs
  <2>2. phase' = "up"
    BY <2>1 DEF Store
  <2>3. \A w \in DOMAIN wals : w <= now /\ w \in Nat
    BY DEF Clocked, Typed
  <2>4. now' \in WalNames => now' \in {now, now + 1}
    BY DEF WalNames
  <2>5. now' \in Nat /\ now <= now' /\ active.wal <= now /\ active.wal \in Nat /\ now \in Nat
    BY <2>1, <2>4 DEF Clocked, Typed
  <2>6. (\A w \in DOMAIN wals' : w <= now') /\ active'.wal <= now'
    BY <2>1, <2>3, <2>5
  <2> QED  BY <2>2, <2>6 DEF Clocked
<1>6. CASE FlushStep
  <2>1. phase' = phase /\ phase # "replay" /\ DOMAIN wals' \subseteq DOMAIN wals /\ now' = now /\ active' = active
    BY <1>6 DEF FlushStep, FlushBegins, FlushFinishes, FlushThrows, DropWal, Running, Without, dirVars, bounds
  <2> QED  BY <2>1 DEF Clocked
<1>7. CASE MergeBegins \/ MergeStep
  <2>1. UNCHANGED <<wals, phase, active, todo, now>>
    BY <1>7 DEF MergeBegins, MergeStep, MergeWrites, MergeRemoves, MergePublishes, memVars, dirVars, startVars, bounds
  <2> QED  BY <2>1 DEF Clocked
<1>8. CASE Close
  <2>1. phase' = "closing" /\ wals' = wals /\ now' = now /\ active'.wal = active.wal
    BY <1>8 DEF Close, Typed, dirVars, bounds
  <2> QED  BY <2>1 DEF Clocked
<1>9. CASE OpenThrows \/ UNCHANGED vars
  <2>1. UNCHANGED <<wals, phase, active, todo, now>>
    BY <1>9 DEF OpenThrows, vars, dirVars, memVars, startVars, bounds
  <2> QED  BY <2>1 DEF Clocked
<1> QED  BY <1>1, <1>2, <1>3, <1>4, <1>5, <1>6, <1>7, <1>8, <1>9 DEF Next, ReplayStep

\* A table that stands in front of a removed one keeps its place, the others move up.
LEMMA OneLess ==
    ASSUME Typed, NEW i \in 1 .. Len(imms), imms' = RemoveAt(imms, i)
    PROVE  /\ Len(imms') = Len(imms) - 1
           /\ \A j \in 1 .. Len(imms') : imms'[j] = IF j < i THEN imms[j] ELSE imms[j + 1]
           /\ \A h \in 1 .. Len(imms) : h # i => \E j \in 1 .. Len(imms') : imms'[j] = imms[h]
           /\ \A j \in 1 .. Len(imms') : \E h \in 1 .. Len(imms) : h # i /\ imms'[j] = imms[h]
<1>1. imms \in Seq(Tables) /\ Len(imms) \in Nat
  BY DEF Typed
<1>2. /\ Len(imms') = Len(imms) - 1
      /\ \A j \in 1 .. Len(imms') : imms'[j] = IF j < i THEN imms[j] ELSE imms[j + 1]
  BY <1>1, RemoveAtIs
<1>3. ASSUME NEW h \in 1 .. Len(imms), h # i PROVE \E j \in 1 .. Len(imms') : imms'[j] = imms[h]
  <2>1. CASE h < i
    <3>1. h \in 1 .. Len(imms')
      BY <1>1, <1>2, <2>1
    <3> QED  BY <1>2, <2>1, <3>1
  <2>2. CASE h > i
    <3>1. h - 1 \in 1 .. Len(imms') /\ ~ (h - 1 < i) /\ (h - 1) + 1 = h
      BY <1>1, <1>2, <2>2
    <3> QED  BY <1>2, <3>1
  <2> QED  BY <1>1, <1>3, <2>1, <2>2
<1>4. ASSUME NEW j \in 1 .. Len(imms') PROVE \E h \in 1 .. Len(imms) : h # i /\ imms'[j] = imms[h]
  <2>1. j \in 1 .. Len(imms) /\ j + 1 \in 1 .. Len(imms)
    BY <1>1, <1>2
  <2> QED  BY <1>2, <2>1
<1> QED  BY <1>2, <1>3, <1>4

\* A flush that begins or fails keeps the tables and their logs.
LEMMA BeginIs ==
    ASSUME Typed, NEW i \in 1 .. Len(imms), FlushBegins(i)
    PROVE  /\ Len(imms') = Len(imms)
           /\ \A j \in 1 .. Len(imms) : j # i => imms'[j] = imms[j]
           /\ imms'[i].wal = imms[i].wal /\ imms'[i].recs = imms[i].recs
           /\ imms'[i].step = "write" /\ imms'[i].name = <<0, gen + 1>>
<1>1. imms \in Seq(Tables)
  BY DEF Typed
<1>2. imms' = [imms EXCEPT ![i] = [wal |-> imms[i].wal, recs |-> imms[i].recs,
                                   step |-> "write", name |-> <<0, gen + 1>>]]
  BY BeginTyped
<1> QED  BY <1>1, <1>2

LEMMA ThrowIs ==
    ASSUME Typed, NEW i \in 1 .. Len(imms), FlushThrows(i)
    PROVE  /\ Len(imms') = Len(imms)
           /\ \A j \in 1 .. Len(imms) : j # i => imms'[j] = imms[j]
           /\ imms'[i].wal = imms[i].wal /\ imms'[i].recs = imms[i].recs
           /\ imms'[i].step = "failed" /\ imms'[i].name = imms[i].name
<1>1. imms \in Seq(Tables)
  BY DEF Typed
<1>2. imms' = [imms EXCEPT ![i] = [wal |-> imms[i].wal, recs |-> imms[i].recs,
                                   step |-> "failed", name |-> imms[i].name]]
  BY ThrowTyped
<1> QED  BY <1>1, <1>2

\* switchMemTable and close put the active table behind the others.
LEMMA SwitchIs ==
    ASSUME Typed, imms' = Append(imms, Unflushed(active))
    PROVE  /\ Len(imms') = Len(imms) + 1 /\ Len(imms) \in Nat
           /\ \A j \in 1 .. Len(imms) : imms'[j] = imms[j]
           /\ imms'[Len(imms) + 1].wal = active.wal /\ imms'[Len(imms) + 1].recs = active.recs
           /\ imms'[Len(imms) + 1].step = "new"
<1>1. imms \in Seq(Tables) /\ Unflushed(active) \in Tables
  BY DEF Typed, Tables, Unflushed
<1>2. Unflushed(active).wal = active.wal /\ Unflushed(active).recs = active.recs /\ Unflushed(active).step = "new"
  BY DEF Unflushed
<1> QED  BY <1>1, <1>2, AppendProperties

LEMMA AccountedKept ==
    ASSUME LifecycleAssumption, Sound, [Next]_vars
    PROVE  Accounted'
<1> USE DEF Sound
<1>1. CASE Open
  <2>1. \A w \in DOMAIN wals' : w = active'.wal \/ \E i \in 1 .. Len(todo') : todo'[i] = w
    BY <1>1, OpenIs
  <2>2. todo' = <<>> => Len(todo') = 0
    OBVIOUS
  <2>3. phase' \in {"up", "closing"} => todo' = <<>>
    BY <1>1, OpenIs
  <2> QED  BY <2>1, <2>2, <2>3 DEF Accounted
<1>2. CASE ReplayRecord
  <2>1. DOMAIN wals' = DOMAIN wals /\ active'.wal = active.wal /\ todo' = todo /\ phase' = "replay" /\ phase = "replay"
    BY <1>2, ReplayIs DEF ReplayRecord
  <2> QED  BY <2>1 DEF Accounted
<1>3. CASE ReplayThrows \/ Crash \/ Exit
  BY <1>3 DEF ReplayThrows, Crash, Exit, ProcessEnds, Accounted
<1>4. CASE RemoveReplayedWal
  <2>1. /\ Len(todo') = Len(todo) - 1 /\ Len(todo) \in Nat
        /\ \A i \in 1 .. Len(todo) - 1 : todo'[i] = todo[i + 1]
        /\ DOMAIN wals' = DOMAIN wals \ {todo[1]}
        /\ active' = active /\ phase = "replay"
        /\ phase' = (IF todo' = <<>> THEN "up" ELSE "replay")
    BY <1>4, ReplayedIs DEF RemoveReplayedWal
  <2>2. ASSUME NEW w \in DOMAIN wals' PROVE w = active'.wal \/ \E i \in 1 .. Len(todo') : todo'[i] = w
    <3>1. w \in DOMAIN wals /\ w # todo[1]
      BY <2>1
    <3>2. CASE w # active.wal
      <4>1. PICK i \in 1 .. Len(todo) : todo[i] = w
        BY <2>1, <3>1, <3>2 DEF Accounted
      <4>2. i - 1 \in 1 .. Len(todo') /\ (i - 1) + 1 = i
        BY <2>1, <3>1, <4>1
      <4> QED  BY <2>1, <4>1, <4>2
    <3> QED  BY <2>1, <3>2
  <2>3. phase' \in {"up", "closing"} => Len(todo') = 0
    BY <2>1
  <2> QED  BY <2>2, <2>3 DEF Accounted
<1>5. CASE PutOrRemove
  <2>1. PICK r \in Ops :
              /\ Store(r) /\ phase = "up"
              /\ \/ DOMAIN wals' = DOMAIN wals /\ active'.wal = active.wal /\ imms' = imms
                 \/ /\ DOMAIN wals' = DOMAIN wals \cup {now'} /\ active'.wal = now'
                    /\ imms' = Append(imms, Unflushed(active))
    BY <1>5, PutLogs
  <2>2. phase' = "up" /\ doomed' = doomed
    BY <2>1 DEF Store
  <2>3. CASE DOMAIN wals' = DOMAIN wals /\ active'.wal = active.wal /\ imms' = imms
    BY <2>1, <2>2, <2>3 DEF Accounted
  <2>4. CASE /\ DOMAIN wals' = DOMAIN wals \cup {now'} /\ active'.wal = now'
             /\ imms' = Append(imms, Unflushed(active))
    <3>2. /\ Len(imms') = Len(imms) + 1 /\ Len(imms) \in Nat
          /\ \A i \in 1 .. Len(imms) : imms'[i] = imms[i]
          /\ imms'[Len(imms) + 1].wal = active.wal
      BY <2>4, SwitchIs
    <3>3. \A i \in 1 .. Len(imms) : i \in 1 .. Len(imms')
      BY <3>2
    <3>4. Len(imms) + 1 \in 1 .. Len(imms')
      BY <3>2
    <3> QED  BY <2>1, <2>2, <2>4, <3>2, <3>3, <3>4 DEF Accounted
  <2> QED  BY <2>1, <2>3, <2>4
<1>6. ASSUME NEW i \in 1 .. Len(imms), FlushBegins(i) \/ FlushThrows(i) PROVE Accounted'
  <2>1. UNCHANGED <<wals, phase, active, doomed>> /\ (phase = "up" \/ phase = "closing")
    BY <1>6 DEF FlushBegins, FlushThrows, Running, dirVars
  <2>2. Len(imms') = Len(imms) /\ \A j \in 1 .. Len(imms) : imms'[j].wal = imms[j].wal
    BY <1>6, BeginIs, ThrowIs
  <2> QED  BY <2>1, <2>2 DEF Accounted
<1>7. ASSUME NEW i \in 1 .. Len(imms), FlushFinishes(i) PROVE Accounted'
  <2>1. /\ UNCHANGED <<wals, phase, active>> /\ (phase = "up" \/ phase = "closing")
        /\ imms' = RemoveAt(imms, i) /\ doomed' = doomed \cup {imms[i].wal}
    BY <1>7 DEF FlushFinishes, Running
  <2>2. \A h \in 1 .. Len(imms) : h # i => \E j \in 1 .. Len(imms') : imms'[j] = imms[h]
    BY <2>1, OneLess
  <2> QED  BY <2>1, <2>2 DEF Accounted
<1>8. CASE DropWal
  <2>1. PICK w \in doomed : DOMAIN wals' = DOMAIN wals \ {w} /\ doomed' = doomed \ {w}
    BY <1>8 DEF DropWal, Without
  <2>2. UNCHANGED <<phase, active, imms>> /\ (phase = "up" \/ phase = "closing")
    BY <1>8 DEF DropWal, Running
  <2> QED  BY <2>1, <2>2 DEF Accounted
<1>9. CASE MergeBegins \/ MergeStep
  <2>1. UNCHANGED <<wals, phase, active, todo, doomed, imms>>
    BY <1>9 DEF MergeBegins, MergeStep, MergeWrites, MergeRemoves, MergePublishes, memVars, dirVars, startVars
  <2> QED  BY <2>1 DEF Accounted
<1>10. CASE Close
  <2>1. UNCHANGED <<wals, doomed>> /\ active'.wal = active.wal /\ phase = "up" /\ phase' = "closing"
    BY <1>10 DEF Close, Typed, dirVars
  <2>2. CASE imms' = imms
    BY <2>1, <2>2 DEF Accounted
  <2>3. CASE imms' = Append(imms, Unflushed(active))
    <3>1. /\ Len(imms') = Len(imms) + 1 /\ Len(imms) \in Nat
          /\ \A i \in 1 .. Len(imms) : imms'[i] = imms[i]
      BY <2>3, SwitchIs
    <3>2. \A i \in 1 .. Len(imms) : i \in 1 .. Len(imms')
      BY <3>1
    <3> QED  BY <2>1, <3>1, <3>2 DEF Accounted
  <2> QED  BY <1>10, <2>2, <2>3 DEF Close
<1>11. CASE OpenThrows \/ UNCHANGED vars
  <2>1. UNCHANGED <<wals, phase, active, todo, doomed, imms>>
    BY <1>11 DEF OpenThrows, vars, dirVars, memVars, startVars
  <2> QED  BY <2>1 DEF Accounted
<1> QED  BY <1>1, <1>2, <1>3, <1>4, <1>5, <1>6, <1>7, <1>8, <1>9, <1>10, <1>11 DEF Next, ReplayStep, FlushStep

LEMMA SoundKept ==
    ASSUME LifecycleAssumption, Sound, [Next]_vars
    PROVE  Sound'
<1>1. Typed' /\ Roomy' /\ Phases' /\ Merging' /\ Clocked' /\ Accounted'
  BY TypedKept, RoomyKept, PhasesKept, MergingKept, ClockedKept, AccountedKept
<1> QED  BY <1>1 DEF Sound

LEMMA SoundAtStart ==
    ASSUME LifecycleAssumption, Init
    PROVE  Sound
<1> USE DEF Init
<1>1. DOMAIN files = {} /\ DOMAIN wals = {} /\ Names = {} /\ IsFiniteSet({})
  BY FS_EmptySet DEF Names
<1>2. active \in [wal : Nat, recs : Seq(Ops), full : BOOLEAN] /\ active.recs = <<>> /\ active.wal = 0
  <2>1. <<>> \in Seq(Ops)
    BY EmptySeq
  <2> QED  BY <2>1 DEF NoTable
<1>3. merge \in [step : {"none", "write", "remove"}, in : SUBSET ({0} \X Nat), out : {1} \X Nat]
  BY DEF NoMerge
<1>4. latest \in [Keys -> [key : Keys, ver : 0 .. MaxPuts, del : BOOLEAN]]
  BY DEF NoOp, LifecycleAssumption
<1>5. /\ imms \in Seq(Tables) /\ todo \in Seq(Nat)
      /\ readers \in Seq([name : {0, 1} \X Nat, recs : SUBSET Ops])
  BY EmptySeq
<1>6. Typed
  BY <1>1, <1>2, <1>3, <1>4, <1>5 DEF Typed, LifecycleAssumption
<1>7. Roomy
  BY <1>2 DEF Roomy, LifecycleAssumption
<1>8. Phases /\ Merging
  BY DEF Phases, Merging, NoMerge
<1>9. Clocked /\ Accounted
  BY <1>1, <1>2 DEF Clocked, Accounted
<1> QED  BY <1>6, <1>7, <1>8, <1>9 DEF Sound

\* With every fault, in every state: types, the room in the arena, the phases, the
\* compaction, and that each log is accounted for.
THEOREM InductiveSound == Spec => []Sound
<1>1. Init => Sound
  BY SoundAtStart, LifecycleAssumption
<1>2. Sound /\ [Next]_vars => Sound'
  BY SoundKept, LifecycleAssumption
<1> QED  BY <1>1, <1>2, PTL DEF Spec

\* flushMemTableToDisk, switchMemTable and recoverFromOldWals: while the engine is up
\* each log belongs to a table in memory or is about to be removed, so the next start-up
\* replays nothing over newer files.
THEOREM NoLogLeft == Spec => []NoOrphanWal
<1>1. Sound => NoOrphanWal
  BY DEF Sound, Accounted, NoOrphanWal
<1> QED  BY <1>1, InductiveSound, PTL

-----------------------------------------------------------------------------
(* Without the fault "clock": the logs of the tables.                      *)

LEMMA LogsHeldKept ==
    ASSUME LifecycleAssumption, "clock" \notin Faults, Sound, LogsHeld, [Next]_vars
    PROVE  LogsHeld'
<1> USE DEF Sound
<1>1. CASE Open
  <2>1. /\ imms' = <<>> /\ doomed' = {} /\ active'.wal = now' /\ now' \in DOMAIN wals'
    BY <1>1, OpenIs DEF Open, Phases, memVars
  <2>2. \A w \in DOMAIN wals' : w <= active'.wal
    <3>1. DOMAIN wals' = DOMAIN wals \cup {now'} /\ now' = now + 1 /\ now \in Nat
      BY <1>1, OpenIs
    <3>2. \A w \in DOMAIN wals : w \in Nat /\ w <= now
      BY DEF Typed, Clocked
    <3> QED  BY <2>1, <3>1, <3>2
  <2> QED  BY <2>1, <2>2 DEF LogsHeld
<1>2. CASE ReplayRecord
  <2>1. imms' = <<>> /\ doomed' = {} /\ phase' = "replay"
    BY <1>2 DEF ReplayRecord, Phases
  <2> QED  BY <2>1 DEF LogsHeld
<1>3. CASE ReplayThrows \/ Crash \/ Exit
  <2>1. imms' = <<>> /\ doomed' = {} /\ phase' = "down"
    BY <1>3 DEF ReplayThrows, Crash, Exit, ProcessEnds
  <2> QED  BY <2>1 DEF LogsHeld
<1>4. CASE RemoveReplayedWal
  <2>1. imms' = <<>> /\ doomed' = {} /\ active'.wal \in DOMAIN wals'
    BY <1>4, ReplayedIs DEF RemoveReplayedWal, Phases, memVars
  <2>2. \A w \in DOMAIN wals' : w <= active'.wal
    <3>1. DOMAIN wals' \subseteq DOMAIN wals /\ active' = active /\ phase = "replay"
      BY <1>4, ReplayedIs DEF RemoveReplayedWal
    <3>2. \A w \in DOMAIN wals : w = active.wal \/ w < active.wal
      BY <3>1 DEF Accounted, Clocked
    <3>3. active.wal \in Nat /\ \A w \in DOMAIN wals : w \in Nat
      BY DEF Typed
    <3> QED  BY <3>1, <3>2, <3>3
  <2> QED  BY <2>1, <2>2 DEF LogsHeld
<1>5. CASE PutOrRemove
  <2>1. PICK r \in Ops :
              /\ Store(r) /\ phase = "up"
              /\ \/ DOMAIN wals' = DOMAIN wals /\ active'.wal = active.wal /\ imms' = imms
                 \/ /\ now' \in WalNames
                    /\ DOMAIN wals' = DOMAIN wals \cup {now'} /\ active'.wal = now'
                    /\ imms' = Append(imms, Unflushed(active))
    BY <1>5, PutLogs
  <2>2. phase' = "up" /\ doomed' = doomed
    BY <2>1 DEF Store
  <2>3. CASE DOMAIN wals' = DOMAIN wals /\ active'.wal = active.wal /\ imms' = imms
    BY <2>1, <2>2, <2>3 DEF LogsHeld
  <2>4. CASE /\ now' \in WalNames /\ DOMAIN wals' = DOMAIN wals \cup {now'} /\ active'.wal = now'
             /\ imms' = Append(imms, Unflushed(active))
    <3>1. /\ Len(imms') = Len(imms) + 1 /\ Len(imms) \in Nat
          /\ \A i \in 1 .. Len(imms) : imms'[i] = imms[i]
          /\ imms'[Len(imms) + 1].wal = active.wal
      BY <2>4, SwitchIs
    <3>2. now' = now + 1 /\ now \in Nat
      BY <2>4 DEF WalNames, Typed
    <3>3. \A w \in DOMAIN wals : w \in Nat /\ w < now'
      BY <3>2 DEF Typed, Clocked
    <3>4. /\ doomed \subseteq DOMAIN wals /\ active.wal \in DOMAIN wals \ doomed
          /\ \A i \in 1 .. Len(imms) : imms[i].wal \in DOMAIN wals \ doomed /\ imms[i].wal < active.wal
      BY <2>1 DEF LogsHeld
    <3>5. \A i \in 1 .. Len(imms') :
             /\ imms'[i].wal \in DOMAIN wals \ doomed
             /\ i \notin 1 .. Len(imms) => i = Len(imms) + 1 /\ imms'[i].wal = active.wal
      BY <3>1, <3>4
    <3>6. \A i, j \in 1 .. Len(imms') : i < j => imms'[i].wal < imms'[j].wal
      <4> SUFFICES ASSUME NEW i \in 1 .. Len(imms'), NEW j \in 1 .. Len(imms'), i < j
                   PROVE  imms'[i].wal < imms'[j].wal
        OBVIOUS
      <4>1. i \in 1 .. Len(imms)
        BY <3>1
      <4>2. CASE j \in 1 .. Len(imms)
        BY <3>1, <4>1, <4>2 DEF LogsHeld
      <4>3. CASE j \notin 1 .. Len(imms)
        BY <3>1, <3>4, <3>5, <4>1, <4>3
      <4> QED  BY <4>2, <4>3
    <3>7. now' \notin doomed /\ now' \in DOMAIN wals'
      BY <2>4, <3>2, <3>3, <3>4
    <3>8. \A w \in DOMAIN wals' : w <= active'.wal
      BY <2>4, <3>2, <3>3
    <3> QED  BY <2>2, <2>4, <3>3, <3>4, <3>5, <3>6, <3>7, <3>8 DEF LogsHeld
  <2> QED  BY <2>1, <2>3, <2>4
<1>6. ASSUME NEW i \in 1 .. Len(imms), FlushBegins(i) \/ FlushThrows(i) PROVE LogsHeld'
  <2>1. UNCHANGED <<wals, phase, active, doomed>>
    BY <1>6 DEF FlushBegins, FlushThrows, dirVars
  <2>2. Len(imms') = Len(imms) /\ \A j \in 1 .. Len(imms) : imms'[j].wal = imms[j].wal
    BY <1>6, BeginIs, ThrowIs
  <2> QED  BY <2>1, <2>2 DEF LogsHeld
<1>7. ASSUME NEW i \in 1 .. Len(imms), FlushFinishes(i) PROVE LogsHeld'
  <2>1. /\ UNCHANGED <<wals, phase, active>>
        /\ imms' = RemoveAt(imms, i) /\ doomed' = doomed \cup {imms[i].wal}
    BY <1>7 DEF FlushFinishes
  <2>2. /\ Len(imms') = Len(imms) - 1 /\ Len(imms) \in Nat
        /\ \A j \in 1 .. Len(imms') : imms'[j] = IF j < i THEN imms[j] ELSE imms[j + 1]
    BY <2>1, OneLess DEF Typed
  <2>3. \A j \in 1 .. Len(imms') :
           /\ j \in 1 .. Len(imms) /\ j + 1 \in 1 .. Len(imms)
           /\ imms'[j].wal = imms[IF j < i THEN j ELSE j + 1].wal
           /\ (IF j < i THEN j ELSE j + 1) \in 1 .. Len(imms) \ {i}
    BY <2>2
  <2>4. \A j \in 1 .. Len(imms) : imms[j].wal \in Nat
    BY DEF LogsHeld, Typed
  <2>5. \A j \in 1 .. Len(imms) \ {i} : imms[j].wal \in DOMAIN wals \ doomed /\ imms[j].wal # imms[i].wal
    <3> TAKE j \in 1 .. Len(imms) \ {i}
    <3>1. j < i \/ i < j
      OBVIOUS
    <3>2. imms[j].wal < imms[i].wal \/ imms[i].wal < imms[j].wal
      BY <3>1 DEF LogsHeld
    <3> QED  BY <2>4, <3>2 DEF LogsHeld
  <2>6. \A j \in 1 .. Len(imms') : imms'[j].wal \in DOMAIN wals' \ doomed'
    BY <2>1, <2>3, <2>5
  <2>7. \A h, j \in 1 .. Len(imms') : h < j => imms'[h].wal < imms'[j].wal
    <3> TAKE h, j \in 1 .. Len(imms')
    <3> HAVE h < j
    <3> DEFINE a == IF h < i THEN h ELSE h + 1
               b == IF j < i THEN j ELSE j + 1
    <3>1. a \in 1 .. Len(imms) /\ b \in 1 .. Len(imms) /\ a < b
      BY <2>3
    <3>2. imms'[h].wal = imms[a].wal /\ imms'[j].wal = imms[b].wal
      BY <2>3
    <3> HIDE DEF a, b
    <3> QED  BY <3>1, <3>2 DEF LogsHeld
  <2>8. phase' = "up" => /\ active'.wal \in DOMAIN wals' \ doomed'
                         /\ \A j \in 1 .. Len(imms') : imms'[j].wal < active'.wal
    <3> SUFFICES ASSUME phase = "up"
                 PROVE  /\ active.wal \in DOMAIN wals \ (doomed \cup {imms[i].wal})
                        /\ \A j \in 1 .. Len(imms') : imms'[j].wal < active.wal
      BY <2>1
    <3>1. active.wal \in DOMAIN wals \ doomed /\ \A j \in 1 .. Len(imms) : imms[j].wal < active.wal
      BY DEF LogsHeld
    <3>2. active.wal # imms[i].wal
      BY <2>4, <3>1
    <3> QED  BY <2>3, <3>1, <3>2
  <2>9. doomed' \subseteq DOMAIN wals'
    BY <2>1 DEF LogsHeld
  <2>10. phase' \in {"up", "closing"} => \A w \in DOMAIN wals' : w <= active'.wal
    BY <2>1 DEF LogsHeld
  <2> QED  BY <2>6, <2>7, <2>8, <2>9, <2>10 DEF LogsHeld
<1>8. CASE DropWal
  <2>1. PICK w \in doomed : DOMAIN wals' = DOMAIN wals \ {w} /\ doomed' = doomed \ {w}
    BY <1>8 DEF DropWal, Without
  <2>2. UNCHANGED <<phase, active, imms>>
    BY <1>8 DEF DropWal
  <2> QED  BY <2>1, <2>2 DEF LogsHeld
<1>9. CASE MergeBegins \/ MergeStep
  <2>1. UNCHANGED <<wals, phase, active, doomed, imms>>
    BY <1>9 DEF MergeBegins, MergeStep, MergeWrites, MergeRemoves, MergePublishes, memVars, dirVars
  <2> QED  BY <2>1 DEF LogsHeld
<1>10. CASE Close
  <2>1. phase = "up" /\ phase' = "closing" /\ UNCHANGED <<wals, doomed>> /\ active'.wal = active.wal
    BY <1>10 DEF Close, Typed, dirVars
  <2>2. CASE active.full
    <3>1. imms' = imms
      BY <1>10, <2>2 DEF Close
    <3> QED  BY <2>1, <3>1 DEF LogsHeld
  <2>3. CASE ~ active.full
    <3>1. imms' = Append(imms, Unflushed(active))
      BY <1>10, <2>3 DEF Close
    <3>2. /\ Len(imms') = Len(imms) + 1 /\ Len(imms) \in Nat
          /\ \A i \in 1 .. Len(imms) : imms'[i] = imms[i]
          /\ imms'[Len(imms) + 1].wal = active.wal
      BY <3>1, SwitchIs
    <3>3. /\ active.wal \in DOMAIN wals \ doomed
          /\ \A i \in 1 .. Len(imms) : imms[i].wal \in DOMAIN wals \ doomed /\ imms[i].wal < active.wal
      BY <2>1 DEF LogsHeld
    <3>4. \A i \in 1 .. Len(imms') :
             /\ imms'[i].wal \in DOMAIN wals \ doomed
             /\ i \notin 1 .. Len(imms) => i = Len(imms) + 1 /\ imms'[i].wal = active.wal
      BY <3>2, <3>3
    <3>5. \A i, j \in 1 .. Len(imms') : i < j => imms'[i].wal < imms'[j].wal
      <4> SUFFICES ASSUME NEW i \in 1 .. Len(imms'), NEW j \in 1 .. Len(imms'), i < j
                   PROVE  imms'[i].wal < imms'[j].wal
        OBVIOUS
      <4>1. i \in 1 .. Len(imms)
        BY <3>2
      <4>2. CASE j \in 1 .. Len(imms)
        BY <3>2, <4>1, <4>2 DEF LogsHeld
      <4>3. CASE j \notin 1 .. Len(imms)
        BY <3>2, <3>3, <3>4, <4>1, <4>3
      <4> QED  BY <4>2, <4>3
    <3> QED  BY <2>1, <3>4, <3>5 DEF LogsHeld
  <2> QED  BY <2>2, <2>3
<1>11. CASE OpenThrows \/ UNCHANGED vars
  <2>1. UNCHANGED <<wals, phase, active, doomed, imms>>
    BY <1>11 DEF OpenThrows, vars, dirVars, memVars
  <2> QED  BY <2>1 DEF LogsHeld
<1> QED  BY <1>1, <1>2, <1>3, <1>4, <1>5, <1>6, <1>7, <1>8, <1>9, <1>10, <1>11 DEF Next, ReplayStep, FlushStep

\* createNewMemTable: when the clock moves on from one switch to the next, each table in
\* memory has a log of its own, and no flush removes the log of another table.
THEOREM InductiveLogs ==
    ASSUME "clock" \notin Faults
    PROVE  Spec => [](Sound /\ LogsHeld)
<1>1. Init => Sound /\ LogsHeld
  <2>1. Init => LogsHeld
    BY DEF Init, LogsHeld
  <2> QED  BY <2>1, SoundAtStart, LifecycleAssumption
<1>2. (Sound /\ LogsHeld) /\ [Next]_vars => (Sound /\ LogsHeld)'
  BY SoundKept, LogsHeldKept, LifecycleAssumption
<1> QED  BY <1>1, <1>2, PTL DEF Spec

\* Types, the arena within its bounds, and no log removed that a flush is still to remove.
THEOREM TypeCorrect ==
    ASSUME "clock" \notin Faults
    PROVE  Spec => []TypeOK
<1>1. ASSUME Sound, LogsHeld PROVE TypeOK
  <2>1. \A i \in 1 .. Len(readers) : readers[i].name \in {0, 1} \X Nat /\ readers[i].recs \subseteq Ops
    <3>1. \A i \in 1 .. Len(readers) : readers[i] \in [name : {0, 1} \X Nat, recs : SUBSET Ops]
      BY <1>1, ElementOfSeq DEF Sound, Typed
    <3> QED  BY <3>1
  <2>2. todo \in Seq(DOMAIN wals)
    <3>1. \A i \in 1 .. Len(todo) : todo[i] \in DOMAIN wals
      BY <1>1 DEF Sound, Phases, Clocked
    <3>2. todo \in [1 .. Len(todo) -> Nat] /\ Len(todo) \in Nat
      BY <1>1, LenProperties DEF Sound, Typed
    <3>3. todo \in [1 .. Len(todo) -> DOMAIN wals]
      BY <3>1, <3>2
    <3> QED  BY <3>2, <3>3
  <2>3. \A n \in Names : files[n].recs \subseteq Ops /\ files[n].whole \in BOOLEAN
    BY <1>1 DEF Sound, Typed
  <2>4. merge.step \in {"none", "write", "remove"} /\ merge.in \subseteq L0Names
    BY <1>1 DEF Sound, Typed, Merging
  <2>5. imms \in Seq([wal : Nat, recs : Seq(Ops), step : {"new", "write", "failed"}, name : {0} \X Nat])
    BY <1>1 DEF Sound, Typed, Tables
  <2> QED  BY <1>1, <2>1, <2>2, <2>3, <2>4, <2>5 DEF TypeOK, Sound, Typed, Roomy, LogsHeld
<1> QED  BY <1>1, InductiveLogs, PTL

-----------------------------------------------------------------------------
(* What is stored: the versions, the tables and their logs.                *)

\* The faults and bounds under which the newest data are kept.
Paced == "clock" \notin Faults /\ MaxFlushing = 1
Benign == Paced /\ ("sst" \notin Faults \/ MaxCompactions <= 1)

Held == Sound /\ LogsHeld /\ Stored

\* A file that is created is new, and its number above all others.
LEMMA CreateIs ==
    ASSUME Typed, NEW n \in {0, 1} \X Nat, CreateFile(n), "behind" \notin mishaps'
    PROVE  /\ n \notin Names /\ \A m \in Names : m[2] < n[2]
           /\ DOMAIN files' = DOMAIN files \cup {n} /\ files'[n].recs = {} /\ ~ files'[n].whole
           /\ \A m \in Names : files'[m] = files[m]
<1>1. ~ \E m \in Names : m[2] >= n[2]
  BY DEF CreateFile
<1>2. \A m \in Names : m[2] \in Nat
  BY DEF Typed, Names
<1>3. n[2] \in Nat
  OBVIOUS
<1>4. \A m \in Names : m[2] < n[2]
  BY <1>1, <1>2, <1>3
<1>5. n \notin Names
  BY <1>1, <1>3
<1>6. /\ DOMAIN files' = DOMAIN files \cup {n} /\ files'[n] = [recs |-> {}, whole |-> FALSE]
      /\ \A m \in DOMAIN files : m # n => files'[m] = files[m]
  BY CreateTyped
<1> QED  BY <1>4, <1>5, <1>6 DEF Names

LEMMA FlushCreates ==
    ASSUME Typed, NEW i \in 1 .. Len(imms), FlushBegins(i), "behind" \notin mishaps'
    PROVE  \E f \in {0} \X Nat :
              /\ imms'[i].name = f /\ f \notin Names /\ \A m \in Names : m[2] < f[2]
              /\ DOMAIN files' = DOMAIN files \cup {f} /\ files'[f].recs = {} /\ ~ files'[f].whole
              /\ \A m \in Names : files'[m] = files[m]
<1>1. gen + 1 \in Nat
  BY DEF Typed
<1>2. PICK f : f = <<0, gen + 1>>
  OBVIOUS
<1>3. f \in {0} \X Nat /\ f \in {0, 1} \X Nat
  BY <1>1, <1>2
<1>4. CreateFile(f) /\ imms'[i].name = f
  BY <1>2, BeginIs DEF FlushBegins
<1> QED  BY <1>3, <1>4, CreateIs

LEMMA MergeCreates ==
    ASSUME Typed, MergeBegins, "behind" \notin mishaps'
    PROVE  \E f \in {1} \X Nat :
              /\ merge'.out = f /\ f \notin Names
              /\ DOMAIN files' = DOMAIN files \cup {f} /\ files'[f].recs = {} /\ ~ files'[f].whole
              /\ \A m \in Names : files'[m] = files[m]
<1>1. gen + 1 \in Nat
  BY DEF Typed
<1>2. PICK f : f = <<1, gen + 1>>
  OBVIOUS
<1>3. f \in {1} \X Nat /\ f \in {0, 1} \X Nat
  BY <1>1, <1>2
<1>4. CreateFile(f) /\ merge'.out = f
  BY <1>2 DEF MergeBegins
<1> QED  BY <1>3, <1>4, CreateIs

\* A flush that is being written is the only one, and nothing else is under way.
LEMMA FinishIs ==
    ASSUME Typed, Writing, NEW i \in 1 .. Len(imms), FlushFinishes(i)
    PROVE  /\ imms[i].wal \in Nat /\ imms[i].recs \in Seq(Ops) /\ imms[i].name \in L0Names
           /\ imms[i].step = "write" /\ doomed = {} /\ merge.step = "none" /\ ~ files[imms[i].name].whole
           /\ \A j \in 1 .. Len(imms) : (j < i => imms[j].step = "failed") /\ (j > i => imms[j].step = "new")
           /\ DOMAIN files' = DOMAIN files
           /\ files'[imms[i].name].recs = Survivors(imms[i].recs) /\ files'[imms[i].name].whole
           /\ \A m \in Names : m # imms[i].name => files'[m] = files[m]
           /\ wals' = wals
<1>1. imms[i] \in Tables
  BY DEF Typed
<1>2. imms[i].wal \in Nat /\ imms[i].recs \in Seq(Ops) /\ imms[i].name \in {0} \X Nat
  BY <1>1 DEF Tables
<1>3. imms[i].step = "write" /\ wals' = wals
  BY DEF FlushFinishes
<1>4. doomed = {} /\ merge.step = "none" /\ imms[i].name \in Names /\ ~ files[imms[i].name].whole
  BY <1>3 DEF Writing
<1>5. ASSUME NEW j \in 1 .. Len(imms)
      PROVE  (j < i => imms[j].step = "failed") /\ (j > i => imms[j].step = "new")
  BY <1>3 DEF Writing
<1>6. files' = [files EXCEPT ![imms[i].name] = [recs |-> Survivors(imms[i].recs), whole |-> TRUE]]
  BY DEF FlushFinishes, FinishFile
<1>7. /\ DOMAIN files' = DOMAIN files
      /\ files'[imms[i].name].recs = Survivors(imms[i].recs) /\ files'[imms[i].name].whole
      /\ \A m \in Names : m # imms[i].name => files'[m] = files[m]
  <2> DEFINE n == imms[i].name
             s == Survivors(imms[i].recs)
  <2>1. n \in DOMAIN files /\ files' = [files EXCEPT ![n] = [recs |-> s, whole |-> TRUE]]
    BY <1>4, <1>6 DEF Names
  <2> HIDE DEF n, s
  <2>2. DOMAIN files' = DOMAIN files /\ files'[n].recs = s /\ files'[n].whole
        /\ \A m \in Names : m # n => files'[m] = files[m]
    BY <2>1 DEF Names
  <2> QED  BY <2>2 DEF n, s
<1> QED  BY <1>2, <1>3, <1>4, <1>5, <1>7 DEF L0Names, Names

LEMMA WriteIs ==
    ASSUME Typed, Merging, MergeWrites
    PROVE  /\ merge.out \in Names /\ merge.out[1] = 1
           /\ DOMAIN files' = DOMAIN files
           /\ files'[merge.out].recs = Merged /\ files'[merge.out].whole
           /\ \A m \in Names : m # merge.out => files'[m] = files[m]
           /\ merge'.in = merge.in /\ merge'.out = merge.out /\ merge'.step = "remove"
           /\ wals' = wals
<1>1. merge.out \in Names /\ merge.out[1] = 1 /\ wals' = wals
  BY DEF Merging, MergeWrites, Typed
<1>2. files' = [files EXCEPT ![merge.out] = [recs |-> Merged, whole |-> TRUE]]
  BY DEF MergeWrites
<1>3. merge'.in = merge.in /\ merge'.out = merge.out /\ merge'.step = "remove"
  BY DEF MergeWrites, Typed
<1> QED  BY <1>1, <1>2, <1>3 DEF Names

LEMMA RemoveIs ==
    ASSUME Typed, Merging, MergeRemoves
    PROVE  \E n \in merge.in :
              /\ n[1] = 0 /\ merge.out[1] = 1 /\ merge.out \in Names
              /\ DOMAIN files' = DOMAIN files \ {n} /\ \A m \in DOMAIN files' : files'[m] = files[m]
              /\ merge'.in = merge.in \ {n} /\ merge'.out = merge.out /\ merge'.step = "remove"
              /\ merge.step = "remove"
<1>1. PICK n \in merge.in : files' = Without(files, n) /\ merge' = [merge EXCEPT !.in = @ \ {n}]
  BY DEF MergeRemoves
<1>2. DOMAIN files' = DOMAIN files \ {n} /\ \A m \in DOMAIN files' : files'[m] = files[m]
  BY <1>1 DEF Without
<1>3. merge'.in = merge.in \ {n} /\ merge'.out = merge.out /\ merge'.step = "remove" /\ merge.step = "remove"
  BY <1>1 DEF Typed, MergeRemoves
<1>4. n[1] = 0 /\ merge.out[1] = 1 /\ merge.out \in Names
  BY <1>3 DEF Typed, Merging, L0Names
<1> QED  BY <1>2, <1>3, <1>4

\* Records of a log or of a file are known.
LEMMA RecordsKnown ==
    ASSUME Typed, Versions
    PROVE  /\ \A w \in DOMAIN wals : \A i \in 1 .. Len(wals[w]) :
                 wals[w][i] \in Ops /\ Known(wals[w][i]) /\ wals[w][i].key \in Keys /\ wals[w][i].ver <= puts
           /\ \A n \in Names : \A r \in files[n].recs :
                 r \in Ops /\ Known(r) /\ r.key \in Keys /\ r.ver <= puts
<1>1. \A r \in Ops : Known(r) => r.key \in Keys /\ r.ver <= puts
  <2> TAKE r \in Ops
  <2> HAVE Known(r)
  <2>1. r.key \in Keys /\ r.ver \in Nat
    BY DEF Ops
  <2>2. latest[r.key].ver <= puts /\ latest[r.key].ver \in Nat /\ puts \in Nat
    BY <2>1 DEF Versions, Typed
  <2> QED  BY <2>1, <2>2 DEF Known
<1>2. \A w \in DOMAIN wals : \A i \in 1 .. Len(wals[w]) : wals[w][i] \in Ops /\ Known(wals[w][i])
  <2> TAKE w \in DOMAIN wals
  <2>1. wals[w] \in Seq(Ops)
    BY DEF Typed
  <2> QED  BY <2>1, ElementOfSeq DEF Versions
<1>3. \A n \in Names : \A r \in files[n].recs : r \in Ops /\ Known(r)
  BY DEF Typed, Versions
<1> QED  BY <1>1, <1>2, <1>3

LEMMA VersionsStay ==
    ASSUME Versions, UNCHANGED <<latest, puts>>,
           \A w \in DOMAIN wals' : \A i \in 1 .. Len(wals'[w]) : Known(wals'[w][i]),
           \A n \in DOMAIN files' : \A r \in files'[n].recs : Known(r)
    PROVE  Versions'
BY DEF Versions, Known, Names

LEMMA VersionsKept ==
    ASSUME LifecycleAssumption, Held, [Next]_vars, mishaps' = {}
    PROVE  Versions'
<1> USE DEF Held, Sound, Stored
<1>1. CASE Open
  <2>1. /\ DOMAIN wals' = DOMAIN wals \cup {now'} /\ wals'[now'] = <<>>
        /\ \A w \in DOMAIN wals : wals'[w] = wals[w]
    BY <1>1, OpenIs
  <2>2. UNCHANGED <<files, latest, puts>>
    BY <1>1 DEF Open, history
  <2>3. \A w \in DOMAIN wals' : \A i \in 1 .. Len(wals'[w]) : Known(wals'[w][i])
    BY <2>1 DEF Versions
  <2> QED  BY <2>2, <2>3, VersionsStay DEF Versions, Names
<1>2. CASE ReplayRecord
  <2> DEFINE r == wals[todo[1]][done + 1]
  <2>1. /\ todo[1] \in DOMAIN wals /\ done + 1 \in 1 .. Len(wals[todo[1]]) /\ active.wal \in DOMAIN wals
        /\ DOMAIN wals' = DOMAIN wals /\ r \in Ops
        /\ wals'[active.wal] = Append(wals[active.wal], r)
        /\ \A w \in DOMAIN wals : w # active.wal => wals'[w] = wals[w]
    BY <1>2, ReplayIs
  <2>2. UNCHANGED <<files, latest, puts>>
    BY <1>2 DEF ReplayRecord, history, bounds
  <2>3. Known(r)
    BY <2>1 DEF Versions
  <2> HIDE DEF r
  <2>4. \A i \in 1 .. Len(wals'[active.wal]) : Known(wals'[active.wal][i])
    <3>1. wals[active.wal] \in Seq(Ops)
      BY <2>1 DEF Typed
    <3>2. \A i \in 1 .. Len(wals'[active.wal]) :
             \/ i \in 1 .. Len(wals[active.wal]) /\ wals'[active.wal][i] = wals[active.wal][i]
             \/ wals'[active.wal][i] = r
      BY <2>1, <3>1, Appended
    <3> QED  BY <2>1, <2>3, <3>2 DEF Versions
  <2>5. \A w \in DOMAIN wals' : \A i \in 1 .. Len(wals'[w]) : Known(wals'[w][i])
    BY <2>1, <2>4 DEF Versions
  <2> QED  BY <2>2, <2>5, VersionsStay DEF Versions, Names
<1>3. CASE RemoveReplayedWal
  <2>1. DOMAIN wals' \subseteq DOMAIN wals /\ \A w \in DOMAIN wals' : wals'[w] = wals[w]
    BY <1>3, ReplayedIs
  <2>2. UNCHANGED <<files, latest, puts>>
    BY <1>3 DEF RemoveReplayedWal, history, bounds
  <2> QED  BY <2>1, <2>2, VersionsStay DEF Versions, Names
<1>4. CASE PutOrRemove
  <2>1. PICK r \in Ops :
              /\ r.ver = puts + 1 /\ Store(r)
              /\ \/ /\ DOMAIN wals' = DOMAIN wals
                    /\ active.wal \in DOMAIN wals => wals'[active.wal] = Append(wals[active.wal], r)
                    /\ \A w \in DOMAIN wals : w # active.wal => wals'[w] = wals[w]
                 \/ /\ DOMAIN wals' = DOMAIN wals \cup {now'}
                    /\ wals'[now'] = IF now' \in DOMAIN wals THEN Append(wals[now'], r) ELSE <<r>>
                    /\ \A w \in DOMAIN wals : w # now' => wals'[w] = wals[w]
    BY <1>4, PutLogs
  <2>2. files' = files /\ puts' = r.ver /\ latest' = [latest EXCEPT ![r.key] = r]
    BY <2>1 DEF Store
  <2>3. r.key \in Keys /\ r.ver \in Nat /\ puts \in Nat /\ r.ver # 0
    BY <2>1 DEF Ops, Typed
  <2>4. latest \in [Keys -> [key : Keys, ver : 0 .. MaxPuts, del : BOOLEAN]]
    BY DEF Typed
  <2>5. latest'[r.key] = r /\ \A k \in Keys : k # r.key => latest'[k] = latest[k]
    BY <2>2, <2>3, <2>4
  <2>6. \A k \in Keys : latest'[k].key = k /\ latest'[k].ver <= puts' /\ (latest'[k].ver = 0 => latest'[k].del)
    <3> SUFFICES ASSUME NEW k \in Keys
                 PROVE  latest'[k].key = k /\ latest'[k].ver <= puts' /\ (latest'[k].ver = 0 => latest'[k].del)
      OBVIOUS
    <3>1. latest[k].key = k /\ latest[k].ver <= puts /\ latest[k].ver \in Nat /\ (latest[k].ver = 0 => latest[k].del)
      BY <2>4 DEF Versions
    <3> QED  BY <2>1, <2>2, <2>3, <2>5, <3>1
  <2>7. \A x \in Ops : Known(x) /\ x.key \in Keys /\ x.ver <= puts => Known(x)'
    <3> SUFFICES ASSUME NEW x \in Ops, Known(x), x.key \in Keys, x.ver <= puts PROVE Known(x)'
      OBVIOUS
    <3>1. x.ver \in Nat
      BY DEF Ops
    <3>2. CASE x.key = r.key
      BY <2>1, <2>3, <2>5, <3>1, <3>2 DEF Known
    <3>3. CASE x.key # r.key
      BY <2>5, <3>3 DEF Known
    <3> QED  BY <3>2, <3>3
  <2>8. Known(r)'
    BY <2>3, <2>5 DEF Known
  <2>9. \A n \in DOMAIN files' : \A x \in files'[n].recs : Known(x)'
    BY <2>2, <2>7, RecordsKnown DEF Names
  <2>10. \A w \in DOMAIN wals : \A i \in 1 .. Len(wals[w]) : \A y : y = wals[w][i] => Known(y)'
    BY <2>7, RecordsKnown
  <2>11. \A w \in DOMAIN wals : \A i \in 1 .. Len(Append(wals[w], r)) : \A y : y = Append(wals[w], r)[i] => Known(y)'
    <3> TAKE w \in DOMAIN wals
    <3>1. wals[w] \in Seq(Ops)
      BY DEF Typed
    <3>2. \A i \in 1 .. Len(Append(wals[w], r)) :
             \/ i \in 1 .. Len(wals[w]) /\ Append(wals[w], r)[i] = wals[w][i]
             \/ Append(wals[w], r)[i] = r
      BY <3>1, Appended
    <3> QED  BY <2>8, <2>10, <3>2
  <2>12. ASSUME NEW w \in DOMAIN wals', NEW i \in 1 .. Len(wals'[w]), NEW y, y = wals'[w][i] PROVE Known(y)'
    <3>1. \/ w \in DOMAIN wals /\ wals'[w] = wals[w]
          \/ w \in DOMAIN wals /\ wals'[w] = Append(wals[w], r)
          \/ wals'[w] = <<r>>
      BY <2>1
    <3>2. CASE wals'[w] = <<r>>
      BY <2>8, <2>12, <3>2
    <3> QED  BY <2>10, <2>11, <2>12, <3>1, <3>2
  <2> QED  BY <2>6, <2>9, <2>12 DEF Versions, Names
<1>5. ASSUME NEW i \in 1 .. Len(imms), FlushBegins(i) PROVE Versions'
  <2>1. UNCHANGED <<wals, latest, puts>>
    BY <1>5 DEF FlushBegins, bounds
  <2>2. PICK f : /\ DOMAIN files' = DOMAIN files \cup {f} /\ files'[f].recs = {}
                 /\ \A m \in Names : files'[m] = files[m]
    BY <1>5, FlushCreates
  <2>3. \A n \in DOMAIN files' : \A r \in files'[n].recs : Known(r)
    BY <2>2 DEF Versions, Names
  <2> QED  BY <2>1, <2>3, VersionsStay DEF Versions
<1>6. ASSUME NEW i \in 1 .. Len(imms), FlushFinishes(i) PROVE Versions'
  <2>1. UNCHANGED <<wals, latest, puts>>
    BY <1>6 DEF FlushFinishes, history, bounds
  <2>2. /\ imms[i].recs \in Seq(Ops)
        /\ DOMAIN files' = DOMAIN files
        /\ files'[imms[i].name].recs = Survivors(imms[i].recs)
        /\ \A m \in Names : m # imms[i].name => files'[m] = files[m]
    BY <1>6, FinishIs
  <2>3. imms[i].wal \in DOMAIN wals /\ wals[imms[i].wal] = imms[i].recs
    BY DEF LogsHeld, TableLogs
  <2>4. \A r \in Survivors(imms[i].recs) : Known(r)
    <3>1. PICK recs \in Seq(Ops) : recs = imms[i].recs
      BY <2>2
    <3>2. \A r \in Survivors(recs) : \E m \in 1 .. Len(recs) : recs[m] = r
      BY SurvivorsAre
    <3> QED  BY <2>3, <3>1, <3>2 DEF Versions
  <2>5. \A n \in DOMAIN files' : \A r \in files'[n].recs : Known(r)
    BY <2>2, <2>4 DEF Versions, Names
  <2> QED  BY <2>1, <2>5, VersionsStay DEF Versions
<1>7. CASE DropWal
  <2>1. UNCHANGED <<files, latest, puts>> /\ \E w \in doomed : wals' = Without(wals, w)
    BY <1>7 DEF DropWal, history, bounds
  <2>2. DOMAIN wals' \subseteq DOMAIN wals /\ \A w \in DOMAIN wals' : wals'[w] = wals[w]
    BY <2>1 DEF Without
  <2> QED  BY <2>1, <2>2, VersionsStay DEF Versions, Names
<1>8. CASE MergeBegins
  <2>1. UNCHANGED <<wals, latest, puts>>
    BY <1>8 DEF MergeBegins
  <2>2. PICK f : /\ DOMAIN files' = DOMAIN files \cup {f} /\ files'[f].recs = {}
                 /\ \A m \in Names : files'[m] = files[m]
    BY <1>8, MergeCreates
  <2>3. \A n \in DOMAIN files' : \A r \in files'[n].recs : Known(r)
    BY <2>2 DEF Versions, Names
  <2> QED  BY <2>1, <2>3, VersionsStay DEF Versions
<1>9. CASE MergeWrites
  <2>1. UNCHANGED <<wals, latest, puts>>
    BY <1>9 DEF MergeWrites, history, bounds
  <2>2. /\ DOMAIN files' = DOMAIN files /\ files'[merge.out].recs = Merged
        /\ \A m \in Names : m # merge.out => files'[m] = files[m]
    BY <1>9, WriteIs
  <2>3. \A r \in Merged : Known(r)
    BY MergedAre DEF Merging, L0Names, Versions
  <2>4. \A n \in DOMAIN files' : \A r \in files'[n].recs : Known(r)
    BY <2>2, <2>3 DEF Versions, Names
  <2> QED  BY <2>1, <2>4, VersionsStay DEF Versions
<1>10. CASE MergeRemoves
  <2>1. UNCHANGED <<wals, latest, puts>>
    BY <1>10 DEF MergeRemoves, history, bounds
  <2>2. DOMAIN files' \subseteq DOMAIN files /\ \A m \in DOMAIN files' : files'[m] = files[m]
    BY <1>10, RemoveIs
  <2>3. \A n \in DOMAIN files' : \A r \in files'[n].recs : Known(r)
    BY <2>2 DEF Versions, Names
  <2> QED  BY <2>1, <2>3, VersionsStay DEF Versions
<1>11. CASE \/ OpenThrows \/ ReplayThrows \/ Crash \/ Exit \/ MergePublishes \/ Close \/ UNCHANGED vars
            \/ \E i \in 1 .. Len(imms) : FlushThrows(i)
  <2>1. UNCHANGED <<files, wals, latest, puts>>
    BY <1>11 DEF OpenThrows, ReplayThrows, Crash, Exit, MergePublishes, Close, FlushThrows, vars, dirVars, history, bounds
  <2> QED  BY <2>1 DEF Versions, Known, Names
<1> QED
  BY <1>1, <1>2, <1>3, <1>4, <1>5, <1>6, <1>7, <1>8, <1>9, <1>10, <1>11 DEF Next, ReplayStep, FlushStep, MergeStep

LEMMA TableLogsKept ==
    ASSUME LifecycleAssumption, Paced, Sound, LogsHeld, TableLogs, [Next]_vars
    PROVE  TableLogs'
<1> USE DEF Sound
<1>1. CASE Open
  <2>1. wals'[now'] = <<>> /\ active'.wal = now' /\ active'.recs = <<>>
    BY <1>1, OpenIs
  <2>2. imms' = <<>>
    BY <1>1 DEF Open, Phases
  <2> QED  BY <2>1, <2>2 DEF TableLogs
<1>2. CASE ReplayRecord
  <2>1. /\ active'.wal = active.wal /\ wals[active.wal] = active.recs /\ imms' = <<>>
    BY <1>2, ReplayIs DEF ReplayRecord, Phases, TableLogs
  <2>2. active'.recs = wals'[active.wal]
    BY <1>2, <2>1, ReplayIs
  <2> QED  BY <2>1, <2>2 DEF TableLogs
<1>3. CASE ReplayThrows \/ Crash \/ Exit
  <2>1. imms' = <<>> /\ phase' = "down"
    BY <1>3 DEF ReplayThrows, Crash, Exit, ProcessEnds
  <2> QED  BY <2>1 DEF TableLogs
<1>4. CASE RemoveReplayedWal
  <2>1. /\ active' = active /\ active.wal \in DOMAIN wals' /\ wals'[active.wal] = wals[active.wal]
    BY <1>4, ReplayedIs
  <2>2. imms' = <<>> /\ phase = "replay"
    BY <1>4 DEF RemoveReplayedWal, Phases, memVars
  <2> QED  BY <2>1, <2>2 DEF TableLogs
<1>5. CASE PutOrRemove
  <2>1. PICK r \in Ops :
              /\ Store(r) /\ phase = "up"
              /\ \/ /\ active'.wal = active.wal /\ active'.recs = Append(active.recs, r)
                    /\ imms' = imms
                    /\ active.wal \in DOMAIN wals => wals'[active.wal] = Append(wals[active.wal], r)
                    /\ \A w \in DOMAIN wals : w # active.wal => wals'[w] = wals[w]
                 \/ /\ now' \in WalNames
                    /\ active'.wal = now' /\ active'.recs = <<r>>
                    /\ wals'[now'] = IF now' \in DOMAIN wals THEN Append(wals[now'], r) ELSE <<r>>
                    /\ \A w \in DOMAIN wals : w # now' => wals'[w] = wals[w]
                    /\ imms' = Append(imms, Unflushed(active))
    BY <1>5, PutLogs
  <2>2. /\ wals[active.wal] = active.recs /\ active.wal \in DOMAIN wals /\ active.wal \in Nat
        /\ \A i \in 1 .. Len(imms) : imms[i].wal \in DOMAIN wals /\ imms[i].wal < active.wal
        /\ \A i \in 1 .. Len(imms) : wals[imms[i].wal] = imms[i].recs
    BY <2>1 DEF TableLogs, LogsHeld, Typed
  <2>3. CASE /\ active'.wal = active.wal /\ active'.recs = Append(active.recs, r)
             /\ imms' = imms
             /\ active.wal \in DOMAIN wals => wals'[active.wal] = Append(wals[active.wal], r)
             /\ \A w \in DOMAIN wals : w # active.wal => wals'[w] = wals[w]
    <3>1. \A i \in 1 .. Len(imms) : wals'[imms[i].wal] = imms[i].recs
      <4> TAKE i \in 1 .. Len(imms)
      <4>1. imms[i].wal # active.wal
        BY <2>2
      <4> QED  BY <2>2, <2>3, <4>1
    <3> QED  BY <2>2, <2>3, <3>1 DEF TableLogs
  <2>4. CASE /\ now' \in WalNames
             /\ active'.wal = now' /\ active'.recs = <<r>>
             /\ wals'[now'] = IF now' \in DOMAIN wals THEN Append(wals[now'], r) ELSE <<r>>
             /\ \A w \in DOMAIN wals : w # now' => wals'[w] = wals[w]
             /\ imms' = Append(imms, Unflushed(active))
    <3>1. now' = now + 1 /\ now \in Nat
      BY <2>4 DEF WalNames, Typed, Paced
    <3>2. now' \notin DOMAIN wals
      BY <3>1 DEF Clocked, Typed
    <3>3. /\ Len(imms') = Len(imms) + 1 /\ Len(imms) \in Nat
          /\ \A j \in 1 .. Len(imms) : imms'[j] = imms[j]
          /\ imms'[Len(imms) + 1].wal = active.wal /\ imms'[Len(imms) + 1].recs = active.recs
      BY <2>4, SwitchIs
    <3>4. \A w \in DOMAIN wals : wals'[w] = wals[w]
      BY <2>4, <3>2
    <3>5. \A i \in 1 .. Len(imms') : wals'[imms'[i].wal] = imms'[i].recs
      <4> TAKE i \in 1 .. Len(imms')
      <4>1. CASE i \in 1 .. Len(imms)
        BY <2>2, <3>3, <3>4, <4>1
      <4>2. CASE i = Len(imms) + 1
        BY <2>2, <3>3, <3>4, <4>2
      <4> QED  BY <3>3, <4>1, <4>2
    <3> QED  BY <2>4, <3>2, <3>5 DEF TableLogs
  <2> QED  BY <2>1, <2>3, <2>4
<1>6. ASSUME NEW i \in 1 .. Len(imms), FlushBegins(i) \/ FlushThrows(i) PROVE TableLogs'
  <2>1. UNCHANGED <<wals, phase, active>>
    BY <1>6 DEF FlushBegins, FlushThrows, dirVars
  <2>2. Len(imms') = Len(imms) /\ \A j \in 1 .. Len(imms) : imms'[j].wal = imms[j].wal /\ imms'[j].recs = imms[j].recs
    BY <1>6, BeginIs, ThrowIs
  <2> QED  BY <2>1, <2>2 DEF TableLogs
<1>7. ASSUME NEW i \in 1 .. Len(imms), FlushFinishes(i) PROVE TableLogs'
  <2>1. UNCHANGED <<wals, phase, active>> /\ imms' = RemoveAt(imms, i)
    BY <1>7 DEF FlushFinishes
  <2>2. \A j \in 1 .. Len(imms') : \E h \in 1 .. Len(imms) : imms'[j] = imms[h]
    BY <2>1, OneLess, SMTT(20)
  <2> QED  BY <2>1, <2>2 DEF TableLogs
<1>8. CASE DropWal
  <2>1. PICK w \in doomed : wals' = Without(wals, w)
    BY <1>8 DEF DropWal
  <2>2. \A v \in DOMAIN wals : v # w => wals'[v] = wals[v]
    BY <2>1 DEF Without
  <2>3. UNCHANGED <<phase, active, imms>> /\ phase # "replay"
    BY <1>8 DEF DropWal, Running
  <2> QED  BY <2>2, <2>3 DEF TableLogs, LogsHeld
<1>9. CASE Close
  <2>1. phase = "up" /\ phase' = "closing" /\ wals' = wals
    BY <1>9 DEF Close, dirVars
  <2>2. CASE imms' = imms
    BY <2>1, <2>2 DEF TableLogs
  <2>3. CASE imms' = Append(imms, Unflushed(active))
    <3>1. /\ Len(imms') = Len(imms) + 1 /\ Len(imms) \in Nat
          /\ \A j \in 1 .. Len(imms) : imms'[j] = imms[j]
          /\ imms'[Len(imms) + 1].wal = active.wal /\ imms'[Len(imms) + 1].recs = active.recs
      BY <2>3, SwitchIs
    <3>2. \A i \in 1 .. Len(imms') : wals[imms'[i].wal] = imms'[i].recs
      <4> TAKE i \in 1 .. Len(imms')
      <4>1. CASE i \in 1 .. Len(imms)
        BY <3>1, <4>1 DEF TableLogs
      <4>2. CASE i = Len(imms) + 1
        BY <2>1, <3>1, <4>2 DEF TableLogs
      <4> QED  BY <3>1, <4>1, <4>2
    <3> QED  BY <2>1, <3>2 DEF TableLogs
  <2> QED  BY <1>9, <2>2, <2>3 DEF Close
<1>10. CASE OpenThrows \/ MergeBegins \/ MergeStep \/ UNCHANGED vars
  <2>1. UNCHANGED <<wals, phase, active, imms>>
    BY <1>10 DEF OpenThrows, MergeBegins, MergeStep, MergeWrites, MergeRemoves, MergePublishes, vars, dirVars, memVars
  <2> QED  BY <2>1 DEF TableLogs
<1> QED  BY <1>1, <1>2, <1>3, <1>4, <1>5, <1>6, <1>7, <1>8, <1>9, <1>10 DEF Next, ReplayStep, FlushStep

-----------------------------------------------------------------------------
(* The order of the logs and their replay.                                 *)

\* A record behind the others, none of them newer.
LEMMA AscendingOneMore ==
    ASSUME NEW s \in Seq(Ops), Ascending(s), NEW r \in Ops,
           \A i \in 1 .. Len(s) : s[i].key = r.key => s[i].ver <= r.ver
    PROVE  Ascending(Append(s, r))
<1> DEFINE t == Append(s, r)
<1>1. Len(s) \in Nat /\ Len(t) = Len(s) + 1 /\ (\A i \in 1 .. Len(s) : t[i] = s[i]) /\ t[Len(s) + 1] = r
  BY OneMore
<1> HIDE DEF t
<1>2. ASSUME NEW i \in 1 .. Len(t), NEW j \in 1 .. Len(t), i < j, t[i].key = t[j].key PROVE t[i].ver <= t[j].ver
  <2>1. i \in 1 .. Len(s)
    BY <1>1, <1>2
  <2>2. CASE j \in 1 .. Len(s)
    BY <1>1, <1>2, <2>1, <2>2 DEF Ascending
  <2>3. CASE j = Len(s) + 1
    BY <1>1, <1>2, <2>1, <2>3
  <2> QED  BY <1>1, <2>2, <2>3
<1> QED  BY <1>2 DEF Ascending, t

LEMMA BeforeOneMore ==
    ASSUME NEW a \in Seq(Ops), NEW b \in Seq(Ops), Before(a, b), NEW r \in Ops
    PROVE  /\ (\A i \in 1 .. Len(a) : a[i].key = r.key => a[i].ver <= r.ver) => Before(a, Append(b, r))
           /\ (\A j \in 1 .. Len(b) : r.key = b[j].key => r.ver <= b[j].ver) => Before(Append(a, r), b)
<1>1. ASSUME \A i \in 1 .. Len(a) : a[i].key = r.key => a[i].ver <= r.ver PROVE Before(a, Append(b, r))
  <2> DEFINE t == Append(b, r)
  <2>1. \A i \in 1 .. Len(t) : (i \in 1 .. Len(b) /\ t[i] = b[i]) \/ t[i] = r
    BY Appended
  <2> HIDE DEF t
  <2>2. Before(a, t)
    BY <1>1, <2>1 DEF Before
  <2> QED  BY <2>2 DEF t
<1>2. ASSUME \A j \in 1 .. Len(b) : r.key = b[j].key => r.ver <= b[j].ver PROVE Before(Append(a, r), b)
  <2> DEFINE t == Append(a, r)
  <2>1. \A i \in 1 .. Len(t) : (i \in 1 .. Len(a) /\ t[i] = a[i]) \/ t[i] = r
    BY Appended
  <2> HIDE DEF t
  <2>2. Before(t, b)
    BY <1>2, <2>1 DEF Before
  <2> QED  BY <2>2 DEF t
<1> QED  BY <1>1, <1>2

\* A start-up that ends without a mishap has replayed nothing yet.
LEMMA EndIs ==
    ASSUME Typed, ReplayThrows \/ Crash \/ Exit, mishaps' = {}
    PROVE  /\ phase' = "down" /\ phase # "down" /\ imms' = <<>> /\ doomed' = {} /\ merge' = NoMerge /\ active'.wal = 0
           /\ UNCHANGED <<files, wals, latest, puts, rounds>>
           /\ phase = "replay" => active.recs = <<>>
<1>1. ProcessEnds /\ UNCHANGED <<dirVars, latest, bounds>> /\ phase # "down"
  BY DEF ReplayThrows, Crash, Exit
<1>2. phase = "replay" => active.recs = <<>>
  BY <1>1 DEF ProcessEnds
<1> QED  BY <1>1, <1>2 DEF ProcessEnds, NoTable, dirVars, bounds

LEMMA LogsSortedKept ==
    ASSUME LifecycleAssumption, Benign, Held, [Next]_vars, mishaps' = {}
    PROVE  LogsSorted'
<1> USE DEF Held, Sound, Stored
<1>1. \A w \in DOMAIN wals : wals[w] \in Seq(Ops)
  BY DEF Typed
<1>2. CASE Open
  <2>1. /\ DOMAIN wals' = DOMAIN wals \cup {now'} /\ wals'[now'] = <<>>
        /\ \A w \in DOMAIN wals : wals'[w] = wals[w]
    BY <1>2, OpenIs
  <2>2. phase = "down"
    BY <1>2 DEF Open
  <2>3. \A s : Before(s, <<>>) /\ Before(<<>>, s) /\ Ascending(<<>>)
    BY DEF Before, Ascending
  <2>4. \A w \in DOMAIN wals' : Ascending(wals'[w])
    BY <2>1, <2>3 DEF LogsSorted
  <2>5. \A v, w \in DOMAIN wals' : v < w => Before(wals'[v], wals'[w])
    BY <2>1, <2>2, <2>3 DEF LogsSorted
  <2> QED  BY <2>4, <2>5 DEF LogsSorted
<1>3. CASE ReplayRecord
  <2> DEFINE r == wals[todo[1]][done + 1]
  <2>1. /\ todo[1] \in DOMAIN wals /\ done + 1 \in 1 .. Len(wals[todo[1]]) /\ active.wal \in DOMAIN wals
        /\ active'.wal = active.wal
        /\ DOMAIN wals' = DOMAIN wals /\ r \in Ops
        /\ wals'[active.wal] = Append(wals[active.wal], r)
        /\ \A w \in DOMAIN wals : w # active.wal => wals'[w] = wals[w]
    BY <1>3, ReplayIs
  <2>2. phase = "replay" /\ phase' = "replay" /\ wals[active.wal] = active.recs
    BY <1>3 DEF ReplayRecord, TableLogs
  <2>3. \A i \in 1 .. Len(active.recs) : active.recs[i].key = r.key => active.recs[i].ver <= r.ver
    <3>1. done + 1 \in done + 1 .. Len(wals[todo[1]])
      BY <2>1 DEF Typed
    <3> QED  BY <2>2, <3>1 DEF Replayed
  <2> HIDE DEF r
  <2>4. \A w \in DOMAIN wals : w # active.wal => w < active.wal
    BY <2>2 DEF Accounted, Clocked
  <2>5. Ascending(wals'[active.wal])
    BY <1>1, <2>1, <2>2, <2>3, AscendingOneMore DEF LogsSorted
  <2>6. \A w \in DOMAIN wals' : Ascending(wals'[w])
    BY <2>1, <2>5 DEF LogsSorted
  <2>7. \A w \in DOMAIN wals : w \in Nat
    BY DEF Typed
  <2>8. \A v, w \in DOMAIN wals' : v < w /\ w # active.wal => Before(wals'[v], wals'[w])
    <3> SUFFICES ASSUME NEW v \in DOMAIN wals, NEW w \in DOMAIN wals, v < w, w # active.wal
                 PROVE  Before(wals'[v], wals'[w])
      BY <2>1
    <3>1. v # active.wal
      BY <2>1, <2>4, <2>7
    <3> QED  BY <2>1, <3>1 DEF LogsSorted
  <2> QED  BY <2>1, <2>2, <2>6, <2>8 DEF LogsSorted
<1>4. CASE ReplayThrows \/ Crash \/ Exit
  <2>1. phase' = "down" /\ wals' = wals /\ (phase = "replay" => active.recs = <<>>)
    BY <1>4, EndIs
  <2>2. \A s : Before(s, <<>>)
    BY DEF Before
  <2>3. \A v, w \in DOMAIN wals : v < w => Before(wals[v], wals[w])
    BY <2>1, <2>2 DEF LogsSorted, TableLogs
  <2> QED  BY <2>1, <2>3 DEF LogsSorted
<1>5. CASE RemoveReplayedWal
  <2>1. /\ DOMAIN wals' = DOMAIN wals \ {todo[1]} /\ \A w \in DOMAIN wals' : wals'[w] = wals[w]
        /\ active' = active /\ Len(todo') = Len(todo) - 1 /\ 1 \in 1 .. Len(todo) /\ Len(todo) \in Nat
        /\ phase' = (IF todo' = <<>> THEN "up" ELSE "replay")
    BY <1>5, ReplayedIs
  <2>2. phase = "replay"
    BY <1>5 DEF RemoveReplayedWal
  <2>3. CASE phase' = "replay"
    BY <2>1, <2>2, <2>3 DEF LogsSorted
  <2>4. CASE phase' = "up"
    <3>1. Len(todo) = 1
      BY <2>1, <2>4
    <3>2. \A w \in DOMAIN wals' : w = active.wal
      BY <2>1, <2>2, <3>1 DEF Accounted
    <3>3. \A v, w \in DOMAIN wals' : ~ (v < w)
      BY <3>2 DEF Typed
    <3> QED  BY <2>1, <3>3 DEF LogsSorted
  <2> QED  BY <2>1, <2>3, <2>4
<1>6. CASE PutOrRemove
  <2>1. PICK r \in Ops :
              /\ r.ver = puts + 1 /\ Store(r) /\ phase = "up"
              /\ \/ /\ DOMAIN wals' = DOMAIN wals
                    /\ active.wal \in DOMAIN wals => wals'[active.wal] = Append(wals[active.wal], r)
                    /\ \A w \in DOMAIN wals : w # active.wal => wals'[w] = wals[w]
                 \/ /\ now' \in WalNames
                    /\ DOMAIN wals' = DOMAIN wals \cup {now'}
                    /\ wals'[now'] = IF now' \in DOMAIN wals THEN Append(wals[now'], r) ELSE <<r>>
                    /\ \A w \in DOMAIN wals : w # now' => wals'[w] = wals[w]
    BY <1>6, PutLogs
  <2>2. phase' = "up"
    BY <2>1 DEF Store
  <2>3. \A w \in DOMAIN wals : \A i \in 1 .. Len(wals[w]) : wals[w][i].ver <= r.ver
    <3>1. \A w \in DOMAIN wals : \A i \in 1 .. Len(wals[w]) : wals[w][i].ver <= puts /\ wals[w][i].ver \in Nat
      BY RecordsKnown DEF Ops
    <3> QED  BY <2>1, <3>1 DEF Typed
  <2>4. /\ \A w \in DOMAIN wals : Ascending(wals[w])
        /\ \A v, w \in DOMAIN wals : v < w => Before(wals[v], wals[w])
    BY <2>1 DEF LogsSorted
  <2>5. \A w \in DOMAIN wals : w \in Nat /\ w <= active.wal
    BY <2>1 DEF LogsHeld, Typed
  <2>6. CASE /\ DOMAIN wals' = DOMAIN wals
             /\ active.wal \in DOMAIN wals => wals'[active.wal] = Append(wals[active.wal], r)
             /\ \A w \in DOMAIN wals : w # active.wal => wals'[w] = wals[w]
    <3>1. active.wal \in DOMAIN wals /\ wals'[active.wal] = Append(wals[active.wal], r)
      BY <2>1, <2>6 DEF LogsHeld
    <3>2. Ascending(wals'[active.wal])
      BY <1>1, <2>1, <2>3, <2>4, <3>1, AscendingOneMore
    <3>3. \A w \in DOMAIN wals' : Ascending(wals'[w])
      BY <2>4, <2>6, <3>2
    <3>4. \A v \in DOMAIN wals : v < active.wal => Before(wals[v], wals'[active.wal])
      BY <1>1, <2>1, <2>3, <2>4, <3>1, BeforeOneMore
    <3>5. ASSUME NEW v \in DOMAIN wals', NEW w \in DOMAIN wals', v < w PROVE Before(wals'[v], wals'[w])
      <4>1. v # active.wal /\ wals'[v] = wals[v]
        BY <2>5, <2>6, <3>5
      <4>2. CASE w = active.wal
        BY <2>6, <3>4, <3>5, <4>1, <4>2
      <4>3. CASE w # active.wal
        BY <2>4, <2>6, <3>5, <4>1, <4>3
      <4> QED  BY <4>2, <4>3
    <3> QED  BY <3>3, <3>5 DEF LogsSorted
  <2>7. CASE /\ now' \in WalNames
             /\ DOMAIN wals' = DOMAIN wals \cup {now'}
             /\ wals'[now'] = IF now' \in DOMAIN wals THEN Append(wals[now'], r) ELSE <<r>>
             /\ \A w \in DOMAIN wals : w # now' => wals'[w] = wals[w]
    <3>1. now' = now + 1 /\ now \in Nat
      BY <2>7 DEF WalNames, Typed, Benign, Paced
    <3>2. \A w \in DOMAIN wals : w <= now
      BY DEF Clocked
    <3>3. now' \notin DOMAIN wals /\ wals'[now'] = <<r>> /\ (\A w \in DOMAIN wals : wals'[w] = wals[w] /\ ~ (now' < w))
      BY <2>5, <2>7, <3>1, <3>2
    <3>4. Ascending(<<r>>) /\ \A w \in DOMAIN wals : Before(wals[w], <<r>>)
      BY <2>3 DEF Ascending, Before
    <3>5. \A w \in DOMAIN wals' : Ascending(wals'[w])
      BY <2>4, <2>7, <3>3, <3>4
    <3>6. ASSUME NEW v \in DOMAIN wals', NEW w \in DOMAIN wals', v < w PROVE Before(wals'[v], wals'[w])
      <4>1. v \in DOMAIN wals
        BY <2>7, <3>1, <3>3, <3>6
      <4>2. CASE w = now'
        BY <3>3, <3>4, <4>1, <4>2
      <4>3. CASE w \in DOMAIN wals
        BY <2>4, <3>3, <3>6, <4>1, <4>3
      <4> QED  BY <2>7, <4>2, <4>3
    <3> QED  BY <3>5, <3>6 DEF LogsSorted
  <2> QED  BY <2>1, <2>6, <2>7
<1>7. CASE FlushStep
  <2>1. phase' = phase /\ phase # "replay"
    BY <1>7 DEF FlushStep, FlushBegins, FlushFinishes, FlushThrows, DropWal, Running
  <2>2. wals' = wals \/ \E w \in doomed : wals' = Without(wals, w)
    BY <1>7 DEF FlushStep, FlushBegins, FlushFinishes, FlushThrows, DropWal, dirVars
  <2>3. DOMAIN wals' \subseteq DOMAIN wals /\ \A w \in DOMAIN wals' : wals'[w] = wals[w]
    BY <2>2 DEF Without
  <2> QED  BY <2>1, <2>3 DEF LogsSorted
<1>8. CASE Close
  BY <1>8 DEF Close, LogsSorted, dirVars
<1>9. CASE OpenThrows \/ MergeBegins \/ MergeStep \/ UNCHANGED vars
  <2>1. UNCHANGED <<wals, phase, active>>
    BY <1>9 DEF OpenThrows, MergeBegins, MergeStep, MergeWrites, MergeRemoves, MergePublishes, vars, dirVars, memVars
  <2> QED  BY <2>1 DEF LogsSorted
<1> QED  BY <1>2, <1>3, <1>4, <1>5, <1>6, <1>7, <1>8, <1>9 DEF Next, ReplayStep

LEMMA ReplayedKept ==
    ASSUME LifecycleAssumption, Held, [Next]_vars
    PROVE  Replayed'
<1> USE DEF Held, Sound, Stored
<1>1. CASE Open
  <2>1. /\ DOMAIN wals' = DOMAIN wals \cup {now'} /\ wals'[now'] = <<>>
        /\ \A w \in DOMAIN wals : wals'[w] = wals[w]
        /\ active'.recs = <<>> /\ todo' \in Seq(DOMAIN wals)
        /\ phase' = (IF todo' = <<>> THEN "up" ELSE "replay")
    BY <1>1, OpenIs
  <2>2. done' = 0
    BY <1>1 DEF Open, Phases
  <2>3. ASSUME phase' = "replay" PROVE Len(wals'[todo'[1]]) \in Nat
    <3>1. todo'[1] \in DOMAIN wals
      BY <2>1, <2>3
    <3> QED  BY <2>1, <3>1 DEF Typed
  <2>4. \A s : Before(<<>>, s)
    BY DEF Before
  <2> QED  BY <2>1, <2>2, <2>3, <2>4 DEF Replayed
<1>2. CASE ReplayRecord
  <2> DEFINE r == wals[todo[1]][done + 1]
  <2>1. /\ todo \in Seq(Nat) /\ 1 \in 1 .. Len(todo) /\ todo[1] \in DOMAIN wals
        /\ active.wal \in DOMAIN wals /\ todo[1] < active.wal
        /\ wals[todo[1]] \in Seq(Ops) /\ done + 1 \in 1 .. Len(wals[todo[1]])
        /\ r \in Ops
        /\ active'.recs = Append(active.recs, r)
        /\ \A w \in DOMAIN wals : w # active.wal => wals'[w] = wals[w]
    BY <1>2, ReplayIs
  <2>2. phase = "replay" /\ phase' = "replay" /\ todo' = todo /\ done' = done + 1 /\ done \in Nat
    BY <1>2 DEF ReplayRecord, Typed
  <2>3. wals'[todo[1]] = wals[todo[1]]
    <3>1. todo[1] # active.wal
      BY <2>1 DEF Typed
    <3> QED  BY <2>1, <3>1
  <2>4. active.recs \in Seq(Ops)
    BY DEF Typed
  <2>5. \A i \in 1 .. Len(Append(active.recs, r)) :
           \/ i \in 1 .. Len(active.recs) /\ Append(active.recs, r)[i] = active.recs[i]
           \/ Append(active.recs, r)[i] = r
    BY <2>1, <2>4, Appended
  <2>6. r \in Range(active'.recs) /\ Range(active.recs) \subseteq Range(active'.recs)
    <3> DEFINE t == Append(active.recs, r)
    <3>1. t \in Seq(Ops) /\ Len(t) = Len(active.recs) + 1 /\ t[Len(active.recs) + 1] = r
          /\ \A i \in 1 .. Len(active.recs) : t[i] = active.recs[i]
      BY <2>1, <2>4, OneMore
    <3>2. DOMAIN active.recs = 1 .. Len(active.recs) /\ Len(active.recs) \in Nat
      BY <2>4
    <3> HIDE DEF t
    <3>3. DOMAIN t = 1 .. Len(t)
      BY <3>1
    <3>4. Len(active.recs) + 1 \in DOMAIN t /\ DOMAIN active.recs \subseteq DOMAIN t
      BY <3>1, <3>2, <3>3
    <3>5. r \in Range(t)
      BY <3>1, <3>4 DEF Range
    <3>6. Range(active.recs) \subseteq Range(t)
      BY <3>1, <3>2, <3>4 DEF Range
    <3>7. active'.recs = t
      BY <2>1 DEF t
    <3> QED  BY <3>5, <3>6, <3>7
  <2>7. done' <= Len(wals'[todo'[1]])
    BY <2>1, <2>2, <2>3
  <2>8. \A j \in 1 .. done' : wals'[todo'[1]][j] \in Range(active'.recs)
    <3> SUFFICES ASSUME NEW j \in 1 .. done + 1 PROVE wals[todo[1]][j] \in Range(active'.recs)
      BY <2>2, <2>3
    <3>1. CASE j \in 1 .. done
      BY <2>2, <2>6, <3>1 DEF Replayed
    <3>2. CASE j = done + 1
      BY <2>6, <3>2
    <3> QED  BY <2>2, <3>1, <3>2
  <2>9. ASSUME NEW i \in 1 .. Len(active'.recs), NEW j \in done' + 1 .. Len(wals'[todo'[1]]),
               active'.recs[i].key = wals'[todo'[1]][j].key
        PROVE  active'.recs[i].ver <= wals'[todo'[1]][j].ver
    <3>1. j \in done + 1 .. Len(wals[todo[1]]) /\ j \in 1 .. Len(wals[todo[1]]) /\ done + 1 < j
      BY <2>1, <2>2, <2>3
    <3>2. CASE i \in 1 .. Len(active.recs) /\ active'.recs[i] = active.recs[i]
      BY <2>2, <2>3, <2>9, <3>1, <3>2 DEF Replayed
    <3>3. CASE active'.recs[i] = r
      <4>1. Ascending(wals[todo[1]])
        BY <2>1 DEF LogsSorted
      <4> QED  BY <2>1, <2>2, <2>3, <2>9, <3>1, <3>3, <4>1 DEF Ascending
    <3> QED  BY <2>1, <2>5, <3>2, <3>3
  <2>10. ASSUME NEW h \in 2 .. Len(todo) PROVE Before(active'.recs, wals'[todo[h]])
    <3>1. todo[h] \in DOMAIN wals /\ todo[h] < active.wal /\ todo[1] < todo[h]
      BY <2>1, <2>2 DEF Clocked
    <3>6. todo[h] \in Nat /\ active.wal \in Nat
      BY <3>1 DEF Typed
    <3>7. todo[h] # active.wal
      BY <3>1, <3>6
    <3>2. wals'[todo[h]] = wals[todo[h]]
      BY <2>1, <3>1, <3>7
    <3>3. Before(wals[todo[1]], wals[todo[h]])
      BY <2>1, <3>1, <3>2 DEF LogsSorted
    <3>4. \A j \in 1 .. Len(wals[todo[h]]) : r.key = wals[todo[h]][j].key => r.ver <= wals[todo[h]][j].ver
      BY <2>1, <3>3 DEF Before
    <3>5. Before(active.recs, wals[todo[h]]) /\ wals[todo[h]] \in Seq(Ops)
      BY <2>2, <3>1 DEF Replayed, Typed
    <3> QED  BY <2>1, <2>4, <3>2, <3>4, <3>5, BeforeOneMore
  <2> QED  BY <2>2, <2>7, <2>8, <2>9, <2>10 DEF Replayed
<1>3. CASE RemoveReplayedWal
  <2>1. /\ Len(todo') = Len(todo) - 1 /\ Len(todo) \in Nat
        /\ \A i \in 1 .. Len(todo) - 1 : todo'[i] = todo[i + 1]
        /\ \A i \in 2 .. Len(todo) : todo[i] \in DOMAIN wals'
        /\ \A w \in DOMAIN wals' : wals'[w] = wals[w] /\ wals[w] \in Seq(Ops)
        /\ active' = active
        /\ phase' = (IF todo' = <<>> THEN "up" ELSE "replay")
    <3>1. \A w \in DOMAIN wals : wals[w] \in Seq(Ops)
      BY DEF Typed
    <3>2. todo \in Seq(Nat) /\ 1 \in 1 .. Len(todo)
      BY <1>3, ReplayedIs
    <3>3. /\ Len(todo') = Len(todo) - 1
          /\ \A i \in 1 .. Len(todo) - 1 : todo'[i] = todo[i + 1]
          /\ \A i \in 2 .. Len(todo) : todo[i] \in DOMAIN wals'
          /\ DOMAIN wals' \subseteq DOMAIN wals /\ \A w \in DOMAIN wals' : wals'[w] = wals[w]
          /\ active' = active
          /\ phase' = (IF todo' = <<>> THEN "up" ELSE "replay")
      BY <1>3, ReplayedIs
    <3>4. \A w \in DOMAIN wals' : wals'[w] = wals[w] /\ wals[w] \in Seq(Ops)
      BY <3>1, <3>3
    <3>5. Len(todo) \in Nat
      BY <3>2
    <3> QED  BY <3>3, <3>4, <3>5, Zenon
  <2>2. phase = "replay" /\ done' = 0
    BY <1>3 DEF RemoveReplayedWal
  <2>3. ASSUME NEW i \in 1 .. Len(todo')
        PROVE  /\ i + 1 \in 2 .. Len(todo) /\ todo'[i] = todo[i + 1]
               /\ wals'[todo'[i]] = wals[todo[i + 1]] /\ wals'[todo'[i]] \in Seq(Ops)
               /\ Before(active.recs, wals'[todo'[i]])
    <3>1. i + 1 \in 2 .. Len(todo) /\ todo'[i] = todo[i + 1]
      BY <2>1
    <3>2. PICK h \in 2 .. Len(todo) : h = i + 1
      BY <3>1
    <3>3. todo[h] \in DOMAIN wals' /\ Before(active.recs, wals[todo[h]])
      BY <2>1, <2>2 DEF Replayed
    <3> QED  BY <2>1, <3>1, <3>2, <3>3
  <2>4. ASSUME phase' = "replay" PROVE 1 \in 1 .. Len(todo')
    <3>1. todo' # <<>> /\ todo' \in Seq(Nat)
      BY <1>3, <2>1, <2>4, ReplayedTyped DEF Typed
    <3> QED  BY <3>1
  <2>5. ASSUME phase' = "replay" PROVE /\ Len(wals'[todo'[1]]) \in Nat
                                       /\ Before(active.recs, wals'[todo'[1]])
    <3>1. PICK i \in 1 .. Len(todo') : i = 1
      BY <2>4, <2>5
    <3>2. wals'[todo'[i]] \in Seq(Ops) /\ Before(active.recs, wals'[todo'[i]])
      BY <2>3
    <3>3. \A s \in Seq(Ops) : Len(s) \in Nat
      OBVIOUS
    <3> QED  BY <3>1, <3>2, <3>3
  <2>6. \A h \in 2 .. Len(todo') : h \in 1 .. Len(todo')
    BY <2>1
  <2> QED  BY <2>1, <2>2, <2>3, <2>5, <2>6 DEF Replayed, Before
<1>5. CASE ReplayThrows \/ Crash \/ Exit \/ PutOrRemove \/ FlushStep \/ MergeBegins \/ MergeStep \/ Close \/ OpenThrows
  <2>1. phase' # "replay"
    <3>1. CASE ReplayThrows \/ Crash \/ Exit
      BY <3>1 DEF ReplayThrows, Crash, Exit, ProcessEnds
    <3>2. CASE PutOrRemove
      BY <3>2 DEF PutOrRemove, Put, PutInNewTable, Store
    <3>3. CASE FlushStep
      BY <3>3 DEF FlushStep, FlushBegins, FlushFinishes, FlushThrows, DropWal, Running
    <3>4. CASE MergeBegins \/ MergeStep
      BY <3>4 DEF MergeBegins, MergeStep, MergeWrites, MergeRemoves, MergePublishes, Phases, NoMerge
    <3>5. CASE Close \/ OpenThrows
      BY <3>5 DEF Close, OpenThrows
    <3> QED  BY <1>5, <3>1, <3>2, <3>3, <3>4, <3>5
  <2> QED  BY <2>1 DEF Replayed
<1>6. CASE UNCHANGED vars
  BY <1>6 DEF vars, dirVars, memVars, startVars, Replayed
<1> QED  BY <1>1, <1>2, <1>3, <1>5, <1>6 DEF Next, ReplayStep

-----------------------------------------------------------------------------
(* Files that are being written.                                           *)

\* With one flush at a time a flush begins alone.
LEMMA NothingUnderWay ==
    ASSUME Paced, Typed, LogsHeld, NEW i \in 1 .. Len(imms), FlushBegins(i)
    PROVE  doomed = {} /\ merge.step = "none" /\ \A j \in 1 .. Len(imms) : imms[j].step # "write"
<1>1. IsFiniteSet(doomed)
  BY FS_Subset DEF Typed, LogsHeld
<1>2. IsFiniteSet(UnderWay)
  <2>1. Len(imms) \in Nat
    BY DEF Typed
  <2>2. IsFiniteSet(1 .. Len(imms)) /\ UnderWay \subseteq 1 .. Len(imms)
    BY <2>1, FS_Interval DEF UnderWay
  <2> QED  BY <2>2, FS_Subset
<1>3. Cardinality(UnderWay) + Cardinality(doomed) < 1 /\ merge.step = "none"
  BY DEF FlushBegins, Paced
<1>4. Cardinality(UnderWay) = 0 /\ Cardinality(doomed) = 0
  BY <1>1, <1>2, <1>3, FS_CardinalityType
<1>5. UnderWay = {} /\ doomed = {}
  BY <1>1, <1>2, <1>4, FS_EmptySet
<1> QED  BY <1>3, <1>5 DEF UnderWay

LEMMA WritingKept ==
    ASSUME LifecycleAssumption, Paced, Sound, LogsHeld, Writing, [Next]_vars, "behind" \notin mishaps'
    PROVE  Writing'
<1> USE DEF Sound
<1>1. CASE Open
  <2>1. files' = files /\ imms' = <<>> /\ \A n \in Names : files[n].whole
    BY <1>1 DEF Open, Phases
  <2> QED  BY <2>1 DEF Writing, Names
<1>2. CASE ReplayThrows \/ Crash \/ Exit
  <2>1. files' = files /\ imms' = <<>> /\ phase' = "down"
    BY <1>2 DEF ReplayThrows, Crash, Exit, ProcessEnds, dirVars
  <2> QED  BY <2>1 DEF Writing, Names
<1>3. CASE ReplayRecord \/ RemoveReplayedWal \/ OpenThrows \/ UNCHANGED vars
  <2>1. UNCHANGED <<files, imms, doomed, merge>> /\ (phase' = "replay" => phase = "replay")
    BY <1>3 DEF ReplayRecord, RemoveReplayedWal, OpenThrows, vars, dirVars, memVars
  <2> QED  BY <2>1 DEF Writing, Names
<1>4. CASE PutOrRemove \/ Close
  <2>1. UNCHANGED <<files, doomed, merge>> /\ phase' # "replay"
        /\ (imms' = imms \/ imms' = Append(imms, Unflushed(active)))
    BY <1>4 DEF PutOrRemove, Put, PutInNewTable, Store, Close, dirVars
  <2>2. CASE imms' = imms
    BY <2>1, <2>2 DEF Writing, Names
  <2>3. CASE imms' = Append(imms, Unflushed(active))
    <3>1. /\ Len(imms') = Len(imms) + 1 /\ Len(imms) \in Nat
          /\ \A j \in 1 .. Len(imms) : imms'[j] = imms[j]
          /\ imms'[Len(imms) + 1].step = "new"
      BY <2>3, SwitchIs
    <3>2. \A j \in 1 .. Len(imms') : imms'[j].step # "new" => j \in 1 .. Len(imms) /\ imms'[j] = imms[j]
      BY <3>1
    <3>3. \A i, j \in 1 .. Len(imms') : i < j /\ imms'[j].step # "new" => imms'[i].step = "failed"
      <4> SUFFICES ASSUME NEW i \in 1 .. Len(imms'), NEW j \in 1 .. Len(imms'), i < j, imms'[j].step # "new"
                   PROVE  imms'[i].step = "failed"
        OBVIOUS
      <4>1. j \in 1 .. Len(imms) /\ imms'[j] = imms[j] /\ i \in 1 .. Len(imms) /\ imms'[i] = imms[i]
        BY <3>1, <3>2
      <4> QED  BY <4>1 DEF Writing
    <3> QED  BY <2>1, <3>2, <3>3 DEF Writing, Names
  <2> QED  BY <2>1, <2>2, <2>3
<1>5. ASSUME NEW i \in 1 .. Len(imms), FlushBegins(i) PROVE Writing'
  <2>1. doomed = {} /\ merge.step = "none" /\ \A j \in 1 .. Len(imms) : imms[j].step # "write"
    BY <1>5, NothingUnderWay
  <2>2. UNCHANGED <<doomed, merge, phase>> /\ phase # "replay" /\ imms[i].step = "new"
        /\ \A j \in 1 .. i - 1 : imms[j].step # "new"
    BY <1>5 DEF FlushBegins, Running
  <2>3. PICK f : /\ imms'[i].name = f /\ f \notin Names /\ \A m \in Names : m[2] < f[2]
                 /\ DOMAIN files' = DOMAIN files \cup {f} /\ files'[f].recs = {} /\ ~ files'[f].whole
                 /\ \A m \in Names : files'[m] = files[m]
    BY <1>5, FlushCreates
  <2>4. /\ Len(imms') = Len(imms)
        /\ \A j \in 1 .. Len(imms) : j # i => imms'[j] = imms[j]
        /\ imms'[i].step = "write"
    BY <1>5, BeginIs
  <2>5. \A j \in 1 .. Len(imms) : imms[j].step \in {"new", "write", "failed"}
    <3>1. \A j \in 1 .. Len(imms) : imms[j] \in Tables
      BY DEF Typed
    <3> QED  BY <3>1 DEF Tables
  <2>6. \A j \in 1 .. Len(imms) : (j < i => imms[j].step = "failed") /\ (j > i => imms[j].step = "new")
    <3> TAKE j \in 1 .. Len(imms)
    <3>1. CASE j < i
      <4>1. j \in 1 .. i - 1
        BY <3>1
      <4> QED  BY <2>1, <2>2, <2>5, <3>1, <4>1
    <3>2. CASE j > i
      BY <2>2, <3>2 DEF Writing
    <3> QED  BY <3>1, <3>2
  <2>7. \A j, h \in 1 .. Len(imms') : j < h /\ imms'[h].step # "new" => imms'[j].step = "failed"
    <3> SUFFICES ASSUME NEW j \in 1 .. Len(imms), NEW h \in 1 .. Len(imms), j < h, imms'[h].step # "new"
                 PROVE  imms'[j].step = "failed"
      BY <2>4
    <3>1. h <= i
      BY <2>4, <2>6
    <3> QED  BY <2>4, <2>6, <3>1
  <2>8. \A j \in 1 .. Len(imms') : imms'[j].step = "write" => j = i
    BY <2>1, <2>4
  <2>9. \A m \in DOMAIN files' : m = f \/ m[2] < f[2]
    BY <2>3 DEF Names
  <2>10. \A m \in DOMAIN files' : ~ files'[m].whole => files'[m].recs = {}
    BY <2>3 DEF Names, Writing
  <2>11. \A j \in 1 .. Len(imms') : imms'[j].step = "failed" => "sst" \in Faults
    BY <2>4 DEF Writing
  <2>12. f \in DOMAIN files'
    BY <2>3
  <2> QED  BY <2>1, <2>2, <2>3, <2>7, <2>8, <2>9, <2>10, <2>11, <2>12 DEF Writing, Names
<1>6. ASSUME NEW i \in 1 .. Len(imms), FlushFinishes(i) PROVE Writing'
  <2>1. /\ \A j \in 1 .. Len(imms) : (j < i => imms[j].step = "failed") /\ (j > i => imms[j].step = "new")
        /\ DOMAIN files' = DOMAIN files /\ files'[imms[i].name].whole
        /\ \A m \in Names : m # imms[i].name => files'[m] = files[m]
    BY <1>6, FinishIs
  <2>2. imms' = RemoveAt(imms, i) /\ phase' = phase /\ phase # "replay"
    BY <1>6 DEF FlushFinishes, Running
  <2>3. /\ Len(imms') = Len(imms) - 1 /\ Len(imms) \in Nat
        /\ \A j \in 1 .. Len(imms') : imms'[j] = IF j < i THEN imms[j] ELSE imms[j + 1]
    <3>1. Len(imms) \in Nat
      BY DEF Typed
    <3> QED  BY <2>2, <3>1, OneLess
  <2>4. \A j \in 1 .. Len(imms') : imms'[j].step = IF j < i THEN "failed" ELSE "new"
    <3> TAKE j \in 1 .. Len(imms')
    <3>1. CASE j < i
      BY <2>1, <2>3, <3>1
    <3>2. CASE ~ (j < i)
      <4>1. j + 1 \in 1 .. Len(imms) /\ j + 1 > i
        BY <2>3, <3>2
      <4> QED  BY <2>1, <2>3, <3>2, <4>1
    <3> QED  BY <3>1, <3>2
  <2>5. \A j \in 1 .. Len(imms') : imms'[j].step = "failed" => "sst" \in Faults
    <3> SUFFICES ASSUME NEW j \in 1 .. Len(imms'), imms'[j].step = "failed" PROVE "sst" \in Faults
      OBVIOUS
    <3>1. j < i /\ j \in 1 .. Len(imms)
      BY <2>3, <2>4
    <3> QED  BY <2>1, <3>1 DEF Writing
  <2>6. \A j, h \in 1 .. Len(imms') : j < h /\ imms'[h].step # "new" => imms'[j].step = "failed"
    <3> SUFFICES ASSUME NEW j \in 1 .. Len(imms'), NEW h \in 1 .. Len(imms'), j < h, imms'[h].step # "new"
                 PROVE  imms'[j].step = "failed"
      OBVIOUS
    <3>1. h < i
      BY <2>4
    <3> QED  BY <2>3, <2>4, <3>1
  <2>7. \A m \in DOMAIN files' : ~ files'[m].whole => files'[m].recs = {}
    BY <2>1 DEF Names, Writing
  <2> QED  BY <2>2, <2>4, <2>5, <2>6, <2>7 DEF Writing, Names
<1>7. ASSUME NEW i \in 1 .. Len(imms), FlushThrows(i) PROVE Writing'
  <2>1. UNCHANGED <<files, doomed, merge, phase>> /\ phase # "replay" /\ imms[i].step = "write" /\ "sst" \in Faults
    BY <1>7 DEF FlushThrows, Running, dirVars
  <2>2. /\ Len(imms') = Len(imms)
        /\ \A j \in 1 .. Len(imms) : j # i => imms'[j] = imms[j]
        /\ imms'[i].step = "failed"
    BY <1>7, ThrowIs
  <2>3. \A j, h \in 1 .. Len(imms') : j < h /\ imms'[h].step # "new" => imms'[j].step = "failed"
    <3> SUFFICES ASSUME NEW j \in 1 .. Len(imms), NEW h \in 1 .. Len(imms), j < h, imms'[h].step # "new"
                 PROVE  imms'[j].step = "failed"
      BY <2>2
    <3>1. imms[h].step # "new"
      BY <2>1, <2>2
    <3>2. imms[j].step = "failed"
      BY <3>1 DEF Writing
    <3> QED  BY <2>1, <2>2, <3>2
  <2>4. \A j \in 1 .. Len(imms') : imms'[j].step = "write" => imms[j].step = "write" /\ imms'[j] = imms[j]
    BY <2>2
  <2> QED  BY <2>1, <2>2, <2>3, <2>4 DEF Writing, Names
<1>8. CASE DropWal
  <2>1. UNCHANGED <<files, imms, phase>> /\ phase # "replay" /\ doomed # {}
    BY <1>8 DEF DropWal, Running
  <2> QED  BY <2>1 DEF Writing, Names
<1>9. CASE MergeBegins
  <2>1. UNCHANGED <<imms, phase>> /\ phase # "replay" /\ \A i \in 1 .. Len(imms) : imms[i].step # "write"
    BY <1>9 DEF MergeBegins, UnderWay
  <2>2. PICK f : /\ DOMAIN files' = DOMAIN files \cup {f} /\ files'[f].recs = {}
                 /\ \A m \in Names : files'[m] = files[m]
    BY <1>9, MergeCreates
  <2>3. \A m \in DOMAIN files' : ~ files'[m].whole => files'[m].recs = {}
    BY <2>2 DEF Names, Writing
  <2> QED  BY <2>1, <2>3 DEF Writing, Names
<1>10. CASE MergeStep
  <2>1. merge.step # "none" /\ UNCHANGED <<imms, phase>>
    BY <1>10 DEF MergeStep, MergeWrites, MergeRemoves, MergePublishes, memVars
  <2>2. phase # "replay" /\ \A i \in 1 .. Len(imms) : imms[i].step # "write"
    BY <2>1 DEF Writing, Phases, NoMerge
  <2>3. \A m \in DOMAIN files' : ~ files'[m].whole => files'[m].recs = {}
    <3>1. CASE MergeWrites
      BY <3>1, WriteIs DEF Names, Writing
    <3>2. CASE MergeRemoves
      <4>1. DOMAIN files' \subseteq DOMAIN files /\ \A m \in DOMAIN files' : files'[m] = files[m]
        BY <3>2, RemoveIs
      <4> QED  BY <4>1 DEF Names, Writing
    <3>3. CASE MergePublishes
      BY <3>3 DEF MergePublishes, dirVars, Names, Writing
    <3> QED  BY <1>10, <3>1, <3>2, <3>3 DEF MergeStep
  <2> QED  BY <2>1, <2>2, <2>3 DEF Writing, Names
<1> QED  BY <1>1, <1>2, <1>3, <1>4, <1>5, <1>6, <1>7, <1>8, <1>9, <1>10 DEF Next, ReplayStep, FlushStep

-----------------------------------------------------------------------------
(* The compaction.                                                         *)

\* What is newest of its key in one of the files wins against the others.
LEMMA NewestWins ==
    ASSUME Typed, Merging, Versions, FilesOrdered, NEW n \in merge.in, NEW r \in files[n].recs,
           r = latest[r.key], ~ r.del
    PROVE  r \in Merged
<1>1. PICK m \in merge.in : Winner(r.key) \in files[m].recs /\ Winner(r.key).key = r.key /\ n[2] <= m[2]
  BY WinnerIs
<1>2. PICK w : w = Winner(r.key)
  OBVIOUS
<1>3. w \in files[m].recs /\ w.key = r.key
  BY <1>1, <1>2
<1>4. m \in L0Names /\ n \in L0Names /\ m \in Names /\ n \in Names
  BY DEF Merging, L0Names
<1>5. m[1] = 0 /\ n[1] = 0 /\ m[2] \in Nat /\ n[2] \in Nat /\ m = <<m[1], m[2]>> /\ n = <<n[1], n[2]>>
  BY <1>4 DEF Typed, L0Names, Names
<1>6. w \in Ops /\ Known(w) /\ r \in Ops
  BY <1>3, <1>4, RecordsKnown
<1>7. w.ver \in Nat /\ r.ver \in Nat
  BY <1>6 DEF Ops
<1>8. CASE m = n
  <2>1. w = r
    BY <1>3, <1>4, <1>8 DEF FilesOrdered
  <2> QED  BY <1>2, <2>1, MergedAre
<1>9. CASE m # n
  <2>1. m[2] > n[2]
    BY <1>1, <1>5, <1>9
  <2>2. w.ver >= r.ver
    BY <1>3, <1>4, <2>1 DEF FilesOrdered
  <2>3. w.ver <= r.ver
    BY <1>3, <1>6 DEF Known
  <2>4. w = r
    BY <1>3, <1>6, <1>7, <2>2, <2>3 DEF Known
  <2> QED  BY <1>2, <2>4, MergedAre
<1> QED  BY <1>8, <1>9

LEMMA CompactingKept ==
    ASSUME LifecycleAssumption, Benign, Held, [Next]_vars, mishaps' = {}
    PROVE  Compacting'
<1> USE DEF Held, Sound, Stored
<1>1. CASE \/ Open \/ OpenThrows \/ ReplayRecord \/ RemoveReplayedWal \/ DropWal \/ Close \/ UNCHANGED vars
           \/ \E i \in 1 .. Len(imms) : FlushThrows(i)
  <2>1. UNCHANGED <<files, merge, latest>>
    BY <1>1 DEF Open, OpenThrows, ReplayRecord, RemoveReplayedWal, DropWal, Close, FlushThrows, vars, dirVars, history
  <2> QED  BY <2>1 DEF Compacting
<1>2. CASE ReplayThrows \/ Crash \/ Exit \/ MergePublishes
  <2>1. merge' = NoMerge
    BY <1>2, EndIs DEF MergePublishes
  <2> QED  BY <2>1 DEF Compacting, NoMerge
<1>3. CASE PutOrRemove
  <2>1. PICK r \in Ops : r.ver = puts + 1 /\ Store(r)
    BY <1>3, PutLogs
  <2>2. UNCHANGED <<files, merge>> /\ latest' = [latest EXCEPT ![r.key] = r] /\ r.key \in Keys
    BY <2>1 DEF Store, Ops
  <2>3. latest'[r.key] = r /\ \A k \in Keys : k # r.key => latest'[k] = latest[k]
    BY <2>2 DEF Typed
  <2>4. \A n \in Names : \A x \in files[n].recs : x = latest'[x.key] => x = latest[x.key]
    <3> SUFFICES ASSUME NEW n \in Names, NEW x \in files[n].recs, x = latest'[x.key] PROVE x = latest[x.key]
      OBVIOUS
    <3>1. x \in Ops /\ x.key \in Keys /\ x.ver <= puts
      BY RecordsKnown
    <3>2. x.ver \in Nat /\ puts \in Nat
      BY <3>1 DEF Ops, Typed
    <3>3. x # r
      BY <2>1, <3>1, <3>2
    <3> QED  BY <2>3, <3>1, <3>3
  <2>5. \A n \in merge.in : n \in Names
    BY DEF Merging, L0Names
  <2>6. ASSUME merge.step = "remove", NEW n \in merge.in, NEW x \in files[n].recs, x = latest'[x.key], ~ x.del
        PROVE  x \in files[merge.out].recs
    BY <2>4, <2>5, <2>6 DEF Compacting
  <2> QED  BY <2>2, <2>6 DEF Compacting
<1>4. ASSUME NEW i \in 1 .. Len(imms), FlushBegins(i) \/ FlushFinishes(i) PROVE Compacting'
  <2>1. merge' = merge /\ merge.step = "none"
    BY <1>4, FinishIs DEF FlushBegins, FlushFinishes
  <2> QED  BY <2>1 DEF Compacting
<1>5. CASE MergeBegins
  <2>1. PICK f : merge'.out = f /\ ~ files'[f].whole
    BY <1>5, MergeCreates
  <2>2. merge'.step = "write"
    BY <1>5 DEF MergeBegins
  <2> QED  BY <2>1, <2>2 DEF Compacting
<1>6. CASE MergeWrites
  <2>1. /\ merge.out[1] = 1 /\ files'[merge.out].recs = Merged /\ files'[merge.out].whole
        /\ \A m \in Names : m # merge.out => files'[m] = files[m]
        /\ merge'.in = merge.in /\ merge'.out = merge.out /\ merge'.step = "remove"
    BY <1>6, WriteIs
  <2>2. FilesOrdered /\ latest' = latest
    BY <1>6 DEF MergeWrites, FilesBelow, Trusted, history
  <2>3. \A n \in merge.in : files'[n] = files[n]
    BY <2>1 DEF Merging, L0Names
  <2>4. \A n \in merge.in : \A r \in files[n].recs : r = latest[r.key] /\ ~ r.del => r \in Merged
    BY <2>2, NewestWins
  <2> QED  BY <2>1, <2>2, <2>3, <2>4 DEF Compacting
<1>7. CASE MergeRemoves
  <2>1. PICK n \in merge.in :
              /\ n[1] = 0 /\ merge.out[1] = 1 /\ merge.out \in Names
              /\ DOMAIN files' = DOMAIN files \ {n} /\ \A m \in DOMAIN files' : files'[m] = files[m]
              /\ merge'.in = merge.in \ {n} /\ merge'.out = merge.out /\ merge'.step = "remove"
              /\ merge.step = "remove"
    BY <1>7, RemoveIs
  <2>2. files'[merge.out] = files[merge.out] /\ \A m \in merge'.in : m \in merge.in /\ files'[m] = files[m]
    BY <2>1 DEF Merging, L0Names, Names
  <2>3. latest' = latest
    BY <1>7 DEF MergeRemoves, history
  <2> QED  BY <2>1, <2>2, <2>3 DEF Compacting
<1> QED  BY <1>1, <1>2, <1>3, <1>4, <1>5, <1>6, <1>7 DEF Next, ReplayStep, FlushStep, MergeStep

-----------------------------------------------------------------------------
(* The newest values.                                                      *)

Safe(r) ==
    \/ \E n \in Names : files[n].whole /\ r \in files[n].recs
    \/ \E w \in DOMAIN wals \ doomed : \E i \in 1 .. Len(wals[w]) : wals[w][i] = r

LEMMA KeptIs ==
    ASSUME Typed
    PROVE  (Kept) <=> (\A k \in Keys : latest[k].del \/ Safe(latest[k]))
<1>1. \A w \in DOMAIN wals \ doomed : DOMAIN wals[w] = 1 .. Len(wals[w])
  BY DEF Typed
<1> QED  BY <1>1 DEF Kept, Safe, Range

\* A log with one more record has the others still.
LEMMA OthersStay ==
    ASSUME NEW s \in Seq(Ops), NEW x \in Ops, NEW r
    PROVE  /\ (\E i \in 1 .. Len(s) : s[i] = r) => \E i \in 1 .. Len(Append(s, x)) : Append(s, x)[i] = r
           /\ \E i \in 1 .. Len(Append(s, x)) : Append(s, x)[i] = x
<1> DEFINE t == Append(s, x)
<1>1. Len(s) \in Nat /\ Len(t) = Len(s) + 1 /\ (\A i \in 1 .. Len(s) : t[i] = s[i]) /\ t[Len(s) + 1] = x
  BY OneMore
<1> HIDE DEF t
<1>2. (\E i \in 1 .. Len(s) : s[i] = r) => \E i \in 1 .. Len(t) : t[i] = r
  BY <1>1
<1>3. \E i \in 1 .. Len(t) : t[i] = x
  BY <1>1
<1> QED  BY <1>2, <1>3 DEF t

\* A flush writes the newest record of its log.
LEMMA NewestWritten ==
    ASSUME Typed, LogsHeld, Versions, TableLogs, LogsSorted, NEW i \in 1 .. Len(imms),
           NEW h \in 1 .. Len(imms[i].recs), imms[i].recs[h] = latest[imms[i].recs[h].key]
    PROVE  imms[i].recs[h] \in Survivors(imms[i].recs)
<1>1. imms[i] \in Tables
  BY DEF Typed
<1>2. PICK recs \in Seq(Ops) : recs = imms[i].recs
  BY <1>1 DEF Tables
<1>3. imms[i].wal \in DOMAIN wals /\ wals[imms[i].wal] = recs
  BY <1>2 DEF LogsHeld, TableLogs
<1>4. Ascending(recs) /\ \A j \in 1 .. Len(recs) : Known(recs[j])
  BY <1>3 DEF LogsSorted, Versions
<1>5. h \in 1 .. Len(recs) /\ recs[h] = latest[recs[h].key] /\ recs[h] \in Ops /\ recs[h].ver \in Nat
  <2>1. h \in 1 .. Len(recs) /\ recs[h] = latest[recs[h].key]
    BY <1>2
  <2>2. recs[h] \in Ops
    BY <2>1, ElementOfSeq
  <2> QED  BY <2>1, <2>2 DEF Ops
<1>6. PICK s \in Survivors(recs) : s.key = recs[h].key
  BY <1>5, SurvivorsAre
<1>7. PICK m \in 1 .. Len(recs) : recs[m] = s /\ \A j \in 1 .. Len(recs) : recs[j].key = s.key => j <= m
  BY <1>6, SurvivorsAre
<1>8. h <= m /\ s.ver \in Nat
  <2>1. s \in Ops
    BY <1>7, ElementOfSeq
  <2>2. h <= m
    BY <1>5, <1>6, <1>7
  <2> QED  BY <2>1, <2>2 DEF Ops
<1>9. recs[h].ver <= s.ver
  <2>1. CASE h = m
    BY <1>5, <1>7, <2>1
  <2>2. CASE h # m
    BY <1>4, <1>5, <1>6, <1>7, <1>8, <2>2 DEF Ascending
  <2> QED  BY <2>1, <2>2
<1>10. s.ver <= recs[h].ver /\ (s.ver = recs[h].ver => s = recs[h])
  BY <1>4, <1>5, <1>6, <1>7 DEF Known
<1>11. s = recs[h]
  BY <1>5, <1>8, <1>9, <1>10
<1> QED  BY <1>2, <1>6, <1>11

\* No step but a put takes the newest value of a key from where it is safe.
LEMMA SafeStays ==
    ASSUME LifecycleAssumption, Benign, Held, [Next]_vars, ~ PutOrRemove, mishaps' = {},
           NEW k \in Keys, NEW r, r = latest[k], ~ r.del, Safe(r)
    PROVE  Safe(r)'
<1> USE DEF Held, Sound, Stored
<1>1. \A w \in DOMAIN wals : wals[w] \in Seq(Ops)
  BY DEF Typed
<1>2. r.key = k
  BY DEF Versions
<1>3. CASE Open
  <2>1. /\ DOMAIN wals' = DOMAIN wals \cup {now'} /\ \A w \in DOMAIN wals : wals'[w] = wals[w]
    BY <1>3, OpenIs
  <2>2. UNCHANGED <<files, doomed>>
    BY <1>3 DEF Open
  <2> QED  BY <2>1, <2>2 DEF Safe, Names
<1>4. CASE ReplayRecord
  <2> DEFINE x == wals[todo[1]][done + 1]
  <2>1. /\ active.wal \in DOMAIN wals /\ x \in Ops
        /\ DOMAIN wals' = DOMAIN wals
        /\ wals'[active.wal] = Append(wals[active.wal], x)
        /\ \A w \in DOMAIN wals : w # active.wal => wals'[w] = wals[w]
    BY <1>4, ReplayIs
  <2> HIDE DEF x
  <2>2. UNCHANGED <<files, doomed>>
    BY <1>4 DEF ReplayRecord
  <2>3. \A w \in DOMAIN wals : (\E i \in 1 .. Len(wals[w]) : wals[w][i] = r) => \E i \in 1 .. Len(wals'[w]) : wals'[w][i] = r
    <3> TAKE w \in DOMAIN wals
    <3>1. wals'[w] = wals[w] \/ wals'[w] = Append(wals[w], x)
      BY <2>1
    <3> QED  BY <1>1, <2>1, <3>1, OthersStay
  <2> QED  BY <2>1, <2>2, <2>3 DEF Safe, Names
<1>5. CASE RemoveReplayedWal
  <2>1. /\ todo[1] \in DOMAIN wals
        /\ DOMAIN wals' = DOMAIN wals \ {todo[1]} /\ \A w \in DOMAIN wals' : wals'[w] = wals[w]
        /\ active.wal \in DOMAIN wals'
    BY <1>5, ReplayedIs
  <2>2. UNCHANGED <<files, doomed>> /\ doomed = {} /\ phase = "replay" /\ done = Len(wals[todo[1]])
    BY <1>5 DEF RemoveReplayedWal, Phases, memVars
  <2>3. wals[active.wal] = active.recs /\ DOMAIN active.recs = 1 .. Len(active.recs)
    BY <2>2 DEF TableLogs, Typed
  <2>4. ASSUME NEW i \in 1 .. Len(wals[todo[1]]), wals[todo[1]][i] = r
        PROVE  \E j \in 1 .. Len(wals[active.wal]) : wals[active.wal][j] = r
    <3>1. r \in Range(active.recs)
      BY <2>2, <2>4 DEF Replayed
    <3> QED  BY <2>3, <3>1 DEF Range
  <2>5. CASE \E n \in Names : files[n].whole /\ r \in files[n].recs
    BY <2>2, <2>5 DEF Safe, Names
  <2>6. CASE \E w \in DOMAIN wals \ doomed : \E i \in 1 .. Len(wals[w]) : wals[w][i] = r
    <3>1. PICK w \in DOMAIN wals : \E i \in 1 .. Len(wals[w]) : wals[w][i] = r
      BY <2>6
    <3>2. CASE w = todo[1]
      <4>1. \E j \in 1 .. Len(wals[active.wal]) : wals[active.wal][j] = r
        BY <2>4, <3>1, <3>2
      <4> QED  BY <2>1, <2>2, <4>1 DEF Safe
    <3>3. CASE w # todo[1]
      BY <2>1, <2>2, <3>1, <3>3 DEF Safe
    <3> QED  BY <3>2, <3>3
  <2> QED  BY <2>5, <2>6 DEF Safe
<1>6. CASE ReplayThrows \/ Crash \/ Exit
  <2>1. UNCHANGED <<files, wals>> /\ doomed' = {}
    BY <1>6, EndIs
  <2> QED  BY <2>1 DEF Safe, Names
<1>7. ASSUME NEW i \in 1 .. Len(imms), FlushBegins(i) PROVE Safe(r)'
  <2>1. UNCHANGED <<wals, doomed>>
    BY <1>7 DEF FlushBegins
  <2>2. PICK f : DOMAIN files' = DOMAIN files \cup {f} /\ \A m \in Names : files'[m] = files[m]
    BY <1>7, FlushCreates
  <2> QED  BY <2>1, <2>2 DEF Safe, Names
<1>8. ASSUME NEW i \in 1 .. Len(imms), FlushFinishes(i) PROVE Safe(r)'
  <2>1. /\ imms[i].name \in Names /\ doomed = {} /\ ~ files[imms[i].name].whole
        /\ DOMAIN files' = DOMAIN files
        /\ files'[imms[i].name].recs = Survivors(imms[i].recs) /\ files'[imms[i].name].whole
        /\ \A m \in Names : m # imms[i].name => files'[m] = files[m]
        /\ wals' = wals
    BY <1>8, FinishIs DEF L0Names
  <2>2. doomed' = doomed \cup {imms[i].wal}
    BY <1>8 DEF FlushFinishes
  <2>3. CASE \E n \in Names : files[n].whole /\ r \in files[n].recs
    <3>1. PICK n \in Names : files[n].whole /\ r \in files[n].recs
      BY <2>3
    <3>2. files'[n] = files[n]
      BY <2>1, <3>1
    <3> QED  BY <2>1, <3>1, <3>2 DEF Safe, Names
  <2>4. CASE \E w \in DOMAIN wals \ doomed : \E h \in 1 .. Len(wals[w]) : wals[w][h] = r
    <3>1. PICK w \in DOMAIN wals \ doomed : \E h \in 1 .. Len(wals[w]) : wals[w][h] = r
      BY <2>4
    <3>2. CASE w = imms[i].wal
      <4>1. PICK h \in 1 .. Len(imms[i].recs) : imms[i].recs[h] = r
        BY <3>1, <3>2 DEF TableLogs
      <4>2. imms[i].recs[h] = latest[imms[i].recs[h].key]
        BY <1>2, <4>1
      <4>3. r \in Survivors(imms[i].recs)
        BY <4>1, <4>2, NewestWritten
      <4> QED  BY <2>1, <4>3 DEF Safe, Names
    <3>3. CASE w # imms[i].wal
      BY <2>1, <2>2, <3>1, <3>3 DEF Safe
    <3> QED  BY <3>2, <3>3
  <2> QED  BY <2>3, <2>4 DEF Safe
<1>9. CASE \/ OpenThrows \/ MergePublishes \/ Close \/ UNCHANGED vars
           \/ \E i \in 1 .. Len(imms) : FlushThrows(i)
  <2>1. UNCHANGED <<files, wals, doomed>>
    BY <1>9 DEF OpenThrows, MergePublishes, Close, FlushThrows, vars, dirVars, memVars
  <2> QED  BY <2>1 DEF Safe, Names
<1>10. CASE DropWal
  <2>1. PICK v \in doomed : wals' = Without(wals, v) /\ doomed' = doomed \ {v}
    BY <1>10 DEF DropWal
  <2>2. files' = files
    BY <1>10 DEF DropWal
  <2>3. DOMAIN wals' = DOMAIN wals \ {v} /\ \A w \in DOMAIN wals' : wals'[w] = wals[w]
    BY <2>1 DEF Without
  <2>4. \A w \in DOMAIN wals \ doomed : w \in DOMAIN wals' \ doomed' /\ wals'[w] = wals[w]
    BY <2>1, <2>3
  <2> QED  BY <2>2, <2>4 DEF Safe, Names
<1>11. CASE MergeBegins
  <2>1. UNCHANGED <<wals, doomed>>
    BY <1>11 DEF MergeBegins
  <2>2. PICK f : DOMAIN files' = DOMAIN files \cup {f} /\ \A m \in Names : files'[m] = files[m]
    BY <1>11, MergeCreates
  <2> QED  BY <2>1, <2>2 DEF Safe, Names
<1>12. CASE MergeWrites
  <2>1. UNCHANGED <<wals, doomed>> /\ merge.step = "write"
    BY <1>12 DEF MergeWrites, memVars
  <2>2. /\ DOMAIN files' = DOMAIN files
        /\ \A m \in Names : m # merge.out => files'[m] = files[m]
    BY <1>12, WriteIs
  <2>3. ~ files[merge.out].whole
    BY <2>1 DEF Compacting
  <2>4. \A m \in Names : files[m].whole => files'[m] = files[m]
    BY <2>2, <2>3
  <2> QED  BY <2>1, <2>2, <2>4 DEF Safe, Names
<1>13. CASE MergeRemoves
  <2>1. UNCHANGED <<wals, doomed>>
    BY <1>13 DEF MergeRemoves, memVars
  <2>2. PICK n \in merge.in :
              /\ n[1] = 0 /\ merge.out[1] = 1 /\ merge.out \in Names
              /\ DOMAIN files' = DOMAIN files \ {n} /\ \A m \in DOMAIN files' : files'[m] = files[m]
              /\ merge.step = "remove"
    BY <1>13, RemoveIs
  <2>3. merge.out \in DOMAIN files' /\ files[merge.out].whole
    BY <2>2 DEF Compacting, Names
  <2>4. r \in files[n].recs => r \in files[merge.out].recs
    BY <1>2, <2>2 DEF Compacting
  <2>5. (\E m \in Names : files[m].whole /\ r \in files[m].recs) =>
            \E m \in DOMAIN files' : files'[m].whole /\ r \in files'[m].recs
    BY <2>2, <2>3, <2>4 DEF Names
  <2> QED  BY <2>1, <2>5 DEF Safe, Names
<1> QED
  BY <1>3, <1>4, <1>5, <1>6, <1>7, <1>8, <1>9, <1>10, <1>11, <1>12, <1>13 DEF Next, ReplayStep, FlushStep, MergeStep

LEMMA KeptKept ==
    ASSUME LifecycleAssumption, Benign, Held, [Next]_vars, mishaps' = {}
    PROVE  Kept'
<1> USE DEF Held, Sound, Stored
<1>1. \A k \in Keys : latest[k].del \/ Safe(latest[k])
  BY KeptIs
<1>2. Typed'
  BY TypedKept
<1>3. (Kept') <=> (\A k \in Keys : latest'[k].del \/ \A r : r = latest'[k] => Safe(r)')
  <2>1. \A w \in DOMAIN wals' \ doomed' : DOMAIN wals'[w] = 1 .. Len(wals'[w])
    BY <1>2 DEF Typed
  <2> QED  BY <2>1 DEF Kept, Safe, Range
<1>4. CASE ~ PutOrRemove
  <2>1. latest' = latest
    BY <1>4 DEF Next, ReplayStep, FlushStep, MergeStep, Open, OpenThrows, ReplayRecord, ReplayThrows, RemoveReplayedWal,
                Crash, FlushBegins, FlushFinishes, FlushThrows, DropWal, MergeBegins, MergeWrites, MergeRemoves,
                MergePublishes, Close, Exit, history, vars
  <2>2. ASSUME NEW k \in Keys, ~ latest[k].del, NEW r, r = latest[k] PROVE Safe(r)'
    <3>1. Safe(r)
      BY <1>1, <2>2
    <3> QED  BY <1>4, <2>2, <3>1, SafeStays
  <2> QED  BY <1>3, <2>1, <2>2
<1>5. CASE PutOrRemove
  <2>1. PICK x \in Ops :
              /\ x.ver = puts + 1 /\ Store(x) /\ phase = "up"
              /\ \/ /\ DOMAIN wals' = DOMAIN wals
                    /\ active.wal \in DOMAIN wals => wals'[active.wal] = Append(wals[active.wal], x)
                    /\ \A w \in DOMAIN wals : w # active.wal => wals'[w] = wals[w]
                 \/ /\ now' \in WalNames
                    /\ DOMAIN wals' = DOMAIN wals \cup {now'}
                    /\ wals'[now'] = IF now' \in DOMAIN wals THEN Append(wals[now'], x) ELSE <<x>>
                    /\ \A w \in DOMAIN wals : w # now' => wals'[w] = wals[w]
    BY <1>5, PutLogs
  <2>2. UNCHANGED <<files, doomed>> /\ latest' = [latest EXCEPT ![x.key] = x] /\ x.key \in Keys
    BY <2>1 DEF Store, Ops
  <2>3. latest'[x.key] = x /\ \A k \in Keys : k # x.key => latest'[k] = latest[k]
    BY <2>2 DEF Typed
  <2>4. \A w \in DOMAIN wals : wals[w] \in Seq(Ops)
    BY DEF Typed
  <2>5. \E w \in DOMAIN wals' \ doomed' :
            /\ \A v \in DOMAIN wals : v # w => v \in DOMAIN wals' /\ wals'[v] = wals[v]
            /\ \/ w \in DOMAIN wals /\ wals'[w] = Append(wals[w], x)
               \/ w \notin DOMAIN wals /\ wals'[w] = <<x>>
    <3>1. active.wal \in DOMAIN wals \ doomed /\ doomed \subseteq DOMAIN wals
      BY <2>1 DEF LogsHeld
    <3>2. CASE DOMAIN wals' = DOMAIN wals
      <4>1. CASE wals'[active.wal] = Append(wals[active.wal], x) /\ \A w \in DOMAIN wals : w # active.wal => wals'[w] = wals[w]
        <5>1. active.wal \in DOMAIN wals' \ doomed'
          BY <2>2, <3>1, <3>2
        <5>2. \A v \in DOMAIN wals : v # active.wal => v \in DOMAIN wals' /\ wals'[v] = wals[v]
          BY <3>2, <4>1
        <5> QED  BY <3>1, <4>1, <5>1, <5>2
      <4>2. CASE /\ DOMAIN wals' = DOMAIN wals \cup {now'} /\ now' \in WalNames
        <5>1. now' = now + 1 /\ now \in Nat /\ \A w \in DOMAIN wals : w <= now
          BY <4>2 DEF WalNames, Typed, Clocked, Benign, Paced
        <5>2. now' \in DOMAIN wals
          BY <3>2, <4>2
        <5>3. now' <= now
          BY <5>1, <5>2
        <5> QED  BY <5>1, <5>3
      <4> QED  BY <2>1, <3>1, <4>1, <4>2
    <3>3. CASE DOMAIN wals' # DOMAIN wals
      <4>1. /\ now' \in WalNames
            /\ DOMAIN wals' = DOMAIN wals \cup {now'}
            /\ wals'[now'] = IF now' \in DOMAIN wals THEN Append(wals[now'], x) ELSE <<x>>
            /\ \A w \in DOMAIN wals : w # now' => wals'[w] = wals[w]
        BY <2>1, <3>3
      <4> QED  BY <2>2, <3>1, <3>3, <4>1
    <3> QED  BY <3>2, <3>3
  <2>6. PICK w \in DOMAIN wals' \ doomed' :
            /\ \A v \in DOMAIN wals : v # w => v \in DOMAIN wals' /\ wals'[v] = wals[v]
            /\ \/ w \in DOMAIN wals /\ wals'[w] = Append(wals[w], x)
               \/ w \notin DOMAIN wals /\ wals'[w] = <<x>>
    BY <2>5
  <2>7. Safe(x)'
    <3>1. \E i \in 1 .. Len(wals'[w]) : wals'[w][i] = x
      <4>1. CASE w \in DOMAIN wals /\ wals'[w] = Append(wals[w], x)
        BY <2>4, <4>1, OthersStay
      <4>2. CASE wals'[w] = <<x>>
        BY <4>2
      <4> QED  BY <2>6, <4>1, <4>2
    <3> QED  BY <3>1 DEF Safe
  <2>8. ASSUME NEW r, Safe(r) PROVE Safe(r)'
    <3>1. CASE \E n \in Names : files[n].whole /\ r \in files[n].recs
      BY <2>2, <3>1 DEF Safe, Names
    <3>2. CASE \E v \in DOMAIN wals \ doomed : \E i \in 1 .. Len(wals[v]) : wals[v][i] = r
      <4>1. PICK v \in DOMAIN wals \ doomed : \E i \in 1 .. Len(wals[v]) : wals[v][i] = r
        BY <3>2
      <4>2. v \in DOMAIN wals' \ doomed'
        BY <2>2, <2>6
      <4>3. \E i \in 1 .. Len(wals'[v]) : wals'[v][i] = r
        <5>1. wals'[v] = wals[v] \/ wals'[v] = Append(wals[v], x)
          BY <2>6
        <5> QED  BY <2>4, <4>1, <5>1, OthersStay, SMTT(20)
      <4> QED  BY <4>2, <4>3 DEF Safe
    <3> QED  BY <2>8, <3>1, <3>2 DEF Safe
  <2>9. ASSUME NEW k \in Keys, NEW r, r = latest'[k] PROVE r.del \/ Safe(r)'
    BY <1>1, <2>3, <2>7, <2>8, <2>9
  <2> QED  BY <1>3, <2>9
<1> QED  BY <1>4, <1>5

-----------------------------------------------------------------------------
(* No log holds of a key only what is older than a file.                   *)

LEMMA TrustedBefore ==
    ASSUME LifecycleAssumption, Benign, Sound, [Next]_vars, Trusted'
    PROVE  Trusted
<1> USE DEF Sound
<1>1. rounds \in Nat
  BY DEF Typed
<1>2. CASE MergeBegins
  <2>1. rounds < MaxCompactions /\ MaxCompactions \in Nat
    BY <1>2 DEF MergeBegins, LifecycleAssumption
  <2>2. "sst" \notin Faults \/ rounds = 0
    BY <1>1, <2>1 DEF Benign
  <2> QED  BY <2>2 DEF Trusted
<1>3. CASE MergeStep
  <2>1. CASE merge.step = "write"
    BY <2>1 DEF Trusted
  <2>2. CASE merge.step # "write"
    <3>1. merge'.step # "write" /\ rounds' = rounds
      <4>1. CASE MergeWrites
        BY <2>2, <4>1 DEF MergeWrites
      <4>2. CASE MergeRemoves
        BY <4>2, RemoveIs DEF MergeRemoves, bounds
      <4>3. CASE MergePublishes
        BY <4>3 DEF MergePublishes, bounds, NoMerge
      <4> QED  BY <1>3, <4>1, <4>2, <4>3 DEF MergeStep
    <3> QED  BY <3>1 DEF Trusted
  <2> QED  BY <2>1, <2>2
<1>4. CASE ~ MergeBegins /\ ~ MergeStep
  <2>1. rounds' = rounds /\ (merge' = merge \/ merge' = NoMerge)
    <3>1. CASE Open \/ OpenThrows \/ ReplayStep \/ Crash \/ Exit \/ UNCHANGED vars
      BY <3>1 DEF Open, OpenThrows, ReplayStep, ReplayRecord, ReplayThrows, RemoveReplayedWal, Crash, Exit, ProcessEnds, bounds, vars
    <3>2. CASE PutOrRemove \/ FlushStep \/ Close
      BY <3>2 DEF PutOrRemove, Put, PutInNewTable, Store, FlushStep, FlushBegins, FlushFinishes, FlushThrows, DropWal, Close, bounds
    <3> QED  BY <1>4, <3>1, <3>2 DEF Next
  <2> QED  BY <2>1 DEF Trusted, NoMerge
<1> QED  BY <1>2, <1>3, <1>4

\* Files that are new are empty, and the others are as they were, on level 0.
OldFiles == \A n \in DOMAIN files' : n[1] = 0 => files'[n].recs = {} \/ (n \in Names /\ files'[n] = files[n])

LEMMA OldFilesOrdered ==
    ASSUME OldFiles
    PROVE  /\ FilesOrdered => FilesOrdered'
           /\ \A w : wals'[w] = wals[w] /\ LogAbove(w) => LogAbove(w)'
           /\ wals' = wals /\ LogsAbove => LogsAbove'
<1>1. ASSUME NEW n \in L0Names', NEW b \in files'[n].recs
      PROVE  n \in L0Names /\ files'[n] = files[n] /\ b \in files[n].recs
  BY <1>1 DEF OldFiles, L0Names, Names
<1>2. FilesOrdered => FilesOrdered'
  BY <1>1 DEF FilesOrdered
<1>3. ASSUME NEW w, wals'[w] = wals[w], LogAbove(w) PROVE LogAbove(w)'
  BY <1>1, <1>3 DEF LogAbove
<1>4. ASSUME wals' = wals, LogsAbove PROVE LogsAbove'
  BY <1>1, <1>4 DEF LogsAbove
<1> QED  BY <1>2, <1>3, <1>4

\* While the engine runs, and no file and no log gets new records.
LEMMA BelowStays ==
    ASSUME Trusted, FilesBelow, OldFiles, phase \in {"up", "closing"}, phase' \in {"up", "closing"},
           DOMAIN wals' \subseteq DOMAIN wals, \A w \in DOMAIN wals' : wals'[w] = wals[w],
           \A w : Failed(w) => Failed(w)', Unfinished'
    PROVE  FilesBelow'
<1>1. FilesOrdered'
  BY OldFilesOrdered DEF FilesBelow
<1>2. \A w \in DOMAIN wals' : LogAbove(w)' \/ Failed(w)'
  <2> TAKE w \in DOMAIN wals'
  <2>1. LogAbove(w) \/ Failed(w)
    BY DEF FilesBelow
  <2> QED  BY <2>1, OldFilesOrdered
<1> QED  BY <1>1, <1>2 DEF FilesBelow

\* One more record, newer than all files.
LEMMA AboveOneMore ==
    ASSUME files' = files, NEW w, NEW s \in Seq(Ops), NEW x \in Ops, wals'[w] = Append(s, x),
           s = wals[w], LogAbove(w), \A n \in Names : \A b \in files[n].recs : b.ver <= x.ver
    PROVE  LogAbove(w)'
<1> DEFINE t == Append(s, x)
<1>1. Len(s) \in Nat /\ Len(t) = Len(s) + 1 /\ (\A i \in 1 .. Len(s) : t[i] = s[i]) /\ t[Len(s) + 1] = x
  BY OneMore
<1>2. wals'[w] = t
  OBVIOUS
<1> HIDE DEF t
<1>3. ASSUME NEW n \in L0Names, NEW b \in files[n].recs, NEW i \in 1 .. Len(t), t[i].key = b.key
      PROVE  \E j \in 1 .. Len(t) : t[j].key = b.key /\ t[j].ver >= b.ver
  <2>1. CASE i \in 1 .. Len(s)
    <3>1. s[i].key = b.key
      BY <1>1, <1>3, <2>1
    <3>2. PICK j \in 1 .. Len(s) : s[j].key = b.key /\ s[j].ver >= b.ver
      BY <2>1, <3>1 DEF LogAbove
    <3>3. j \in 1 .. Len(t) /\ t[j] = s[j]
      BY <1>1
    <3> QED  BY <3>2, <3>3
  <2>2. CASE i = Len(s) + 1
    <3>1. b.ver <= x.ver /\ t[i] = x
      BY <1>1, <2>2 DEF L0Names
    <3> QED  BY <1>3, <3>1
  <2> QED  BY <1>1, <2>1, <2>2
<1> QED  BY <1>2, <1>3 DEF LogAbove, L0Names, Names

LEMMA OpenBelow ==
    ASSUME LifecycleAssumption, Held, Trusted, Open
    PROVE  FilesBelow'
<1> USE DEF Held, Sound, Stored
<1>1. /\ DOMAIN wals' = DOMAIN wals \cup {now'} /\ wals'[now'] = <<>>
      /\ \A w \in DOMAIN wals : wals'[w] = wals[w]
      /\ \A w \in DOMAIN wals : \E i \in 1 .. Len(todo') : todo'[i] = w
      /\ phase' = (IF todo' = <<>> THEN "up" ELSE "replay")
  BY OpenIs
<1>2. files' = files /\ imms' = <<>> /\ phase = "down" /\ \A n \in Names : files[n].whole
  BY DEF Open, Phases
<1>3. FilesOrdered /\ LogsAbove
  BY <1>2 DEF FilesBelow
<1>4. FilesOrdered' /\ Unfinished'
  BY <1>2, <1>3 DEF FilesOrdered, L0Names, Names, Unfinished
<1>5. ASSUME NEW n \in L0Names, NEW b \in files[n].recs, NEW w \in DOMAIN wals', NEW i \in 1 .. Len(wals'[w]), wals'[w][i].key = b.key
      PROVE  \E v \in DOMAIN wals' : \E j \in 1 .. Len(wals'[v]) : wals'[v][j].key = b.key /\ wals'[v][j].ver >= b.ver
  <2>1. w \in DOMAIN wals /\ wals'[w] = wals[w]
    BY <1>1
  <2>2. \E v \in DOMAIN wals : \E j \in 1 .. Len(wals[v]) : wals[v][j].key = b.key /\ wals[v][j].ver >= b.ver
    BY <1>3, <1>5, <2>1 DEF LogsAbove
  <2> QED  BY <1>1, <2>2
<1>6. LogsAbove'
  BY <1>2, <1>5 DEF LogsAbove, L0Names, Names
<1>7. ASSUME phase' = "up" PROVE \A w \in DOMAIN wals' : LogAbove(w)'
  <2>1. \A w \in DOMAIN wals' : wals'[w] = <<>>
    BY <1>1, <1>7
  <2> QED  BY <2>1 DEF LogAbove
<1> QED  BY <1>1, <1>4, <1>6, <1>7 DEF FilesBelow

LEMMA ReplayBelow ==
    ASSUME LifecycleAssumption, Held, Trusted, ReplayRecord
    PROVE  FilesBelow'
<1> USE DEF Held, Sound, Stored
<1> DEFINE x == wals[todo[1]][done + 1]
<1>1. /\ todo[1] \in DOMAIN wals /\ done + 1 \in 1 .. Len(wals[todo[1]]) /\ active.wal \in DOMAIN wals /\ x \in Ops
      /\ DOMAIN wals' = DOMAIN wals
      /\ wals'[active.wal] = Append(wals[active.wal], x)
      /\ \A w \in DOMAIN wals : w # active.wal => wals'[w] = wals[w]
  BY ReplayIs
<1>2. UNCHANGED <<files, imms>> /\ phase = "replay" /\ phase' = "replay"
  BY DEF ReplayRecord
<1>3. FilesOrdered /\ LogsAbove /\ Unfinished
  BY <1>2 DEF FilesBelow
<1>4. FilesOrdered' /\ Unfinished'
  BY <1>2, <1>3 DEF FilesOrdered, L0Names, Names, Unfinished
<1>5. \A w \in DOMAIN wals : wals[w] \in Seq(Ops)
  BY DEF Typed
<1>6. ASSUME NEW n \in L0Names, NEW b \in files[n].recs, NEW w \in DOMAIN wals', NEW i \in 1 .. Len(wals'[w]), wals'[w][i].key = b.key
      PROVE  \E v \in DOMAIN wals' : \E j \in 1 .. Len(wals'[v]) : wals'[v][j].key = b.key /\ wals'[v][j].ver >= b.ver
  <2>1. \E v \in DOMAIN wals : \E j \in 1 .. Len(wals[v]) : wals[v][j].key = b.key
    <3>1. CASE w # active.wal
      BY <1>1, <1>6, <3>1
    <3>2. CASE w = active.wal
      <4>1. \/ i \in 1 .. Len(wals[w]) /\ wals'[w][i] = wals[w][i]
            \/ wals'[w][i] = x
        BY <1>1, <1>5, <3>2, Appended
      <4> QED  BY <1>1, <1>6, <3>2, <4>1
    <3> QED  BY <3>1, <3>2
  <2>2. PICK v \in DOMAIN wals : \E j \in 1 .. Len(wals[v]) : wals[v][j].key = b.key /\ wals[v][j].ver >= b.ver
    BY <1>3, <2>1 DEF LogsAbove
  <2>3. PICK j \in 1 .. Len(wals[v]) : wals[v][j].key = b.key /\ wals[v][j].ver >= b.ver
    BY <2>2
  <2>4. PICK r : r = wals[v][j]
    OBVIOUS
  <2>5. \E h \in 1 .. Len(wals'[v]) : wals'[v][h] = r
    <3> HIDE DEF x
    <3>1. wals'[v] = wals[v] \/ wals'[v] = Append(wals[v], x)
      BY <1>1
    <3> QED  BY <1>1, <1>5, <2>4, <3>1, OthersStay, SMTT(20)
  <2> QED  BY <1>1, <2>3, <2>4, <2>5
<1>7. LogsAbove'
  BY <1>2, <1>6 DEF LogsAbove, L0Names, Names
<1> QED  BY <1>2, <1>4, <1>7 DEF FilesBelow

\* What was in the log is in the new one.
LEMMA ReplayedBelow ==
    ASSUME Held, Trusted, RemoveReplayedWal
    PROVE  FilesBelow'
<1> USE DEF Held, Sound, Stored
<1>1. /\ todo[1] \in DOMAIN wals /\ Len(todo) \in Nat
      /\ Len(todo') = Len(todo) - 1
      /\ DOMAIN wals' = DOMAIN wals \ {todo[1]} /\ \A w \in DOMAIN wals' : wals'[w] = wals[w]
      /\ active.wal \in DOMAIN wals'
      /\ phase' = (IF todo' = <<>> THEN "up" ELSE "replay")
  BY ReplayedIs
<1>2. UNCHANGED <<files, imms, active>> /\ phase = "replay" /\ done = Len(wals[todo[1]])
  BY DEF RemoveReplayedWal, memVars
<1>3. FilesOrdered /\ LogsAbove /\ Unfinished
  BY <1>2 DEF FilesBelow
<1>4. FilesOrdered' /\ Unfinished'
  BY <1>2, <1>3 DEF FilesOrdered, L0Names, Names, Unfinished
<1>5. \A j \in 1 .. Len(wals[todo[1]]) : \E h \in 1 .. Len(wals[active.wal]) : wals[active.wal][h] = wals[todo[1]][j]
  <2>1. wals[active.wal] = active.recs /\ DOMAIN active.recs = 1 .. Len(active.recs)
    BY <1>2 DEF TableLogs, Typed
  <2>2. \A j \in 1 .. Len(wals[todo[1]]) : wals[todo[1]][j] \in Range(active.recs)
    BY <1>2 DEF Replayed
  <2> QED  BY <2>1, <2>2 DEF Range
<1>6. ASSUME NEW n \in L0Names, NEW b \in files[n].recs, NEW w \in DOMAIN wals', NEW i \in 1 .. Len(wals'[w]), wals'[w][i].key = b.key
      PROVE  \E v \in DOMAIN wals' : \E j \in 1 .. Len(wals'[v]) : wals'[v][j].key = b.key /\ wals'[v][j].ver >= b.ver
  <2>1. w \in DOMAIN wals /\ i \in 1 .. Len(wals[w]) /\ wals[w][i].key = b.key
    BY <1>1, <1>6
  <2>2. PICK v \in DOMAIN wals : \E j \in 1 .. Len(wals[v]) : wals[v][j].key = b.key /\ wals[v][j].ver >= b.ver
    BY <1>3, <2>1 DEF LogsAbove
  <2>3. PICK j \in 1 .. Len(wals[v]) : wals[v][j].key = b.key /\ wals[v][j].ver >= b.ver
    BY <2>2
  <2>4. CASE v = todo[1]
    <3>1. PICK h \in 1 .. Len(wals[active.wal]) : wals[active.wal][h] = wals[v][j]
      BY <1>5, <2>4
    <3>2. PICK u : u = active.wal
      OBVIOUS
    <3>3. u \in DOMAIN wals' /\ wals'[u] = wals[u]
      BY <1>1, <3>2
    <3>4. h \in 1 .. Len(wals'[u]) /\ wals'[u][h] = wals[v][j]
      BY <3>1, <3>2, <3>3
    <3> QED  BY <2>3, <3>3, <3>4
  <2>5. CASE v # todo[1]
    BY <1>1, <2>3, <2>5
  <2> QED  BY <2>4, <2>5
<1>7. LogsAbove'
  BY <1>2, <1>6 DEF LogsAbove, L0Names, Names
<1>8. ASSUME phase' = "up" PROVE \A w \in DOMAIN wals' : LogAbove(w)'
  <2>1. Len(todo) = 1
    BY <1>1, <1>8
  <2>2. \A w \in DOMAIN wals' : w = active.wal
    BY <1>1, <1>2, <2>1 DEF Accounted
  <2>3. \A v, w \in DOMAIN wals' : v = w
    BY <2>2
  <2>4. ASSUME NEW w \in DOMAIN wals', NEW n \in L0Names, NEW b \in files[n].recs, NEW i \in 1 .. Len(wals'[w]), wals'[w][i].key = b.key
        PROVE  \E j \in 1 .. Len(wals'[w]) : wals'[w][j].key = b.key /\ wals'[w][j].ver >= b.ver
    BY <1>6, <2>3, <2>4
  <2> QED  BY <1>2, <2>4 DEF LogAbove, L0Names, Names
<1> QED  BY <1>1, <1>4, <1>7, <1>8 DEF FilesBelow

\* The process ends: where a flush has failed, its file is unfinished.
LEMMA EndBelow ==
    ASSUME Held, Trusted, ReplayThrows \/ Crash \/ Exit, mishaps' = {}
    PROVE  FilesBelow'
<1> USE DEF Held, Sound, Stored
<1>1. phase' = "down" /\ phase # "down" /\ imms' = <<>> /\ UNCHANGED <<files, wals>>
  BY EndIs
<1>2. FilesOrdered' /\ Unfinished'
  BY <1>1 DEF FilesBelow, FilesOrdered, L0Names, Names, Unfinished
<1>3. LogsAbove \/ \E n \in Names : ~ files[n].whole
  <2>1. CASE phase = "replay"
    BY <2>1 DEF FilesBelow
  <2>2. CASE phase # "replay"
    <3>1. phase \in {"up", "closing"}
      BY <1>1, <2>2 DEF Typed
    <3>2. CASE \E i \in 1 .. Len(imms) : imms[i].step = "failed"
      BY <3>2 DEF FilesBelow, Unfinished
    <3>3. CASE ~ \E i \in 1 .. Len(imms) : imms[i].step = "failed"
      <4>1. \A w \in DOMAIN wals : LogAbove(w)
        BY <3>1, <3>3 DEF FilesBelow, Failed
      <4> QED  BY <4>1 DEF LogsAbove, LogAbove
    <3> QED  BY <3>2, <3>3
  <2> QED  BY <2>1, <2>2
<1>4. (LogsAbove \/ \E n \in Names : ~ files[n].whole)'
  BY <1>1, <1>3 DEF LogsAbove, L0Names, Names
<1> QED  BY <1>1, <1>2, <1>4 DEF FilesBelow

LEMMA PutBelow ==
    ASSUME LifecycleAssumption, Benign, Held, Trusted, PutOrRemove
    PROVE  FilesBelow'
<1> USE DEF Held, Sound, Stored
<1>1. PICK r \in Ops :
              /\ r.ver = puts + 1 /\ Store(r) /\ phase = "up"
              /\ \/ /\ DOMAIN wals' = DOMAIN wals /\ imms' = imms
                    /\ active.wal \in DOMAIN wals => wals'[active.wal] = Append(wals[active.wal], r)
                    /\ \A w \in DOMAIN wals : w # active.wal => wals'[w] = wals[w]
                 \/ /\ now' \in WalNames
                    /\ DOMAIN wals' = DOMAIN wals \cup {now'}
                    /\ wals'[now'] = IF now' \in DOMAIN wals THEN Append(wals[now'], r) ELSE <<r>>
                    /\ \A w \in DOMAIN wals : w # now' => wals'[w] = wals[w]
                    /\ imms' = Append(imms, Unflushed(active))
  BY PutLogs
<1>2. UNCHANGED <<files, phase>>
  BY <1>1 DEF Store
<1>3. FilesOrdered /\ Unfinished /\ \A w \in DOMAIN wals : LogAbove(w) \/ Failed(w)
  BY <1>1 DEF FilesBelow
<1>4. FilesOrdered'
  BY <1>2, <1>3 DEF FilesOrdered, L0Names, Names
<1>5. \A n \in Names : \A b \in files[n].recs : b.ver <= r.ver
  <2>1. \A n \in Names : \A b \in files[n].recs : b.ver <= puts /\ b.ver \in Nat
    BY RecordsKnown DEF Ops
  <2>2. puts \in Nat
    BY DEF Typed
  <2> QED  BY <1>1, <2>1, <2>2
<1>6. \A w : wals'[w] = wals[w] /\ LogAbove(w) => LogAbove(w)'
  BY <1>2 DEF LogAbove, L0Names, Names
<1>7. /\ active.wal \in DOMAIN wals /\ active.wal \in Nat
      /\ \A i \in 1 .. Len(imms) : imms[i].wal < active.wal
  BY <1>1 DEF LogsHeld, Typed
<1>8. CASE /\ DOMAIN wals' = DOMAIN wals /\ imms' = imms
           /\ active.wal \in DOMAIN wals => wals'[active.wal] = Append(wals[active.wal], r)
           /\ \A w \in DOMAIN wals : w # active.wal => wals'[w] = wals[w]
  <2>1. ~ Failed(active.wal)
    BY <1>7 DEF Failed
  <2>2. PICK a : a = active.wal
    OBVIOUS
  <2>3. a \in DOMAIN wals /\ LogAbove(a) /\ wals'[a] = Append(wals[a], r)
    BY <1>3, <1>7, <1>8, <2>1, <2>2
  <2>4. wals[a] \in Seq(Ops)
    BY <2>3 DEF Typed
  <2>5. LogAbove(a)'
    BY <1>2, <1>5, <2>3, <2>4, AboveOneMore
  <2>6. \A w : Failed(w) => Failed(w)'
    BY <1>8 DEF Failed
  <2>7. ASSUME NEW w \in DOMAIN wals' PROVE LogAbove(w)' \/ Failed(w)'
    <3>1. CASE w = a
      BY <2>5, <3>1
    <3>2. CASE w # a
      <4>1. w \in DOMAIN wals /\ wals'[w] = wals[w]
        BY <1>8, <2>2, <3>2
      <4> QED  BY <1>3, <1>6, <2>6, <4>1
    <3> QED  BY <3>1, <3>2
  <2>8. Unfinished'
    BY <1>2, <1>3, <1>8 DEF Unfinished, Names
  <2> QED  BY <1>1, <1>2, <1>4, <2>7, <2>8 DEF FilesBelow
<1>9. CASE /\ now' \in WalNames
           /\ DOMAIN wals' = DOMAIN wals \cup {now'}
           /\ wals'[now'] = IF now' \in DOMAIN wals THEN Append(wals[now'], r) ELSE <<r>>
           /\ \A w \in DOMAIN wals : w # now' => wals'[w] = wals[w]
           /\ imms' = Append(imms, Unflushed(active))
  <2>1. now' = now + 1 /\ now \in Nat /\ \A w \in DOMAIN wals : w <= now
    BY <1>9 DEF WalNames, Typed, Clocked, Benign, Paced
  <2>2. now' \notin DOMAIN wals
    BY <2>1
  <2>3. wals'[now'] = <<r>> /\ \A w \in DOMAIN wals : wals'[w] = wals[w]
    BY <1>9, <2>2
  <2>4. PICK v : v = now'
    OBVIOUS
  <2>5. LogAbove(v)'
    <3>1. wals'[v] = <<r>>
      BY <2>3, <2>4
    <3> QED  BY <1>2, <1>5, <3>1 DEF LogAbove, L0Names, Names
  <2>6. /\ Len(imms') = Len(imms) + 1 /\ Len(imms) \in Nat
        /\ \A j \in 1 .. Len(imms) : imms'[j] = imms[j]
        /\ imms'[Len(imms) + 1].step = "new"
    BY <1>9, SwitchIs
  <2>7. \A w : Failed(w) => Failed(w)'
    BY <2>6 DEF Failed
  <2>8. ASSUME NEW w \in DOMAIN wals' PROVE LogAbove(w)' \/ Failed(w)'
    <3>1. CASE w = v
      BY <2>5, <3>1
    <3>2. CASE w # v
      <4>1. w \in DOMAIN wals /\ wals'[w] = wals[w]
        BY <1>9, <2>4, <3>2
      <4> QED  BY <1>3, <1>6, <2>7, <4>1
    <3> QED  BY <3>1, <3>2
  <2>9. \A j \in 1 .. Len(imms') : imms'[j].step # "new" => j \in 1 .. Len(imms) /\ imms'[j] = imms[j]
    BY <2>6
  <2>10. Unfinished'
    BY <1>2, <1>3, <2>9 DEF Unfinished, Names
  <2> QED  BY <1>1, <1>2, <1>4, <2>8, <2>10 DEF FilesBelow
<1> QED  BY <1>1, <1>8, <1>9

LEMMA BeginBelow ==
    ASSUME Benign, Held, Trusted, NEW i \in 1 .. Len(imms), FlushBegins(i), mishaps' = {}
    PROVE  FilesBelow'
<1> USE DEF Held, Sound, Stored
<1>1. PICK f \in {0} \X Nat :
              /\ imms'[i].name = f /\ f \notin Names
              /\ DOMAIN files' = DOMAIN files \cup {f} /\ files'[f].recs = {}
              /\ \A m \in Names : files'[m] = files[m]
  BY FlushCreates
<1>2. UNCHANGED <<wals, phase>> /\ phase \in {"up", "closing"} /\ imms[i].step = "new"
  BY DEF FlushBegins, Running
<1>3. /\ Len(imms') = Len(imms)
      /\ \A j \in 1 .. Len(imms) : j # i => imms'[j] = imms[j]
      /\ imms'[i].step = "write"
  BY BeginIs
<1>4. \A j \in 1 .. Len(imms) : imms[j].step # "write"
  BY NothingUnderWay DEF Held, Sound, Benign
<1>5. OldFiles
  BY <1>1 DEF OldFiles, Names
<1>6. \A w : Failed(w) => Failed(w)'
  <2> TAKE w
  <2> HAVE Failed(w)
  <2>1. PICK j \in 1 .. Len(imms) : imms[j].wal = w /\ imms[j].step = "failed"
    BY DEF Failed
  <2>2. imms'[j] = imms[j] /\ j \in 1 .. Len(imms')
    BY <1>2, <1>3, <2>1
  <2> QED  BY <2>1, <2>2 DEF Failed
<1>7. Unfinished'
  <2> SUFFICES ASSUME NEW j \in 1 .. Len(imms'), imms'[j].step = "failed"
               PROVE  /\ imms'[j].name \in DOMAIN files' /\ ~ files'[imms'[j].name].whole
                      /\ \A h \in 1 .. Len(imms') : imms'[h].step = "write" => imms'[h].name # imms'[j].name
    BY DEF Unfinished, Names
  <2>1. j \in 1 .. Len(imms) /\ imms'[j] = imms[j]
    BY <1>3
  <2>2. imms[j].name \in Names /\ ~ files[imms[j].name].whole
    BY <2>1, <1>2 DEF FilesBelow, Unfinished
  <2>3. \A h \in 1 .. Len(imms') : imms'[h].step = "write" => h = i
    BY <1>3, <1>4
  <2>4. f # imms[j].name
    BY <1>1, <2>2
  <2>5. imms[j].name \in DOMAIN files' /\ files'[imms[j].name] = files[imms[j].name]
    BY <1>1, <2>2 DEF Names
  <2> QED  BY <1>1, <2>1, <2>2, <2>3, <2>4, <2>5
<1> QED  BY <1>2, <1>5, <1>6, <1>7, BelowStays

LEMMA ThrowBelow ==
    ASSUME Held, Trusted, NEW i \in 1 .. Len(imms), FlushThrows(i)
    PROVE  FilesBelow'
<1> USE DEF Held, Sound, Stored
<1>1. UNCHANGED <<files, wals, phase>> /\ phase \in {"up", "closing"} /\ imms[i].step = "write"
  BY DEF FlushThrows, Running, dirVars
<1>2. /\ Len(imms') = Len(imms)
      /\ \A j \in 1 .. Len(imms) : j # i => imms'[j] = imms[j]
      /\ imms'[i].wal = imms[i].wal /\ imms'[i].step = "failed" /\ imms'[i].name = imms[i].name
  BY ThrowIs
<1>3. OldFiles
  BY <1>1 DEF OldFiles, Names
<1>4. \A w : Failed(w) => Failed(w)'
  BY <1>1, <1>2 DEF Failed
<1>5. \A j \in 1 .. Len(imms) : imms[j].step = "write" => j = i
  <2> SUFFICES ASSUME NEW j \in 1 .. Len(imms), imms[j].step = "write", j # i PROVE FALSE
    OBVIOUS
  <2>1. CASE j < i
    BY <1>1, <2>1 DEF Writing
  <2>2. CASE i < j
    BY <1>1, <2>2 DEF Writing
  <2> QED  BY <2>1, <2>2
<1>6. \A j \in 1 .. Len(imms') : imms'[j].step # "write"
  BY <1>1, <1>2, <1>5
<1>7. \A j \in 1 .. Len(imms') : imms'[j].step = "failed" => imms'[j].name \in Names /\ ~ files[imms'[j].name].whole
  <2> TAKE j \in 1 .. Len(imms')
  <2> HAVE imms'[j].step = "failed"
  <2>1. CASE j = i
    BY <1>1, <1>2, <2>1 DEF Writing
  <2>2. CASE j # i
    <3>1. j \in 1 .. Len(imms) /\ imms'[j] = imms[j]
      BY <1>2, <2>2
    <3> QED  BY <1>1, <3>1 DEF FilesBelow, Unfinished
  <2> QED  BY <2>1, <2>2
<1>8. Unfinished'
  BY <1>1, <1>6, <1>7 DEF Unfinished, Names
<1> QED  BY <1>1, <1>3, <1>4, <1>8, BelowStays

\* The last record of a key in the log of a flush is not older than a file.
LEMMA SurvivorsAbove ==
    ASSUME Typed, LogsHeld, TableLogs, LogsSorted, NEW i \in 1 .. Len(imms), LogAbove(imms[i].wal),
           NEW a \in Survivors(imms[i].recs), NEW n \in L0Names, NEW b \in files[n].recs, a.key = b.key
    PROVE  a.ver >= b.ver
<1>1. imms[i] \in Tables
  BY DEF Typed
<1>2. PICK recs \in Seq(Ops) : recs = imms[i].recs
  BY <1>1 DEF Tables
<1>3. PICK v : v = imms[i].wal
  OBVIOUS
<1>4. v \in DOMAIN wals /\ wals[v] = recs /\ LogAbove(v) /\ Ascending(recs)
  BY <1>2, <1>3 DEF LogsHeld, TableLogs, LogsSorted
<1>5. PICK m \in 1 .. Len(recs) : recs[m] = a /\ \A j \in 1 .. Len(recs) : recs[j].key = a.key => j <= m
  <2>1. a \in Survivors(recs)
    BY <1>2
  <2>2. \A r \in Survivors(recs) : \E m \in 1 .. Len(recs) :
            recs[m] = r /\ \A j \in 1 .. Len(recs) : recs[j].key = r.key => j <= m
    BY SurvivorsAre
  <2> QED  BY <2>1, <2>2
<1>6. \E j \in 1 .. Len(recs) : recs[j].key = b.key /\ recs[j].ver >= b.ver
  <2>1. \E j \in 1 .. Len(recs) : recs[j].key = b.key
    BY <1>5
  <2> QED  BY <1>4, <2>1 DEF LogAbove
<1>7. PICK j \in 1 .. Len(recs) : recs[j].key = b.key /\ recs[j].ver >= b.ver
  BY <1>6
<1>8. j <= m /\ recs[j].key = recs[m].key
  BY <1>5, <1>7
<1>9. recs[j].ver <= recs[m].ver
  <2>1. recs[j] \in Ops /\ j \in Nat /\ m \in Nat
    BY ElementOfSeq
  <2>2. recs[j].ver \in Nat
    BY <2>1 DEF Ops
  <2> QED  BY <1>4, <1>8, <2>1, <2>2 DEF Ascending
<1>10. recs[j].ver \in Nat /\ recs[m].ver \in Nat /\ b.ver \in Nat
  <2>1. recs[j] \in Ops /\ recs[m] \in Ops
    BY ElementOfSeq
  <2>2. b \in Ops
    BY DEF Typed, L0Names
  <2> QED  BY <2>1, <2>2 DEF Ops
<1> QED  BY <1>5, <1>7, <1>9, <1>10

LEMMA FinishBelow ==
    ASSUME Held, Trusted, NEW i \in 1 .. Len(imms), FlushFinishes(i)
    PROVE  FilesBelow'
<1> USE DEF Held, Sound, Stored
<1>1. PICK f : f = imms[i].name
  OBVIOUS
<1>2. PICK v : v = imms[i].wal
  OBVIOUS
<1>3. /\ v \in Nat /\ imms[i].recs \in Seq(Ops) /\ f \in L0Names
      /\ imms[i].step = "write" /\ doomed = {}
      /\ \A j \in 1 .. Len(imms) : (j < i => imms[j].step = "failed") /\ (j > i => imms[j].step = "new")
      /\ DOMAIN files' = DOMAIN files
      /\ files'[f].recs = Survivors(imms[i].recs)
      /\ \A m \in Names : m # f => files'[m] = files[m]
      /\ wals' = wals
  BY <1>1, <1>2, FinishIs
<1>4. imms' = RemoveAt(imms, i) /\ phase' = phase /\ phase \in {"up", "closing"}
  BY DEF FlushFinishes, Running
<1>5. /\ \A h \in 1 .. Len(imms) : h # i => \E j \in 1 .. Len(imms') : imms'[j] = imms[h]
      /\ \A j \in 1 .. Len(imms') : \E h \in 1 .. Len(imms) : h # i /\ imms'[j] = imms[h]
  BY <1>4, OneLess
<1>6. FilesOrdered /\ Unfinished /\ \A w \in DOMAIN wals : LogAbove(w) \/ Failed(w)
  BY <1>4 DEF FilesBelow
<1>7. \A w : Failed(w) => Failed(w)'
  <2> TAKE w
  <2> HAVE Failed(w)
  <2>1. PICK h \in 1 .. Len(imms) : imms[h].wal = w /\ imms[h].step = "failed"
    BY DEF Failed
  <2>2. h # i
    BY <1>3, <2>1
  <2> QED  BY <1>5, <2>1, <2>2 DEF Failed
<1>8. v \in DOMAIN wals /\ wals[v] = imms[i].recs /\ LogAbove(imms[i].wal)
  <2>1. ~ Failed(v)
    <3> SUFFICES ASSUME NEW h \in 1 .. Len(imms), imms[h].wal = v, imms[h].step = "failed" PROVE FALSE
      BY DEF Failed
    <3>1. h # i
      BY <1>3
    <3>2. h < i \/ i < h
      BY <3>1
    <3>3. v < v
      BY <1>2, <3>2 DEF LogsHeld
    <3> QED  BY <1>3, <3>3
  <2>2. v \in DOMAIN wals /\ wals[v] = imms[i].recs
    BY <1>2 DEF LogsHeld, TableLogs
  <2> QED  BY <1>2, <1>6, <2>1, <2>2
<1>9. \A m \in L0Names : m = f \/ m[2] < f[2]
  BY <1>1, <1>3 DEF Writing, L0Names
<1>10. \A m \in L0Names : m[2] \in Nat /\ f[2] \in Nat
  <2>1. \A m \in L0Names : m \in {0, 1} \X Nat
    BY DEF Typed, L0Names, Names
  <2> QED  BY <1>3, <2>1
<1>11. \A a, b \in files'[f].recs : a.key = b.key => a = b
  BY <1>3, SurvivorsAre
<1>12. \A n \in L0Names : n # f => \A a \in files'[f].recs, b \in files'[n].recs : a.key = b.key => a.ver >= b.ver
  <2> SUFFICES ASSUME NEW n \in L0Names, n # f, NEW a \in files'[f].recs, NEW b \in files'[n].recs, a.key = b.key
               PROVE  a.ver >= b.ver
    OBVIOUS
  <2>1. a \in Survivors(imms[i].recs) /\ b \in files[n].recs
    BY <1>3 DEF L0Names
  <2> QED  BY <1>8, <2>1, SurvivorsAbove
<1>13. FilesOrdered'
  <2>1. L0Names' = L0Names
    BY <1>3 DEF L0Names, Names
  <2> SUFFICES ASSUME NEW m \in L0Names, NEW n \in L0Names, NEW a \in files'[m].recs, NEW b \in files'[n].recs, a.key = b.key
               PROVE  (m = n => a = b) /\ (m[2] > n[2] => a.ver >= b.ver)
    BY <2>1 DEF FilesOrdered
  <2>2. CASE m = f /\ n = f
    BY <1>10, <1>11, <2>2
  <2>3. CASE m = f /\ n # f
    BY <1>12, <2>3
  <2>4. CASE m # f /\ n = f
    <3>1. m[2] < n[2]
      BY <1>9, <2>4
    <3> QED  BY <1>10, <2>4, <3>1
  <2>5. CASE m # f /\ n # f
    <3>1. files'[m] = files[m] /\ files'[n] = files[n]
      BY <1>3, <2>5 DEF L0Names
    <3> QED  BY <1>6, <3>1 DEF FilesOrdered
  <2> QED  BY <2>2, <2>3, <2>4, <2>5
<1>14. ASSUME NEW w \in DOMAIN wals, ~ Failed(w)' PROVE LogAbove(w)'
  <2>1. LogAbove(w) /\ ~ Failed(w)
    BY <1>6, <1>7, <1>14
  <2>2. w = v \/ Before(wals[v], wals[w])
    <3>1. v \in DOMAIN wals /\ w \in Nat /\ phase # "replay"
      BY <1>4, <1>8 DEF Typed
    <3>2. w = v \/ v < w
      <4>1. CASE w = active.wal
        <5>1. v <= w
          BY <1>4, <1>8, <4>1 DEF LogsHeld
        <5> QED  BY <1>3, <3>1, <5>1
      <4>2. CASE \E j \in 1 .. Len(imms) : imms[j].wal = w
        <5>1. PICK j \in 1 .. Len(imms) : imms[j].wal = w
          BY <4>2
        <5>2. ~ (j < i)
          BY <1>3, <2>1, <5>1 DEF Failed
        <5>3. j = i \/ i < j
          BY <5>2
        <5> QED  BY <1>2, <5>1, <5>3 DEF LogsHeld
      <4> QED  BY <1>3, <1>4, <4>1, <4>2 DEF Accounted
    <3> QED  BY <3>1, <3>2 DEF LogsSorted
  <2> SUFFICES ASSUME NEW n \in L0Names, NEW b \in files'[n].recs, NEW h \in 1 .. Len(wals[w]), wals[w][h].key = b.key
               PROVE  \E j \in 1 .. Len(wals[w]) : wals[w][j].key = b.key /\ wals[w][j].ver >= b.ver
    BY <1>3 DEF LogAbove, L0Names, Names
  <2>3. CASE n # f
    <3>1. b \in files[n].recs
      BY <1>3, <2>3 DEF L0Names
    <3> QED  BY <2>1, <3>1 DEF LogAbove
  <2>4. CASE n = f
    <3>1. b \in Survivors(imms[i].recs)
      BY <1>3, <2>4
    <3>2. PICK m \in 1 .. Len(imms[i].recs) : imms[i].recs[m] = b
      BY <1>3, <3>1, SurvivorsAre
    <3>3. m \in 1 .. Len(wals[v]) /\ wals[v][m] = b
      BY <1>8, <3>2
    <3>4. b.ver \in Nat
      <4>1. wals[v] \in Seq(Ops)
        BY <1>8 DEF Typed
      <4>2. b \in Ops
        BY <3>3, <4>1, ElementOfSeq
      <4> QED  BY <4>2 DEF Ops
    <3>5. CASE w = v
      BY <3>3, <3>4, <3>5
    <3>6. CASE Before(wals[v], wals[w])
      <4>1. b.ver <= wals[w][h].ver
        BY <3>3, <3>6 DEF Before
      <4> QED  BY <4>1
    <3> QED  BY <2>2, <3>5, <3>6
  <2> QED  BY <2>3, <2>4
<1>15. Unfinished'
  <2> SUFFICES ASSUME NEW j \in 1 .. Len(imms'), imms'[j].step = "failed"
               PROVE  /\ imms'[j].name \in DOMAIN files' /\ ~ files'[imms'[j].name].whole
                      /\ \A h \in 1 .. Len(imms') : imms'[h].step # "write"
    BY DEF Unfinished, Names
  <2>1. PICK h \in 1 .. Len(imms) : h # i /\ imms'[j] = imms[h]
    BY <1>5
  <2>2. imms[h].name \in Names /\ ~ files[imms[h].name].whole /\ imms[h].name # f
    BY <1>1, <1>3, <1>6, <2>1 DEF Unfinished
  <2>3. \A g \in 1 .. Len(imms) : g # i => imms[g].step # "write"
    <3> SUFFICES ASSUME NEW g \in 1 .. Len(imms), g # i PROVE imms[g].step # "write"
      OBVIOUS
    <3>1. g < i \/ g > i
      OBVIOUS
    <3> QED  BY <1>3, <3>1
  <2>4. \A g \in 1 .. Len(imms') : imms'[g].step # "write"
    BY <1>5, <2>3, ZenonT(30)
  <2>5. files'[imms[h].name] = files[imms[h].name] /\ imms[h].name \in DOMAIN files'
    BY <1>3, <2>2 DEF Names
  <2> QED  BY <2>1, <2>2, <2>4, <2>5
<1> QED  BY <1>3, <1>4, <1>13, <1>14, <1>15 DEF FilesBelow

LEMMA MergeBelow ==
    ASSUME LifecycleAssumption, Held, Trusted, Trusted', MergeBegins \/ MergeStep, mishaps' = {}
    PROVE  FilesBelow'
<1> USE DEF Held, Sound, Stored
<1>1. UNCHANGED <<wals, imms, phase>> /\ phase = "up"
  <2>1. CASE MergeBegins
    BY <2>1 DEF MergeBegins
  <2>2. CASE MergeStep
    <3>1. UNCHANGED <<wals, imms, phase>> /\ merge.step # "none"
      BY <2>2 DEF MergeStep, MergeWrites, MergeRemoves, MergePublishes, memVars, dirVars
    <3> QED  BY <3>1 DEF Phases, NoMerge
  <2> QED  BY <2>1, <2>2
<1>2. \A w : Failed(w) => Failed(w)'
  BY <1>1 DEF Failed
<1>3. OldFiles
  <2>1. CASE MergeBegins
    <3>1. PICK f \in {1} \X Nat : /\ DOMAIN files' = DOMAIN files \cup {f}
                                  /\ \A m \in Names : files'[m] = files[m]
      BY <2>1, MergeCreates
    <3>2. f[1] # 0
      OBVIOUS
    <3> QED  BY <3>1, <3>2 DEF OldFiles, Names
  <2>2. CASE MergeWrites
    <3>1. /\ merge.out[1] = 1 /\ DOMAIN files' = DOMAIN files
          /\ \A m \in Names : m # merge.out => files'[m] = files[m]
      BY <2>2, WriteIs
    <3> QED  BY <3>1 DEF OldFiles, Names
  <2>3. CASE MergeRemoves
    <3>1. DOMAIN files' \subseteq DOMAIN files /\ \A m \in DOMAIN files' : files'[m] = files[m]
      BY <2>3, RemoveIs
    <3> QED  BY <3>1 DEF OldFiles, Names
  <2>4. CASE MergePublishes
    BY <2>4 DEF MergePublishes, dirVars, OldFiles, Names
  <2> QED  BY <2>1, <2>2, <2>3, <2>4 DEF MergeStep
<1>4. Unfinished'
  <2>1. CASE MergeBegins
    <3>1. PICK f : /\ DOMAIN files' = DOMAIN files \cup {f}
                   /\ \A m \in Names : files'[m] = files[m]
      BY <2>1, MergeCreates
    <3>2. \A m \in Names : m \in DOMAIN files' /\ files'[m] = files[m]
      BY <3>1 DEF Names
    <3>3. Unfinished
      BY DEF FilesBelow
    <3>4. \A i \in 1 .. Len(imms) : imms[i].step # "write"
      BY <2>1 DEF MergeBegins, UnderWay
    <3> QED  BY <1>1, <3>2, <3>3, <3>4 DEF Unfinished, Names
  <2>2. CASE MergeStep
    <3>1. rounds' = rounds /\ rounds # 0
      <4>1. merge.step # "none" /\ rounds' = rounds
        BY <2>2 DEF MergeStep, MergeWrites, MergeRemoves, MergePublishes, bounds
      <4> QED  BY <4>1 DEF Merging
    <3>2. merge'.step # "write"
      <4>1. CASE MergeWrites
        BY <4>1, WriteIs
      <4>2. CASE MergeRemoves
        BY <4>2, RemoveIs
      <4>3. CASE MergePublishes
        BY <4>3 DEF MergePublishes, NoMerge
      <4> QED  BY <2>2, <4>1, <4>2, <4>3 DEF MergeStep
    <3>3. "sst" \notin Faults
      BY <3>1, <3>2 DEF Trusted
    <3>4. \A i \in 1 .. Len(imms) : imms[i].step # "failed"
      BY <3>3 DEF Writing
    <3> QED  BY <1>1, <3>4 DEF Unfinished
  <2> QED  BY <2>1, <2>2
<1> QED  BY <1>1, <1>2, <1>3, <1>4, BelowStays

LEMMA CloseBelow ==
    ASSUME Held, Trusted, Close \/ DropWal
    PROVE  FilesBelow'
<1> USE DEF Held, Sound, Stored
<1>1. files' = files /\ phase \in {"up", "closing"} /\ phase' \in {"up", "closing"}
  BY DEF Close, DropWal, Running, dirVars
<1>2. DOMAIN wals' \subseteq DOMAIN wals /\ \A w \in DOMAIN wals' : wals'[w] = wals[w]
  <2>1. wals' = wals \/ \E w \in doomed : wals' = Without(wals, w)
    BY DEF Close, DropWal, dirVars
  <2> QED  BY <2>1 DEF Without
<1>3. /\ \A j \in 1 .. Len(imms) : j \in 1 .. Len(imms') /\ imms'[j] = imms[j]
      /\ \A j \in 1 .. Len(imms') : imms'[j].step # "new" => j \in 1 .. Len(imms) /\ imms'[j] = imms[j]
  <2>1. imms' = imms \/ imms' = Append(imms, Unflushed(active))
    BY DEF Close, DropWal
  <2>2. CASE imms' = Append(imms, Unflushed(active))
    <3>1. /\ Len(imms') = Len(imms) + 1 /\ Len(imms) \in Nat
          /\ \A j \in 1 .. Len(imms) : imms'[j] = imms[j]
          /\ imms'[Len(imms) + 1].step = "new"
      BY <2>2, SwitchIs
    <3> QED  BY <3>1
  <2> QED  BY <2>1, <2>2
<1>4. OldFiles
  BY <1>1 DEF OldFiles, Names
<1>5. \A w : Failed(w) => Failed(w)'
  BY <1>3 DEF Failed
<1>6. Unfinished'
  <2>1. Unfinished
    BY DEF FilesBelow
  <2> SUFFICES ASSUME NEW j \in 1 .. Len(imms'), imms'[j].step = "failed"
               PROVE  /\ imms'[j].name \in Names /\ ~ files[imms'[j].name].whole
                      /\ \A h \in 1 .. Len(imms') : imms'[h].step = "write" => imms'[h].name # imms'[j].name
    BY <1>1 DEF Unfinished, Names
  <2>2. j \in 1 .. Len(imms) /\ imms'[j] = imms[j]
    BY <1>3
  <2>3. \A h \in 1 .. Len(imms') : imms'[h].step = "write" => h \in 1 .. Len(imms) /\ imms'[h] = imms[h]
    BY <1>3
  <2> QED  BY <2>1, <2>2, <2>3 DEF Unfinished
<1> QED  BY <1>1, <1>2, <1>4, <1>5, <1>6, BelowStays

LEMMA FilesBelowKept ==
    ASSUME LifecycleAssumption, Benign, Held, [Next]_vars, mishaps' = {}
    PROVE  FilesBelow'
<1> SUFFICES ASSUME Trusted' PROVE FilesBelow'
  BY DEF FilesBelow
<1>1. Trusted
  BY TrustedBefore DEF Held
<1>2. CASE OpenThrows \/ UNCHANGED vars
  <2>1. UNCHANGED <<files, wals, imms, phase, merge, rounds>>
    BY <1>2 DEF OpenThrows, vars, dirVars, memVars, bounds
  <2> QED  BY <2>1 DEF Held, Stored, FilesBelow, FilesOrdered, LogsAbove, LogAbove, Failed, Unfinished, Trusted, L0Names, Names
<1> QED
  BY <1>1, <1>2, OpenBelow, ReplayBelow, ReplayedBelow, EndBelow, PutBelow, BeginBelow, FinishBelow, ThrowBelow, MergeBelow, CloseBelow
  DEF Next, ReplayStep, FlushStep

-----------------------------------------------------------------------------
(* All together.                                                           *)

LEMMA MishapsStay ==
    ASSUME [Next]_vars, mishaps' = {}
    PROVE  mishaps = {}
<1>1. mishaps \subseteq mishaps'
  <2>1. CASE \/ Open \/ OpenThrows \/ ReplayRecord \/ RemoveReplayedWal \/ PutOrRemove \/ DropWal \/ MergeStep \/ Close \/ UNCHANGED vars
             \/ \E i \in 1 .. Len(imms) : FlushFinishes(i) \/ FlushThrows(i)
    BY <2>1 DEF Open, OpenThrows, ReplayRecord, RemoveReplayedWal, PutOrRemove, Put, PutInNewTable, Store, DropWal,
                MergeStep, MergeWrites, MergeRemoves, MergePublishes, Close, FlushFinishes, FlushThrows, history, vars
  <2>2. CASE ReplayThrows \/ Crash \/ Exit
    BY <2>2 DEF ReplayThrows, Crash, Exit, ProcessEnds
  <2>3. ASSUME NEW i \in 1 .. Len(imms), FlushBegins(i) PROVE mishaps \subseteq mishaps'
    BY <2>3 DEF FlushBegins, CreateFile
  <2>4. CASE MergeBegins
    BY <2>4 DEF MergeBegins, CreateFile
  <2> QED  BY <2>1, <2>2, <2>3, <2>4 DEF Next, ReplayStep, FlushStep
<1> QED  BY <1>1

LEMMA StoredAtStart ==
    ASSUME Init
    PROVE  LogsHeld /\ Stored
<1> USE DEF Init
<1>1. Names = {} /\ DOMAIN wals = {} /\ imms = <<>> /\ doomed = {} /\ phase = "down" /\ merge.step = "none"
  BY DEF Names, NoMerge
<1>2. LogsHeld /\ TableLogs /\ LogsSorted /\ Replayed /\ Writing /\ Compacting
  BY <1>1 DEF LogsHeld, TableLogs, LogsSorted, Replayed, Writing, Compacting
<1>3. Versions /\ Kept
  BY <1>1 DEF Versions, Kept, NoOp
<1>4. FilesBelow
  BY <1>1 DEF FilesBelow, FilesOrdered, LogsAbove, Unfinished, L0Names
<1> QED  BY <1>2, <1>3, <1>4 DEF Stored

\* As long as no start-up had one of the two mishaps: tables and their logs hold the same,
\* the logs are in the order in which they are replayed, no log holds of a key only what is older
\* than a file, and the newest value of each key is in a whole file or in a log that stays.
THEOREM InductiveStored ==
    ASSUME Benign
    PROVE  Spec => [](Sound /\ LogsHeld /\ Preserved)
<1>1. ASSUME Init PROVE Sound /\ LogsHeld /\ Preserved
  BY <1>1, LifecycleAssumption, SoundAtStart, StoredAtStart DEF Preserved
<1>2. ASSUME Sound, LogsHeld, Preserved, [Next]_vars PROVE (Sound /\ LogsHeld /\ Preserved)'
  <2>1. Sound' /\ LogsHeld'
    BY <1>2, LifecycleAssumption, SoundKept, LogsHeldKept DEF Benign, Paced
  <2>2. ASSUME mishaps' = {} PROVE Stored'
    <3>1. Held
      BY <1>2, <2>2, MishapsStay DEF Preserved, Held
    <3>2. Versions' /\ TableLogs' /\ LogsSorted' /\ Replayed'
      BY <1>2, <2>2, <3>1, LifecycleAssumption, VersionsKept, TableLogsKept,
          LogsSortedKept, ReplayedKept DEF Held, Stored, Benign
    <3>3. Writing' /\ FilesBelow' /\ Compacting' /\ Kept'
      BY <1>2, <2>2, <3>1, LifecycleAssumption, WritingKept, FilesBelowKept,
          CompactingKept, KeptKept DEF Held, Stored, Benign
    <3> QED  BY <3>2, <3>3 DEF Stored
  <2> QED  BY <2>1, <2>2 DEF Preserved
<1> QED  BY <1>1, <1>2, PTL DEF Spec

\* Wherever the machine fails, the newest value of a key is in a whole file or in a log.
THEOREM NewestKept ==
    ASSUME Benign
    PROVE  Spec => []NothingLost
<1>1. ASSUME Preserved PROVE NothingLost
  <2> SUFFICES ASSUME mishaps = {}, NEW k \in Keys
               PROVE  \/ latest[k].del
                      \/ \E n \in Names : files[n].whole /\ latest[k] \in files[n].recs
                      \/ \E w \in DOMAIN wals : latest[k] \in Range(wals[w])
    BY DEF NothingLost
  <2> QED  BY <1>1 DEF Preserved, Stored, Kept
<1> QED  BY <1>1, InductiveStored, PTL

=============================================================================
