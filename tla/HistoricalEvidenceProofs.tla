---------------------- MODULE HistoricalEvidenceProofs ----------------------
(***************************************************************************)
(* Proofs about HistoricalEvidence, for any number of processes, commands, *)
(* bundles, windows, instruments and days.                                 *)
(*                                                                         *)
(* Evidence: a command builds all its rows, then stores them one           *)
(* transaction after the other, and may be cut off between two.  What      *)
(* makes it sound is that a study is stored only after the runs it cites   *)
(* (a foreign key), that runtime ids are given out once (Begun), and that  *)
(* what a process has yet to store is already right, next to what is       *)
(* stored and what it stores before it (InvOf).                            *)
(*                                                                         *)
(* Hindsight: two datasets that agree up to an instant give the same plan  *)
(* and the same settlement of a trade that ends by then, by the two clocks *)
(* a run is built with (HindsightFree); and whatever a command reads, from *)
(* a file or from a bundle, is a grid of whole bars (HindsightInv).        *)
(*                                                                         *)
(* Portfolio: after every event of the timeline the simulation's state is  *)
(* what the positions held and gone by then amount to (BooksStayRight).    *)
(*                                                                         *)
(* The ranking of a scan is the session's, so its lemma (Ranks) and those  *)
(* about least and greatest numbers come from ResearchSessionProofs.       *)
(***************************************************************************)
EXTENDS HistoricalEvidence, ResearchSessionProofs

------------------------------------------------------------------------------
(* Sorting by keys *)

Tuple(a, n) == DOMAIN a = 1..n /\ \A i \in 1..n : a[i] \in Int

\* The keys are tuples of whole numbers that tell the elements of a finite set
\* apart.
Keyed(key, n) ==
    /\ IsFiniteSet(DOMAIN key)
    /\ \A x \in DOMAIN key : Tuple(key[x], n)
    /\ \A x, y \in DOMAIN key : (\A i \in 1..n : key[x][i] = key[y][i]) => x = y

\* Tuples of one length are in a strict order.
LEMMA PrecedesIsStrict ==
    ASSUME NEW n \in Nat, NEW a, Tuple(a, n), NEW b, Tuple(b, n), NEW c, Tuple(c, n)
    PROVE  /\ ~Precedes(a, a)
           /\ Precedes(a, b) /\ Precedes(b, c) => Precedes(a, c)
           /\ Precedes(a, b) => ~Precedes(b, a)
           /\ Precedes(a, b) \/ Precedes(b, a) \/ \A i \in 1..n : a[i] = b[i]
<1>1. ~Precedes(a, a)
  BY DEF Precedes, Tuple
<1>2. ASSUME Precedes(a, b), Precedes(b, c)
      PROVE  Precedes(a, c)
  <2>1. PICK i \in 1..n : a[i] < b[i] /\ \A j \in 1..(i - 1) : a[j] = b[j]
    BY <1>2 DEF Precedes, Tuple
  <2>2. PICK k \in 1..n : b[k] < c[k] /\ \A j \in 1..(k - 1) : b[j] = c[j]
    BY <1>2 DEF Precedes, Tuple
  <2>3. CASE i <= k
    <3>0. a[i] \in Int /\ b[i] \in Int /\ c[i] \in Int
      BY DEF Tuple
    <3>1. a[i] < c[i]
      <4>1. CASE i = k
        BY <2>1, <2>2, <3>0, <4>1
      <4>2. CASE i < k
        <5>1. i \in 1..(k - 1)
          BY <4>2
        <5>. QED  BY <2>1, <2>2, <5>1
      <4>. QED  BY <2>3, <4>1, <4>2
    <3>2. \A j \in 1..(i - 1) : a[j] = c[j]
      BY <2>1, <2>2, <2>3 DEF Tuple
    <3>. QED  BY <3>1, <3>2 DEF Precedes, Tuple
  <2>4. CASE k < i
    <3>1. a[k] < c[k]
      BY <2>1, <2>2, <2>4 DEF Tuple
    <3>2. \A j \in 1..(k - 1) : a[j] = c[j]
      BY <2>1, <2>2, <2>4 DEF Tuple
    <3>. QED  BY <3>1, <3>2 DEF Precedes, Tuple
  <2>. QED  BY <2>3, <2>4
<1>3. ASSUME Precedes(a, b), Precedes(b, a)
      PROVE  FALSE
  <2>1. PICK i \in 1..n : a[i] < b[i] /\ \A j \in 1..(i - 1) : a[j] = b[j]
    BY <1>3 DEF Precedes, Tuple
  <2>2. PICK k \in 1..n : b[k] < a[k] /\ \A j \in 1..(k - 1) : b[j] = a[j]
    BY <1>3 DEF Precedes, Tuple
  <2>3. i = k \/ i \in 1..(k - 1) \/ k \in 1..(i - 1)
    OBVIOUS
  <2>4. a[i] \in Int /\ b[i] \in Int /\ a[k] \in Int /\ b[k] \in Int
    BY DEF Tuple
  <2>. QED  BY <2>1, <2>2, <2>3, <2>4
<1>4. ASSUME NEW m \in 1..n, a[m] # b[m]
      PROVE  Precedes(a, b) \/ Precedes(b, a)
  <2>. DEFINE D == {i \in 1..n : a[i] # b[i]}
  <2>1. D \in SUBSET Nat /\ D # {}
    BY <1>4
  <2>2. PICK i \in D : \A j \in D : i <= j
    BY <2>1, NatMin
  <2>3. \A j \in 1..(i - 1) : a[j] = b[j]
    BY <2>2
  <2>4. a[i] < b[i] \/ b[i] < a[i]
    BY <2>2 DEF Tuple
  <2>. QED  BY <2>2, <2>3, <2>4 DEF Precedes, Tuple
<1>. QED  BY <1>1, <1>2, <1>3, <1>4

\* What sorting by a key gives.
Sorts(s, key) ==
    /\ Cardinality(DOMAIN key) \in Nat
    /\ DOMAIN s = 1..Cardinality(DOMAIN key)
    /\ \A k \in DOMAIN s : s[k] \in DOMAIN key
    /\ \A x \in DOMAIN key : \E k \in DOMAIN s : s[k] = x
    /\ \A j, k \in DOMAIN s : j < k <=> Precedes(key[s[j]], key[s[k]])
    /\ \A j, k \in DOMAIN s : s[j] = s[k] => j = k

Below(key, x) == {y \in DOMAIN key : Precedes(key[y], key[x])}

\* An element that precedes another has fewer elements below it.
LEMMA FewerBelow ==
    ASSUME NEW key, NEW n \in Nat, Keyed(key, n), NEW x \in DOMAIN key, NEW y \in DOMAIN key,
           Precedes(key[x], key[y])
    PROVE  Cardinality(Below(key, x)) < Cardinality(Below(key, y))
<1>1. \A z \in DOMAIN key : Tuple(key[z], n)
  BY DEF Keyed
<1>2. Below(key, x) \subseteq Below(key, y)
  <2>1. SUFFICES ASSUME NEW z \in DOMAIN key, Precedes(key[z], key[x])
                 PROVE  Precedes(key[z], key[y])
    BY DEF Below
  <2>2. Tuple(key[x], n) /\ Tuple(key[y], n) /\ Tuple(key[z], n)
    BY <1>1
  <2>. QED  BY <2>1, <2>2, PrecedesIsStrict
<1>3. x \in Below(key, y) /\ x \notin Below(key, x)
  BY <1>1, PrecedesIsStrict DEF Below
<1>4. IsFiniteSet(DOMAIN key) /\ Below(key, y) \in SUBSET DOMAIN key
  BY DEF Keyed, Below
<1>5. IsFiniteSet(Below(key, y)) /\ Cardinality(Below(key, y)) \in Nat
  BY <1>4, FS_Subset, FS_CardinalityType
<1>6. /\ Cardinality(Below(key, x)) <= Cardinality(Below(key, y))
      /\ Cardinality(Below(key, y)) = Cardinality(Below(key, x)) => Below(key, y) = Below(key, x)
      /\ Cardinality(Below(key, x)) \in Nat
  BY <1>2, <1>5, FS_Subset, FS_CardinalityType
<1>. QED  BY <1>3, <1>5, <1>6

\* InOrder() lists the elements in the order of their keys, each once.
LEMMA SortedByKey ==
    ASSUME NEW key, NEW n \in Nat, Keyed(key, n)
    PROVE  Sorts(InOrder(key), key)
<1>. DEFINE S == DOMAIN key
            N == Cardinality(S)
            s == InOrder(key)
            rank == [x \in S |-> Cardinality(Below(key, x))]
<1>1. IsFiniteSet(S) /\ N \in Nat
  BY FS_CardinalityType DEF Keyed
<1>2. ASSUME NEW x \in S, NEW y \in S
      PROVE  /\ x = y \/ Precedes(key[x], key[y]) \/ Precedes(key[y], key[x])
             /\ Precedes(key[x], key[y]) => rank[x] < rank[y]
  <2>1. Tuple(key[x], n) /\ Tuple(key[y], n)
    BY DEF Keyed
  <2>2. x = y \/ Precedes(key[x], key[y]) \/ Precedes(key[y], key[x])
    BY <2>1, PrecedesIsStrict DEF Keyed
  <2>3. Precedes(key[x], key[y]) => Cardinality(Below(key, x)) < Cardinality(Below(key, y))
    BY FewerBelow
  <2>. QED  BY <2>2, <2>3
<1>3. ASSUME NEW x \in S  PROVE rank[x] \in 0..(N - 1)
  <2>1. Below(key, x) \in SUBSET (S \ {x})
    BY PrecedesIsStrict DEF Below, Keyed
  <2>2. IsFiniteSet(S \ {x}) /\ Cardinality(S \ {x}) = N - 1
    BY <1>1, FS_RemoveElement
  <2>3. IsFiniteSet(Below(key, x)) /\ Cardinality(Below(key, x)) <= N - 1
    BY <2>1, <2>2, FS_Subset
  <2>4. Cardinality(Below(key, x)) \in Nat
    BY <2>3, FS_CardinalityType
  <2>. QED  BY <1>1, <2>3, <2>4
<1>4. ASSUME NEW x \in S, NEW y \in S, rank[x] = rank[y]  PROVE x = y
  BY <1>2, <1>3, <1>4
<1>5. rank \in Injection(S, 0..(N - 1))
  <2>1. rank \in [S -> 0..(N - 1)] /\ DOMAIN rank = S
    <3>1. \A x \in S : rank[x] \in 0..(N - 1)
      BY <1>3
    <3>2. rank = [x \in S |-> rank[x]]
      OBVIOUS
    <3>. HIDE DEF rank
    <3>. QED  BY <3>1, <3>2
  <2>2. \A x, y \in S : rank[x] = rank[y] => x = y
    BY <1>4
  <2>. HIDE DEF rank
  <2>. QED  BY <2>1, <2>2 DEF Injection, IsInjective
<1>6. IsFiniteSet(0..(N - 1)) /\ Cardinality(0..(N - 1)) = N
  <2>1. ASSUME NEW m \in Nat
        PROVE  IsFiniteSet(0..(m - 1)) /\ Cardinality(0..(m - 1)) = m
    <3>1. m - 1 \in Int /\ 0 \in Int
      OBVIOUS
    <3>2. /\ IsFiniteSet(0..(m - 1))
          /\ Cardinality(0..(m - 1)) = IF 0 > m - 1 THEN 0 ELSE (m - 1) - 0 + 1
      BY <3>1, FS_Interval
    <3>. QED  BY <3>2
  <2>. QED  BY <1>1, <2>1
<1>7. rank \in Surjection(S, 0..(N - 1))
  <2>1. ASSUME NEW T, NEW f \in Injection(S, T), IsFiniteSet(T), Cardinality(T) = N
        PROVE  f \in Surjection(S, T)
    BY <2>1, FS_Injection
  <2>. HIDE DEF rank
  <2>. QED  BY <1>5, <1>6, <2>1
<1>8. s = [k \in 1..N |-> CHOOSE x \in S : rank[x] = k - 1]
  <2>1. \A k \in 1..N : (CHOOSE x \in S : rank[x] = k - 1)
                           = CHOOSE x \in S : Cardinality(Below(key, x)) = k - 1
    OBVIOUS
  <2>2. s = [k \in 1..N |-> CHOOSE x \in S : Cardinality(Below(key, x)) = k - 1]
    BY DEF InOrder, Below
  <2>. HIDE DEF s, rank
  <2>. QED  BY <2>1, <2>2
<1>. HIDE DEF s, rank
<1>9. ASSUME NEW k \in 1..N  PROVE s[k] \in S /\ rank[s[k]] = k - 1
  <2>1. k - 1 \in 0..(N - 1)
    BY <1>1
  <2>2. \E x \in S : rank[x] = k - 1
    BY <1>7, <2>1 DEF Surjection
  <2>3. s[k] = CHOOSE x \in S : rank[x] = k - 1
    BY <1>8
  <2>. QED  BY <2>2, <2>3
<1>10. ASSUME NEW x \in S  PROVE \E k \in 1..N : s[k] = x
  <2>1. rank[x] + 1 \in 1..N
    BY <1>1, <1>3
  <2>2. rank[s[rank[x] + 1]] = rank[x] /\ s[rank[x] + 1] \in S
    BY <1>3, <1>9, <2>1
  <2>3. s[rank[x] + 1] = x
    BY <1>4, <2>2
  <2>. QED  BY <2>1, <2>3
<1>11. ASSUME NEW j \in 1..N, NEW k \in 1..N
       PROVE  /\ j < k <=> Precedes(key[s[j]], key[s[k]])
              /\ s[j] = s[k] => j = k
  <2>1. s[j] \in S /\ s[k] \in S /\ rank[s[j]] = j - 1 /\ rank[s[k]] = k - 1
    BY <1>9
  <2>2. s[j] = s[k] \/ Precedes(key[s[j]], key[s[k]]) \/ Precedes(key[s[k]], key[s[j]])
    BY <1>2, <2>1
  <2>3. /\ Precedes(key[s[j]], key[s[k]]) => j - 1 < k - 1
        /\ Precedes(key[s[k]], key[s[j]]) => k - 1 < j - 1
    <3>1. /\ Precedes(key[s[j]], key[s[k]]) => rank[s[j]] < rank[s[k]]
          /\ Precedes(key[s[k]], key[s[j]]) => rank[s[k]] < rank[s[j]]
      BY <1>2, <2>1
    <3>. QED  BY <2>1, <3>1
  <2>4. s[j] = s[k] => j - 1 = k - 1
    BY <2>1
  <2>. QED  BY <2>2, <2>3, <2>4
<1>12. DOMAIN s = 1..N
  BY <1>8
<1>13. Sorts(s, key)
  BY <1>1, <1>9, <1>10, <1>11, <1>12 DEF Sorts
<1>. QED  BY <1>13 DEF s

------------------------------------------------------------------------------
(* Datasets and trades *)

\* A dataset whose series are on one grid of days.
Grid(dataset) == HistoricalDataset(dataset) /\ DatasetType(dataset)

\* Two lists with the same places have the same length.
LEMMA SameLength ==
    ASSUME NEW m \in Nat, NEW n \in Nat, 1..m = 1..n
    PROVE  m = n
<1>1. m > 0 => m \in 1..n
  OBVIOUS
<1>2. n > 0 => n \in 1..m
  OBVIOUS
<1>. QED  BY <1>1, <1>2

\* In a dataset every symbol has the same days.
LEMMA GridSays ==
    ASSUME NEW ds, Grid(ds), NEW u \in DOMAIN ds
    PROVE  /\ bars_per_instrument(ds) \in Nat
           /\ ds[u] \in Seq(BarType)
           /\ Len(ds[u]) = bars_per_instrument(ds)
           /\ DOMAIN ds[u] = 1..bars_per_instrument(ds)
           /\ \A i \in DOMAIN ds[u] : ds[u][i] \in BarType /\ ds[u][i].day \in Nat
           /\ \A v \in DOMAIN ds : \A i \in DOMAIN ds[u] : ds[v][i].day = ds[u][i].day
<1>1. PICK w : w = CHOOSE x \in DOMAIN ds : TRUE
  OBVIOUS
<1>2. w \in DOMAIN ds
  BY <1>1
<1>3. \A x \in DOMAIN ds : ds[x] \in Seq(BarType)
  BY DEF Grid, DatasetType
<1>4. \A x \in DOMAIN ds : DOMAIN ds[x] = DOMAIN ds[u] /\ \A i \in DOMAIN ds[u] : ds[x][i].day = ds[u][i].day
  <2>1. SUFFICES ASSUME NEW x \in DOMAIN ds
                 PROVE  DOMAIN ds[x] = DOMAIN ds[u] /\ \A i \in DOMAIN ds[u] : ds[x][i].day = ds[u][i].day
    OBVIOUS
  <2>2. PICK f, g : f = [i \in DOMAIN ds[x] |-> ds[x][i].day] /\ g = [i \in DOMAIN ds[u] |-> ds[u][i].day]
    OBVIOUS
  <2>3. f = g
    BY <2>2 DEF Grid, HistoricalDataset
  <2>4. DOMAIN f = DOMAIN ds[x] /\ DOMAIN g = DOMAIN ds[u]
    BY <2>2
  <2>. QED  BY <2>2, <2>3, <2>4
<1>5. bars_per_instrument(ds) = Len(ds[w]) /\ Len(ds[w]) \in Nat
  BY <1>1, <1>2, <1>3 DEF bars_per_instrument
<1>6. Len(ds[u]) = Len(ds[w])
  <2>1. DOMAIN ds[w] = DOMAIN ds[u] /\ DOMAIN ds[w] = 1..Len(ds[w]) /\ DOMAIN ds[u] = 1..Len(ds[u])
    BY <1>2, <1>3, <1>4
  <2>2. Len(ds[w]) \in Nat /\ Len(ds[u]) \in Nat
    BY <1>2, <1>3
  <2>. QED  BY <2>1, <2>2, SameLength
<1>7. ASSUME NEW i \in DOMAIN ds[u]  PROVE ds[u][i] \in BarType /\ ds[u][i].day \in Nat
  <2>1. ds[u][i] \in BarType
    BY <1>3
  <2>. QED  BY <2>1 DEF BarType
<1>8. DOMAIN ds[u] = 1..Len(ds[u])
  BY <1>3
<1>. QED  BY <1>3, <1>4, <1>5, <1>6, <1>7, <1>8

\* Days only go forward.
LEMMA DaysIncrease ==
    ASSUME NEW ds, Grid(ds), NEW u \in DOMAIN ds, NEW i \in DOMAIN ds[u], NEW j \in DOMAIN ds[u], i < j
    PROVE  ds[u][i].day < ds[u][j].day
<1>. DEFINE n == bars_per_instrument(ds)
            B == {k \in Nat : k \in DOMAIN ds[u] /\ i < k /\ ~(ds[u][i].day < ds[u][k].day)}
<1>1. n \in Nat /\ DOMAIN ds[u] = 1..n /\ \A k \in DOMAIN ds[u] : ds[u][k].day \in Nat
  BY GridSays
<1>2. \A k \in 2..n : ds[u][k - 1].day < ds[u][k].day
  BY GridSays DEF Grid, HistoricalDataset
<1>. HIDE DEF n
<1>3. SUFFICES ASSUME B # {} PROVE FALSE
  BY <1>1
<1>4. PICK k \in B : \A m \in B : k <= m
  BY <1>3, NatMin
<1>5. k \in 2..n /\ k - 1 \in DOMAIN ds[u] /\ k \in DOMAIN ds[u] /\ i <= k - 1 /\ k - 1 \in Nat /\ i < k
  BY <1>1, <1>4
<1>6. ds[u][i].day <= ds[u][k - 1].day
  <2>1. CASE i = k - 1
    BY <1>1, <1>5, <2>1
  <2>2. CASE i < k - 1
    <3>1. k - 1 \notin B
      BY <1>4, <1>5
    <3>2. ds[u][i].day < ds[u][k - 1].day
      BY <1>5, <2>2, <3>1
    <3>. QED  BY <1>1, <1>5, <3>2
  <2>. QED  BY <1>1, <1>5, <2>1, <2>2
<1>7. ds[u][k - 1].day < ds[u][k].day
  BY <1>2, <1>5
<1>8. ds[u][i].day < ds[u][k].day
  BY <1>1, <1>5, <1>6, <1>7
<1>. QED  BY <1>4, <1>8

\* The symbols of a dataset in order.
LEMMA AlphabeticalSays ==
    ASSUME NEW S \in SUBSET Nat, IsFiniteSet(S)
    PROVE  /\ Cardinality(S) \in Nat
           /\ DOMAIN Alphabetical(S) = 1..Cardinality(S)
           /\ \A k \in DOMAIN Alphabetical(S) : Alphabetical(S)[k] \in S
           /\ \A u \in S : \E k \in DOMAIN Alphabetical(S) : Alphabetical(S)[k] = u
           /\ \A j, k \in DOMAIN Alphabetical(S) : Alphabetical(S)[j] = Alphabetical(S)[k] => j = k
<1>. DEFINE key == [u \in S |-> <<u>>]
<1>1. DOMAIN key = S
  OBVIOUS
<1>2. Keyed(key, 1)
  <2>1. \A u \in S : DOMAIN key[u] = 1..1 /\ key[u][1] = u /\ u \in Int
    OBVIOUS
  <2>2. \A i \in 1..1 : i = 1
    OBVIOUS
  <2>3. 1 \in 1..1
    OBVIOUS
  <2>. HIDE DEF key
  <2>4. \A u \in S : Tuple(key[u], 1)
    BY <2>1, <2>2 DEF Tuple
  <2>5. \A u, v \in S : (\A i \in 1..1 : key[u][i] = key[v][i]) => u = v
    BY <2>1, <2>3
  <2>. QED  BY <1>1, <2>4, <2>5 DEF Keyed
<1>3. Sorts(InOrder(key), key)
  BY <1>2, SortedByKey
<1>4. Alphabetical(S) = InOrder(key)
  BY DEF Alphabetical
<1>. HIDE DEF key
<1>. QED  BY <1>1, <1>3, <1>4 DEF Sorts

\* The entries of a scan are those of the symbols, in order.
LEMMA ScanSays ==
    ASSUME NEW ds, Grid(ds), NEW c, NEW scan, scan = ScanAt(ds, c)
    PROVE  /\ Cardinality(DOMAIN ds) \in Nat
           /\ DOMAIN scan = 1..Cardinality(DOMAIN ds)
           /\ \A i \in DOMAIN scan : /\ scan[i].symbol \in DOMAIN ds
                                     /\ scan[i].rank \in Nat
                                     /\ scan[i].outcome = evaluate(WindowAt(ds[scan[i].symbol], c))
                                     /\ scan[i].rank # 0 => scan[i].outcome.long
<1>. DEFINE symbols == Alphabetical(DOMAIN ds)
            universe == UniverseAt(ds, symbols, c)
<1>1. /\ Cardinality(DOMAIN ds) \in Nat
      /\ DOMAIN symbols = 1..Cardinality(DOMAIN ds)
      /\ \A i \in DOMAIN symbols : symbols[i] \in DOMAIN ds
  BY AlphabeticalSays DEF Grid, DatasetType
<1>. HIDE DEF symbols
<1>2. /\ DOMAIN universe = DOMAIN symbols
      /\ \A i \in DOMAIN symbols : universe[i] = [symbol |-> symbols[i], candidate |-> i,
                                                  outcome |-> evaluate(WindowAt(ds[symbols[i]], c))]
  BY DEF UniverseAt
<1>. HIDE DEF universe
<1>3. scan = build_scan(universe)
  BY DEF ScanAt, universe, symbols
<1>4. DOMAIN scan = DOMAIN universe
  BY <1>3 DEF build_scan
<1>5. ASSUME NEW i \in DOMAIN universe
      PROVE  /\ scan[i].symbol = universe[i].symbol
             /\ scan[i].outcome = universe[i].outcome
             /\ scan[i].rank \in 0..(Cardinality(DOMAIN ds) + 1)
             /\ scan[i].rank = 0 <=> ~universe[i].outcome.long
  BY <1>1, <1>2, <1>3, Ranks
<1>6. ASSUME NEW i \in DOMAIN universe
      PROVE  universe[i].symbol = symbols[i] /\ universe[i].outcome = evaluate(WindowAt(ds[symbols[i]], c))
  BY <1>2
<1>. QED  BY <1>1, <1>2, <1>4, <1>5, <1>6

\* The trades of a run are those of its cutoffs.
LEMMA TradesSay ==
    ASSUME NEW ds, Grid(ds), NEW trades, trades = TradesOf(ds)
    PROVE  /\ \E n \in Nat : DOMAIN trades = 1..n
           /\ \A k \in DOMAIN trades : \E c \in evaluated_cutoffs(ds) : trades[k] \in TradesAt(ds, c)
           /\ \A c \in evaluated_cutoffs(ds) : \A t \in TradesAt(ds, c) :
                 \E k \in DOMAIN trades : trades[k] = t
<1>. DEFINE cutoffs == evaluated_cutoffs(ds)
            scan == [c \in cutoffs |-> ScanAt(ds, c)]
            chances == UNION {{<<c, i>> : i \in Approved(scan[c])} : c \in DOMAIN scan}
            key == [o \in chances |-> <<o[1], scan[o[1]][o[2]].rank, o[2]>>]
            order == InOrder(key)
            n == Cardinality(DOMAIN ds)
<1>1. trades = [k \in DOMAIN order |-> TradeOf(ds, scan[order[k][1]], order[k][1], order[k][2])]
  BY DEF TradesOf
<1>2. IsFiniteSet(cutoffs) /\ cutoffs \subseteq Int
  <2>1. bars_per_instrument(ds) \in Nat
    <3>1. PICK u \in DOMAIN ds : TRUE
      BY DEF Grid, HistoricalDataset
    <3>. QED  BY <3>1, GridSays
  <2>2. ReferenceWindow + 1 \in Int /\ bars_per_instrument(ds) - Horizon \in Int
    BY <2>1, ChainAssumption, HorizonAssumption
  <2>. QED  BY <2>2, FS_Interval DEF evaluated_cutoffs
<1>. HIDE DEF cutoffs
<1>3. /\ DOMAIN scan = cutoffs /\ n \in Nat
      /\ \A c \in cutoffs : /\ scan[c] = ScanAt(ds, c)
                            /\ DOMAIN scan[c] = 1..n
                            /\ \A i \in DOMAIN scan[c] : scan[c][i].rank \in Nat
  <2>1. n \in Nat
    BY ScanSays
  <2>2. ASSUME NEW c \in cutoffs
        PROVE  /\ scan[c] = ScanAt(ds, c) /\ DOMAIN scan[c] = 1..n
               /\ \A i \in DOMAIN scan[c] : scan[c][i].rank \in Nat
    <3>1. scan[c] = ScanAt(ds, c)
      OBVIOUS
    <3>. HIDE DEF scan
    <3>. QED  BY <3>1, ScanSays
  <2>. QED  BY <2>1, <2>2
<1>. HIDE DEF n, scan
<1>4. \A o : o \in chances <=> \E c \in cutoffs : \E i \in Approved(scan[c]) : o = <<c, i>>
  BY <1>3
<1>5. \A c \in cutoffs : Approved(scan[c]) \subseteq 1..n
  BY <1>3 DEF Approved
<1>6. IsFiniteSet(chances)
  <2>1. IsFiniteSet(1..n)
    BY <1>3, FS_Interval
  <2>2. IsFiniteSet(cutoffs \X (1..n))
    BY <1>2, <2>1, FS_Product
  <2>3. chances \in SUBSET (cutoffs \X (1..n))
    BY <1>4, <1>5
  <2>. QED  BY <2>2, <2>3, FS_Subset
<1>. HIDE DEF chances
<1>7. Keyed(key, 3)
  <2>1. DOMAIN key = chances
    OBVIOUS
  <2>2. ASSUME NEW o \in chances
        PROVE  /\ Tuple(key[o], 3)
               /\ key[o][1] = o[1] /\ key[o][3] = o[2]
               /\ o = <<o[1], o[2]>>
    <3>0. PICK c \in cutoffs : \E i \in Approved(scan[c]) : o = <<c, i>>
      BY <1>4
    <3>1. PICK i \in Approved(scan[c]) : o = <<c, i>>
      BY <3>0
    <3>2. i \in 1..n /\ i \in DOMAIN scan[c] /\ c \in Int
      BY <1>2, <1>3, <1>5
    <3>3. scan[c][i].rank \in Nat
      BY <1>3, <3>2
    <3>4. key[o] = <<c, scan[c][i].rank, i>>
      BY <3>1
    <3>. HIDE DEF key
    <3>5. Tuple(<<c, scan[c][i].rank, i>>, 3)
      BY <3>2, <3>3 DEF Tuple
    <3>. QED  BY <3>1, <3>4, <3>5
  <2>. HIDE DEF key
  <2>3. \A o, q \in chances : (\A i \in 1..3 : key[o][i] = key[q][i]) => o = q
    <3>1. SUFFICES ASSUME NEW o \in chances, NEW q \in chances, \A i \in 1..3 : key[o][i] = key[q][i]
                   PROVE  o = q
      OBVIOUS
    <3>2. key[o][1] = key[q][1] /\ key[o][3] = key[q][3]
      BY <3>1
    <3>. QED  BY <2>2, <3>2
  <2>. QED  BY <1>6, <2>1, <2>2, <2>3 DEF Keyed
<1>8. Sorts(order, key) /\ DOMAIN key = chances
  <2>1. DOMAIN key = chances
    OBVIOUS
  <2>. HIDE DEF key
  <2>. QED  BY <1>7, <2>1, SortedByKey
<1>. HIDE DEF key, order
<1>9. \E m \in Nat : DOMAIN trades = 1..m
  BY <1>1, <1>8 DEF Sorts
<1>10. ASSUME NEW k \in DOMAIN trades
       PROVE  \E c \in cutoffs : trades[k] \in TradesAt(ds, c)
  <2>1. k \in DOMAIN order /\ order[k] \in chances
    BY <1>1, <1>8 DEF Sorts
  <2>9. PICK c \in cutoffs : \E i \in Approved(scan[c]) : order[k] = <<c, i>>
    BY <1>4, <2>1
  <2>2. PICK i \in Approved(scan[c]) : order[k] = <<c, i>>
    BY <2>9
  <2>3. trades[k] = TradeOf(ds, scan[c], c, i)
    BY <1>1, <2>1, <2>2
  <2>. QED  BY <1>3, <2>3 DEF TradesAt
<1>11. ASSUME NEW c \in cutoffs, NEW t \in TradesAt(ds, c)
       PROVE  \E k \in DOMAIN trades : trades[k] = t
  <2>1. PICK i \in Approved(scan[c]) : t = TradeOf(ds, scan[c], c, i)
    BY <1>3 DEF TradesAt
  <2>2. <<c, i>> \in chances
    BY <1>4
  <2>3. PICK k \in DOMAIN order : order[k] = <<c, i>>
    BY <1>8, <2>2 DEF Sorts
  <2>4. trades[k] = t /\ k \in DOMAIN trades
    BY <1>1, <2>1, <2>3
  <2>. QED  BY <2>4
<1>. QED  BY <1>9, <1>10, <1>11 DEF cutoffs

------------------------------------------------------------------------------
(* What a trade says *)

\* A slice of a sequence.
LEMMA SliceOf ==
    ASSUME NEW s, NEW T, s \in Seq(T), NEW m \in Nat, NEW n \in Nat, 1 <= m, m <= n + 1, n <= Len(s)
    PROVE  /\ SubSeq(s, m, n) \in Seq(T)
           /\ Len(SubSeq(s, m, n)) = n - m + 1
           /\ DOMAIN SubSeq(s, m, n) = 1..(n - m + 1)
           /\ \A i \in 1..(n - m + 1) : SubSeq(s, m, n)[i] = s[m + i - 1] /\ m + i - 1 \in DOMAIN s
  OBVIOUS

\* The bars of the holding horizon have a first one to leave in.
LEMMA ExitBarExists ==
    ASSUME NEW plan, NEW bars
    PROVE  /\ ExitBar(plan, bars) \in 1..Horizon
           /\ \/ Stopped(plan, bars[ExitBar(plan, bars)])
              \/ Targeted(plan, bars[ExitBar(plan, bars)])
              \/ ExitBar(plan, bars) = Horizon
           /\ \A j \in 1..(ExitBar(plan, bars) - 1) : ~Stopped(plan, bars[j]) /\ ~Targeted(plan, bars[j])
<1>. DEFINE Leaves(i) == Stopped(plan, bars[i]) \/ Targeted(plan, bars[i]) \/ i = Horizon
            D == {i \in 1..Horizon : Leaves(i)}
            First(i) == /\ Stopped(plan, bars[i]) \/ Targeted(plan, bars[i]) \/ i = Horizon
                        /\ \A j \in 1..(i - 1) : ~Stopped(plan, bars[j]) /\ ~Targeted(plan, bars[j])
<1>1. Horizon \in Nat /\ Horizon >= 1
  BY HorizonAssumption
<1>2. Horizon \in D /\ D \in SUBSET Nat
  BY <1>1
<1>3. PICK i \in D : \A j \in D : i <= j
  <2>. HIDE DEF D
  <2>. QED  BY <1>2, NatMin
<1>4. i \in 1..Horizon /\ First(i)
  <2>1. i \in 1..Horizon /\ Leaves(i)
    BY <1>3
  <2>2. ASSUME NEW j \in 1..(i - 1)  PROVE ~Stopped(plan, bars[j]) /\ ~Targeted(plan, bars[j])
    <3>1. j \in 1..Horizon /\ ~(i <= j)
      BY <1>1, <2>1
    <3>. QED  BY <1>3, <3>1
  <2>. QED  BY <2>1, <2>2
<1>5. ExitBar(plan, bars) = CHOOSE k \in 1..Horizon : First(k)
  BY DEF ExitBar
<1>6. ExitBar(plan, bars) \in 1..Horizon /\ First(ExitBar(plan, bars))
  <2>. HIDE DEF First
  <2>. QED  BY <1>4, <1>5
<1>. QED  BY <1>6

\* A trade leaves on the bar's day, at the stop, the target or the close.
LEMMA ExitSays ==
    ASSUME NEW plan, NEW bar
    PROVE  /\ ExitAt(plan, bar).day = bar.day
           /\ ExitAt(plan, bar).outcome # "NO_ENTRY"
           /\ ExitAt(plan, bar).price \in {Stop(plan), Target(plan), 100 * bar.close}
  BY DEF ExitAt

\* What a trade planned at bar c of a dataset says of itself.
TradeFits(ds, c, t) ==
    /\ t.symbol \in DOMAIN ds
    /\ t.cutoff = ds[t.symbol][c].day
    /\ \/ t.outcome = "NO_ENTRY" /\ t.entry = 0 /\ t.exit = 0 /\ t.net = 0
       \/ /\ t.outcome # "NO_ENTRY"
          /\ t.entry = ds[t.symbol][c + 1].day
          /\ \E e \in (c + 1)..(c + Horizon) : t.exit = ds[t.symbol][e].day

\* A cutoff has its history before it and its holding period after it.
LEMMA Cutoffs ==
    ASSUME NEW ds, Grid(ds), NEW c \in evaluated_cutoffs(ds)
    PROVE  /\ c \in Nat /\ c >= ReferenceWindow + 1 /\ c + Horizon <= bars_per_instrument(ds)
           /\ bars_per_instrument(ds) \in Nat
           /\ \A u \in DOMAIN ds : c \in DOMAIN ds[u] /\ c + 1 \in DOMAIN ds[u]
           /\ \A u \in DOMAIN ds : \A e \in (c + 1)..(c + Horizon) : e \in DOMAIN ds[u]
<1>1. PICK u \in DOMAIN ds : TRUE
  BY DEF Grid, HistoricalDataset
<1>2. bars_per_instrument(ds) \in Nat /\ \A v \in DOMAIN ds : DOMAIN ds[v] = 1..bars_per_instrument(ds)
  BY <1>1, GridSays
<1>3. c \in (ReferenceWindow + 1)..(bars_per_instrument(ds) - Horizon)
  BY DEF evaluated_cutoffs
<1>. QED  BY <1>2, <1>3, ChainAssumption, HorizonAssumption

\* The bars after the cutoff.
LEMMA BarsAfter ==
    ASSUME NEW ds, Grid(ds), NEW c \in evaluated_cutoffs(ds), NEW u \in DOMAIN ds
    PROVE  \A i \in 1..Horizon : SubSeq(ds[u], c + 1, c + Horizon)[i] = ds[u][c + i]
<1>1. /\ c \in Nat /\ c + Horizon <= Len(ds[u]) /\ ds[u] \in Seq(BarType)
      /\ Horizon \in Nat /\ Horizon >= 1
  BY Cutoffs, GridSays, HorizonAssumption
<1>2. c + 1 \in Nat /\ c + Horizon \in Nat /\ 1 <= c + 1 /\ c + 1 <= c + Horizon + 1 /\ c + Horizon - (c + 1) + 1 = Horizon
  BY <1>1
<1>3. \A i \in 1..(c + Horizon - (c + 1) + 1) : SubSeq(ds[u], c + 1, c + Horizon)[i] = ds[u][c + 1 + i - 1]
  BY <1>1, <1>2, SliceOf
<1>4. ASSUME NEW i \in 1..Horizon  PROVE SubSeq(ds[u], c + 1, c + Horizon)[i] = ds[u][c + i]
  <2>1. i \in 1..(c + Horizon - (c + 1) + 1) /\ c + 1 + i - 1 = c + i
    BY <1>1
  <2>. QED  BY <1>3, <2>1
<1>. QED  BY <1>4

\* A trade of a run enters on the bar after its cutoff and leaves within the
\* holding period.
LEMMA TradeSays ==
    ASSUME NEW ds, Grid(ds), NEW c \in evaluated_cutoffs(ds), NEW t \in TradesAt(ds, c)
    PROVE  TradeFits(ds, c, t)
<1>1. PICK scan : scan = ScanAt(ds, c)
  OBVIOUS
<1>2. PICK i \in Approved(scan) : t = TradeOf(ds, scan, c, i)
  BY <1>1 DEF TradesAt
<1>3. PICK order : order = OrderOf(scan, i)
  OBVIOUS
<1>4. PICK u : u = order.symbol
  OBVIOUS
<1>5. u \in DOMAIN ds
  <2>1. i \in DOMAIN scan
    BY DEF Approved
  <2>2. order.symbol = scan[i].symbol
    BY <1>3 DEF OrderOf, OrderFor
  <2>. QED  BY <1>1, <1>4, <2>1, <2>2, ScanSays
<1>6. PICK bars : bars = SubSeq(ds[u], c + 1, c + Horizon)
  OBVIOUS
<1>7. \A k \in 1..Horizon : bars[k] = ds[u][c + k]
  <2>1. \A k \in 1..Horizon : SubSeq(ds[u], c + 1, c + Horizon)[k] = ds[u][c + k]
    BY <1>5, BarsAfter
  <2>. QED  BY <1>6, <2>1
<1>8. t = _simulate_trade(order, ds[u][c].day, bars)
  BY <1>2, <1>3, <1>4, <1>6 DEF TradeOf, Simulated
<1>9. PICK exit : exit = ExitOf(order.plan, bars)
  OBVIOUS
<1>10. PICK outcome : /\ t = HistoricalBacktestTrade(order, ds[u][c].day, outcome)
                      /\ outcome = NoEntry \/ outcome = Settled(order.position.quantity, bars[1].day, 100 * bars[1].open, exit)
  <2>1. t = HistoricalBacktestTrade(order, ds[u][c].day,
                IF 100 * bars[1].open <= Stop(order.plan) \/ 100 * bars[1].open >= Target(order.plan) THEN NoEntry
                ELSE Settled(order.position.quantity, bars[1].day, 100 * bars[1].open, exit))
    BY <1>8, <1>9 DEF _simulate_trade
  <2>. QED  BY <2>1
<1>11. /\ t.symbol = u /\ t.cutoff = ds[u][c].day /\ t.outcome = outcome.outcome
       /\ t.entry = outcome.entry /\ t.exit = outcome.exit /\ t.net = outcome.net
  BY <1>4, <1>10 DEF HistoricalBacktestTrade
<1>12. CASE outcome = NoEntry
  BY <1>5, <1>11, <1>12 DEF NoEntry, TradeFits
<1>13. CASE outcome = Settled(order.position.quantity, bars[1].day, 100 * bars[1].open, exit)
  <2>1. outcome.outcome = exit.outcome /\ outcome.entry = bars[1].day /\ outcome.exit = exit.day
    BY <1>13 DEF Settled
  <2>2. PICK e : e = ExitBar(order.plan, bars)
    OBVIOUS
  <2>3. e \in 1..Horizon
    BY <2>2, ExitBarExists
  <2>4. exit = ExitAt(order.plan, bars[e])
    BY <1>9, <2>2 DEF ExitOf
  <2>5. exit.day = bars[e].day /\ exit.outcome # "NO_ENTRY"
    BY <2>4, ExitSays
  <2>6. bars[e].day = ds[u][c + e].day /\ bars[1].day = ds[u][c + 1].day
    BY <1>7, <2>3, HorizonAssumption
  <2>7. c + e \in (c + 1)..(c + Horizon)
    BY <2>3, Cutoffs, HorizonAssumption
  <2>. QED  BY <1>5, <1>11, <2>1, <2>5, <2>6, <2>7 DEF TradeFits
<1>. QED  BY <1>10, <1>12, <1>13

------------------------------------------------------------------------------
(* What a trade is worth *)

\* A set of sets has a smallest one.
LEMMA SmallestSet ==
    ASSUME NEW D, D # {}, \A S \in D : IsFiniteSet(S)
    PROVE  \E S \in D : \A T \in D : Cardinality(S) <= Cardinality(T)
<1>. DEFINE N == {Cardinality(S) : S \in D}
<1>1. N \in SUBSET Nat /\ N # {}
  BY FS_CardinalityType
<1>. HIDE DEF N
<1>2. PICK n \in N : \A m \in N : n <= m
  BY <1>1, NatMin
<1>. QED  BY <1>2 DEF N

\* A proper part of a finite set has fewer elements.
LEMMA SmallerPart ==
    ASSUME NEW T, IsFiniteSet(T), NEW U \in SUBSET T, U # T
    PROVE  IsFiniteSet(U) /\ Cardinality(U) \in Nat /\ Cardinality(T) \in Nat /\ Cardinality(U) < Cardinality(T)
  BY FS_Subset, FS_CardinalityType

\* Finitely many numbers have a bound, and the greatest of them is one.
LEMMA Greatest ==
    ASSUME NEW S \in SUBSET Nat, S # {}, IsFiniteSet(S)
    PROVE  Max(S) \in S /\ \A y \in S : Max(S) >= y
<1>. DEFINE Bounded(T) == \E b \in Nat : \A x \in T : x <= b
            B == {T \in SUBSET S : ~Bounded(T)}
<1>1. B = {}
  <2>1. SUFFICES ASSUME B # {} PROVE FALSE
    OBVIOUS
  <2>2. \A T \in B : IsFiniteSet(T)
    BY FS_Subset
  <2>3. PICK T \in B : \A U \in B : Cardinality(T) <= Cardinality(U)
    <3>. HIDE DEF B
    <3>. QED  BY <2>1, <2>2, SmallestSet
  <2>4. T # {}
    BY <2>3
  <2>5. PICK x : x \in T
    BY <2>4
  <2>6. T \ {x} \in SUBSET T /\ T \ {x} # T
    BY <2>5
  <2>7. Cardinality(T \ {x}) < Cardinality(T) /\ Cardinality(T) \in Nat /\ Cardinality(T \ {x}) \in Nat
    BY <2>2, <2>3, <2>6, SmallerPart
  <2>8. T \ {x} \notin B
    <3>. HIDE DEF B
    <3>. QED  BY <2>3, <2>7
  <2>9. PICK b \in Nat : \A y \in T \ {x} : y <= b
    BY <2>8
  <2>10. x \in Nat
    BY <2>5
  <2>11. \A y \in T : y <= b + x
    BY <2>9, <2>10
  <2>12. b + x \in Nat
    BY <2>10
  <2>. QED  BY <2>3, <2>11, <2>12
<1>2. PICK b \in Nat : \A x \in S : x <= b
  BY <1>1
<1>. QED  BY <1>2, NatMax

\* The values of a function on a finite set are finitely many.
LEMMA FiniteImage ==
    ASSUME NEW f, IsFiniteSet(DOMAIN f)
    PROVE  IsFiniteSet({f[x] : x \in DOMAIN f})
<1>. DEFINE T == {f[x] : x \in DOMAIN f}
<1>1. PICK g : g = [x \in DOMAIN f |-> f[x]]
  OBVIOUS
<1>2. g \in Surjection(DOMAIN f, T)
  BY <1>1 DEF Surjection
<1>. HIDE DEF T
<1>3. IsFiniteSet(T)
  BY <1>2, FS_Surjection
<1>. QED  BY <1>3 DEF T

\* The closing price and the high that the strategy reads are naturals.
LEMMA EvaluateSays ==
    ASSUME NEW window \in Seq(BarType), Len(window) >= ReferenceWindow + 1
    PROVE  evaluate(window).close \in Nat /\ evaluate(window).high \in Nat
<1>1. PICK n, reference : n = Len(window) /\ reference = SubSeq(window, n - ReferenceWindow, n - 1)
  OBVIOUS
<1>2. n \in Nat /\ ReferenceWindow \in Nat /\ ReferenceWindow >= 1 /\ n >= ReferenceWindow + 1
  BY <1>1, ChainAssumption
<1>3. PICK f, l : f = n - ReferenceWindow /\ l = n - 1
  OBVIOUS
<1>4. f \in Nat /\ l \in Nat /\ 1 <= f /\ f <= l + 1 /\ l <= n /\ l - f + 1 = ReferenceWindow
  BY <1>2, <1>3
<1>5. /\ SubSeq(window, f, l) \in Seq(BarType) /\ Len(SubSeq(window, f, l)) = l - f + 1
  BY <1>1, <1>4, SliceOf
<1>6. reference \in Seq(BarType) /\ DOMAIN reference = 1..ReferenceWindow
  <2>1. reference = SubSeq(window, f, l)
    BY <1>1, <1>3
  <2>2. reference \in Seq(BarType) /\ Len(reference) = ReferenceWindow
    BY <1>4, <1>5, <2>1
  <2>. QED  BY <2>2
<1>. DEFINE highs == {reference[i].high : i \in DOMAIN reference}
<1>7. highs \in SUBSET Nat
  <2>1. ASSUME NEW s \in Seq(BarType)  PROVE \A i \in DOMAIN s : s[i] \in BarType
    OBVIOUS
  <2>2. \A i \in DOMAIN reference : reference[i] \in BarType
    BY <1>6, <2>1
  <2>. QED  BY <2>2 DEF BarType
<1>8. highs # {}
  <2>1. 1 \in DOMAIN reference
    BY <1>2, <1>6
  <2>. QED  BY <2>1
<1>9. IsFiniteSet(highs)
  <2>1. IsFiniteSet(1..ReferenceWindow)
    BY <1>2, FS_Interval
  <2>2. IsFiniteSet(DOMAIN reference)
    BY <1>6, <2>1
  <2>. DEFINE g == [i \in DOMAIN reference |-> reference[i].high]
  <2>3. DOMAIN g = DOMAIN reference /\ {g[i] : i \in DOMAIN g} = highs
    OBVIOUS
  <2>. HIDE DEF g, highs
  <2>4. IsFiniteSet({g[i] : i \in DOMAIN g})
    BY <2>2, <2>3, FiniteImage
  <2>. QED  BY <2>3, <2>4
<1>10. PICK high : high = Max(highs)
  OBVIOUS
<1>11. high \in Nat
  <2>1. high \in highs
    <3>. HIDE DEF highs
    <3>. QED  BY <1>7, <1>8, <1>9, <1>10, Greatest
  <2>. QED  BY <1>7, <2>1
<1>12. evaluate(window).high = high /\ evaluate(window).close = window[n].close
  BY <1>1, <1>10 DEF evaluate
<1>13. window[n] \in BarType
  BY <1>1, <1>2
<1>14. window[n].close \in Nat
  BY <1>13 DEF BarType
<1>. QED  BY <1>11, <1>12, <1>14

\* An approved position is of a whole number of shares.
LEMMA ApprovedSays ==
    ASSUME NEW scan, NEW candidate, NEW outcome, outcome.close \in Nat, outcome.high \in Nat,
           NEW plan, plan = build_trade_plan(scan, candidate, outcome),
           NEW position, position = build_position_plan(plan, AccountEquity, RiskPercent),
           position.status = "APPROVED_POSITION_PLAN"
    PROVE  /\ position.quantity \in Nat /\ position.at_risk \in Nat
           /\ Stop(plan) \in Int /\ Target(plan) \in Int
<1>1. plan.status = "APPROVED_PLAN"
  BY DEF build_position_plan
<1>2. /\ plan.geometry = [entry |-> outcome.close, risk |-> outcome.close - outcome.high]
      /\ outcome.high < outcome.close
  BY <1>1 DEF build_trade_plan
<1>3. PICK e, k : e = plan.geometry.entry /\ k = plan.geometry.risk
  OBVIOUS
<1>4. e \in Nat /\ k \in Nat /\ k > 0 /\ e > 0
  <2>1. e = outcome.close /\ k = outcome.close - outcome.high
    BY <1>2, <1>3
  <2>. QED  BY <1>2, <2>1
<1>5. PICK a, b : a = (AccountEquity * RiskPercent) \div (10000 * k) /\ b = (AccountEquity * 25) \div (100 * e)
  OBVIOUS
<1>6. a \in Int /\ b \in Int
  <2>1. AccountEquity * RiskPercent \in Int /\ AccountEquity * 25 \in Int /\ 10000 * k \in Nat /\ 10000 * k > 0
        /\ 100 * e \in Nat /\ 100 * e > 0
    BY <1>4, HorizonAssumption
  <2>. QED  BY <1>5, <2>1
<1>7. a > 0 /\ b > 0 /\ position.quantity = Min({a, b}) /\ position.at_risk = position.quantity * k
  <2>1. /\ ~(a <= 0) /\ ~(b <= 0)
        /\ position.quantity = Min({a, b}) /\ position.at_risk = Min({a, b}) * k
    BY <1>3, <1>5 DEF build_position_plan, _floor_quantity
  <2>. QED  BY <1>6, <2>1
<1>8. Min({a, b}) \in {a, b}
  <2>1. (\A y \in {a, b} : a <= y) \/ (\A y \in {a, b} : b <= y)
    BY <1>6
  <2>2. \E x \in {a, b} : \A y \in {a, b} : x <= y
    BY <2>1
  <2>. QED  BY <2>2 DEF Min
<1>9. position.quantity \in Nat
  BY <1>6, <1>7, <1>8
<1>10. position.at_risk \in Nat
  BY <1>4, <1>7, <1>9
<1>11. Stop(plan) \in Int /\ Target(plan) \in Int
  BY <1>3, <1>4 DEF Stop, Target
<1>. QED  BY <1>9, <1>10, <1>11

\* The numbers of a trade.
TradeCounts(t) ==
    /\ t.symbol \in Nat /\ t.rank \in Nat /\ t.risk \in Nat /\ t.net \in Int
    /\ t.outcome = "NO_ENTRY" => t.net = 0

\* The profit of a trade is a whole number, and 0 for a trade not entered.
LEMMA TradeIsCounted ==
    ASSUME NEW ds, Grid(ds), NEW c \in evaluated_cutoffs(ds), NEW t \in TradesAt(ds, c)
    PROVE  TradeCounts(t)
<1>1. PICK scan : scan = ScanAt(ds, c)
  OBVIOUS
<1>2. PICK i \in Approved(scan) : t = TradeOf(ds, scan, c, i)
  BY <1>1 DEF TradesAt
<1>3. PICK order : order = OrderOf(scan, i)
  OBVIOUS
<1>4. PICK u, entry : u = order.symbol /\ entry = scan[i]
  OBVIOUS
<1>5. /\ i \in DOMAIN scan /\ order.position.status = "APPROVED_POSITION_PLAN"
      /\ order.symbol = entry.symbol /\ order.rank = entry.rank
      /\ order.plan = PlanFor(scan, entry)
      /\ order.position = build_position_plan(order.plan, AccountEquity, RiskPercent)
  BY <1>3, <1>4 DEF Approved, OrderOf, OrderFor
<1>6. u \in DOMAIN ds /\ order.rank \in Nat /\ entry.outcome = evaluate(WindowAt(ds[u], c))
  BY <1>1, <1>4, <1>5, ScanSays
<1>7. u \in Nat
  BY <1>6 DEF Grid, DatasetType
<1>8. /\ c \in Nat /\ c >= ReferenceWindow + 1 /\ c + Horizon <= bars_per_instrument(ds)
      /\ ds[u] \in Seq(BarType) /\ Len(ds[u]) = bars_per_instrument(ds)
      /\ Horizon \in Nat /\ Horizon >= 1 /\ ReferenceWindow \in Nat
  BY <1>6, Cutoffs, GridSays, ChainAssumption, HorizonAssumption
<1>9. PICK bars, l : bars = ds[u] /\ l = bars_per_instrument(ds)
  OBVIOUS
<1>10. c \in Nat /\ l \in Nat /\ 1 <= c /\ c <= l /\ bars \in Seq(BarType) /\ Len(bars) = l
  BY <1>8, <1>9
<1>11. entry.outcome.close \in Nat /\ entry.outcome.high \in Nat
  <2>1. PICK w : w = SubSeq(bars, 1, c)
    OBVIOUS
  <2>2. w \in Seq(BarType) /\ Len(w) = c - 1 + 1
    <3>1. 1 \in Nat /\ 1 <= 1 /\ 1 <= c + 1 /\ c <= Len(bars)
      BY <1>10
    <3>. QED  BY <1>10, <2>1, <3>1, SliceOf
  <2>3. entry.outcome = evaluate(w)
    BY <1>6, <1>9, <2>1 DEF WindowAt
  <2>4. Len(w) >= ReferenceWindow + 1
    BY <1>8, <2>2
  <2>. QED  BY <2>2, <2>3, <2>4, EvaluateSays
<1>12. /\ order.position.quantity \in Nat /\ order.position.at_risk \in Nat
       /\ Stop(order.plan) \in Int /\ Target(order.plan) \in Int
  <2>1. PICK o, plan, position, cand : /\ o = entry.outcome /\ plan = order.plan /\ position = order.position
                                       /\ cand = entry.candidate
    OBVIOUS
  <2>2. plan = build_trade_plan(scan, cand, o)
    BY <1>5, <2>1 DEF PlanFor
  <2>3. position = build_position_plan(plan, AccountEquity, RiskPercent) /\ position.status = "APPROVED_POSITION_PLAN"
    BY <1>5, <2>1
  <2>4. o.close \in Nat /\ o.high \in Nat
    BY <1>11, <2>1
  <2>. QED  BY <2>1, <2>2, <2>3, <2>4, ApprovedSays
<1>13. PICK after : after = SubSeq(bars, c + 1, c + Horizon)
  OBVIOUS
<1>14. \A k \in 1..Horizon : after[k] \in BarType
  <2>1. \A k \in 1..Horizon : SubSeq(ds[u], c + 1, c + Horizon)[k] = ds[u][c + k]
    BY <1>6, BarsAfter
  <2>2. \A k \in 1..Horizon : c + k \in DOMAIN bars
    BY <1>8, <1>9, <1>10
  <2>3. \A k \in 1..Horizon : after[k] = bars[c + k]
    BY <1>9, <1>13, <2>1
  <2>4. \A k \in DOMAIN bars : bars[k] \in BarType
    BY <1>10
  <2>. QED  BY <2>2, <2>3, <2>4
<1>15. t = _simulate_trade(order, bars[c].day, after)
  BY <1>2, <1>3, <1>4, <1>9, <1>13 DEF TradeOf, Simulated
<1>16. PICK exit, open : exit = ExitOf(order.plan, after) /\ open = 100 * after[1].open
  OBVIOUS
<1>17. PICK outcome : /\ t = HistoricalBacktestTrade(order, bars[c].day, outcome)
                      /\ outcome = NoEntry \/ outcome = Settled(order.position.quantity, after[1].day, open, exit)
  <2>1. t = HistoricalBacktestTrade(order, bars[c].day,
                IF open <= Stop(order.plan) \/ open >= Target(order.plan) THEN NoEntry
                ELSE Settled(order.position.quantity, after[1].day, open, exit))
    BY <1>15, <1>16 DEF _simulate_trade
  <2>. QED  BY <2>1
<1>18. /\ t.symbol = u /\ t.rank = order.rank /\ t.risk = order.position.at_risk
       /\ t.outcome = outcome.outcome /\ t.net = outcome.net
  BY <1>4, <1>17 DEF HistoricalBacktestTrade
<1>19. outcome.net \in Int /\ (outcome.outcome = "NO_ENTRY" => outcome.net = 0)
  <2>1. CASE outcome = NoEntry
    BY <2>1 DEF NoEntry
  <2>2. CASE outcome = Settled(order.position.quantity, after[1].day, open, exit)
    <3>1. PICK e : e = ExitBar(order.plan, after)
      OBVIOUS
    <3>2. e \in 1..Horizon
      BY <3>1, ExitBarExists
    <3>3. exit = ExitAt(order.plan, after[e])
      BY <1>16, <3>1 DEF ExitOf
    <3>4. exit.outcome # "NO_ENTRY"
      BY <3>3, ExitSays
    <3>5. after[e].close \in Nat /\ after[1].open \in Nat
      <4>1. after[e] \in BarType /\ after[1] \in BarType
        BY <1>8, <1>14, <3>2
      <4>. QED  BY <4>1 DEF BarType
    <3>6. exit.price \in Int
      <4>1. \/ exit.price = Stop(order.plan) \/ exit.price = Target(order.plan) \/ exit.price = 100 * after[e].close
        BY <3>3 DEF ExitAt
      <4>. QED  BY <1>12, <3>5, <4>1
    <3>7. open \in Nat
      BY <1>16, <3>5
    <3>8. PICK q, x : q = order.position.quantity /\ x = exit.price
      OBVIOUS
    <3>9. q \in Nat /\ x \in Int
      BY <1>12, <3>6, <3>8
    <3>10. outcome.net = 10000 * (x - open) * q - 5 * q * (open + x) /\ outcome.outcome = exit.outcome
      BY <2>2, <3>8 DEF Settled, _net_costs
    <3>11. 10000 * (x - open) * q \in Int /\ 5 * q * (open + x) \in Int
      BY <3>7, <3>9
    <3>12. outcome.net \in Int
      BY <3>10, <3>11
    <3>. QED  BY <3>4, <3>10, <3>12
  <2>. QED  BY <1>17, <2>1, <2>2
<1>. QED  BY <1>6, <1>7, <1>12, <1>18, <1>19 DEF TradeCounts

------------------------------------------------------------------------------
(* Sums *)

Chosen(T) == CHOOSE x \in T : TRUE

IsSum(g, f, S) == g = [T \in SUBSET S |-> IF T = {} THEN 0 ELSE f[Chosen(T)] + g[T \ {Chosen(T)}]]

\* A sum is the value at S of some function of partial sums.
LEMMA SumIsChosen ==
    ASSUME NEW f, NEW S
    PROVE  SumFunctionOnSet(f, S) = (CHOOSE g : IsSum(g, f, S))[S]
  BY DEF SumFunctionOnSet, FoldFunctionOnSet, MapThenFoldSet, IsSum, Chosen

\* The chosen element is one.
LEMMA ChosenIsIn ==
    ASSUME NEW T, T # {}
    PROVE  Chosen(T) \in T
  BY DEF Chosen

\* Any two functions of partial sums agree.
LEMMA SumIsUnique ==
    ASSUME NEW f, NEW S, IsFiniteSet(S), NEW g, IsSum(g, f, S), NEW h, IsSum(h, f, S)
    PROVE  g[S] = h[S]
<1>. DEFINE B == {T \in SUBSET S : g[T] # h[T]}
<1>1. SUFFICES ASSUME B # {} PROVE FALSE
  OBVIOUS
<1>2. \A T \in B : IsFiniteSet(T)
  BY FS_Subset
<1>3. PICK T \in B : \A U \in B : Cardinality(T) <= Cardinality(U)
  <2>. HIDE DEF B
  <2>. QED  BY <1>1, <1>2, SmallestSet
<1>4. g[T] = IF T = {} THEN 0 ELSE f[Chosen(T)] + g[T \ {Chosen(T)}]
  BY <1>3 DEF IsSum
<1>5. h[T] = IF T = {} THEN 0 ELSE f[Chosen(T)] + h[T \ {Chosen(T)}]
  BY <1>3 DEF IsSum
<1>6. T # {}
  BY <1>3, <1>4, <1>5
<1>7. T \ {Chosen(T)} \in SUBSET T /\ T \ {Chosen(T)} # T
  BY <1>6, ChosenIsIn
<1>8. T \ {Chosen(T)} \notin B
  <2>1. Cardinality(T \ {Chosen(T)}) < Cardinality(T) /\ Cardinality(T) \in Nat
        /\ Cardinality(T \ {Chosen(T)}) \in Nat
    BY <1>2, <1>3, <1>7, SmallerPart
  <2>. HIDE DEF B
  <2>. QED  BY <1>3, <2>1
<1>. QED  BY <1>3, <1>4, <1>5, <1>6, <1>8

\* A sum, one element at a time.
LEMMA SumStep ==
    ASSUME NEW f, NEW S, IsFiniteSet(S)
    PROVE  SumFunctionOnSet(f, S) =
             IF S = {} THEN 0 ELSE f[Chosen(S)] + SumFunctionOnSet(f, S \ {Chosen(S)})
<1>. DEFINE Sum(T) == SumFunctionOnSet(f, T)
            Summed(T) == IF T = {} THEN 0 ELSE f[Chosen(T)] + Sum(T \ {Chosen(T)})
            B == {T \in SUBSET S : Sum(T) # Summed(T)}
<1>1. ASSUME NEW T \in SUBSET S, \A U \in SUBSET T : U # T => Sum(U) = Summed(U)
      PROVE  Sum(T) = Summed(T)
  <2>. DEFINE h == [U \in SUBSET T |-> Summed(U)]
  <2>1. IsFiniteSet(T)
    BY FS_Subset
  <2>2. ASSUME NEW U \in SUBSET T, U # {}
        PROVE  U \ {Chosen(U)} \in SUBSET T /\ Summed(U \ {Chosen(U)}) = Sum(U \ {Chosen(U)})
    <3>1. Chosen(U) \in U
      BY <2>2, ChosenIsIn
    <3>2. U \ {Chosen(U)} # T
      BY <3>1
    <3>. HIDE DEF Summed, Sum
    <3>. QED  BY <1>1, <3>2
  <2>3. IsSum(h, f, T)
    <3>1. \A U \in SUBSET T : U # {} => h[U \ {Chosen(U)}] = Sum(U \ {Chosen(U)})
      <4>. HIDE DEF Summed, Sum
      <4>. QED  BY <2>2
    <3>2. \A U \in SUBSET T : Summed(U) = IF U = {} THEN 0 ELSE f[Chosen(U)] + h[U \ {Chosen(U)}]
      <4>. HIDE DEF Sum
      <4>. QED  BY <3>1
    <3>. HIDE DEF Summed
    <3>. QED  BY <3>2 DEF IsSum
  <2>. HIDE DEF h
  <2>4. IsSum(CHOOSE g : IsSum(g, f, T), f, T)
    BY <2>3
  <2>5. (CHOOSE g : IsSum(g, f, T))[T] = h[T]
    BY <2>1, <2>3, <2>4, SumIsUnique
  <2>. QED  BY <2>5, SumIsChosen DEF h
<1>. HIDE DEF Summed, Sum
<1>2. B = {}
  <2>1. SUFFICES ASSUME B # {} PROVE FALSE
    OBVIOUS
  <2>2. \A T \in B : IsFiniteSet(T)
    BY FS_Subset
  <2>3. PICK T \in B : \A U \in B : Cardinality(T) <= Cardinality(U)
    <3>. HIDE DEF B
    <3>. QED  BY <2>1, <2>2, SmallestSet
  <2>4. ASSUME NEW U \in SUBSET T, U # T  PROVE U \notin B
    <3>1. Cardinality(U) < Cardinality(T) /\ Cardinality(U) \in Nat /\ Cardinality(T) \in Nat
      BY <2>2, <2>3, <2>4, SmallerPart
    <3>. HIDE DEF B
    <3>. QED  BY <2>3, <3>1
  <2>. QED  BY <1>1, <2>3, <2>4
<1>3. Sum(S) = Summed(S)
  BY <1>2
<1>. QED  BY <1>3 DEF Summed, Sum

\* A sum does not depend on the order.
LEMMA SumSays ==
    ASSUME NEW f, NEW S, IsFiniteSet(S), \A x \in S : f[x] \in Int
    PROVE  /\ SumFunctionOnSet(f, S) \in Int
           /\ S = {} => SumFunctionOnSet(f, S) = 0
           /\ \A x \in S : SumFunctionOnSet(f, S) = f[x] + SumFunctionOnSet(f, S \ {x})
<1>. DEFINE Sum(T) == SumFunctionOnSet(f, T)
            Good(T) == Sum(T) \in Int /\ \A x \in T : Sum(T) = f[x] + Sum(T \ {x})
            B == {T \in SUBSET S : ~Good(T)}
<1>0. ASSUME NEW T \in SUBSET S  PROVE Sum(T) = IF T = {} THEN 0 ELSE f[Chosen(T)] + Sum(T \ {Chosen(T)})
  <2>1. IsFiniteSet(T)
    BY FS_Subset
  <2>. QED  BY <2>1, SumStep
<1>. HIDE DEF Sum
<1>1. ASSUME NEW T \in SUBSET S, \A U \in SUBSET T : U # T => Good(U)
      PROVE  Good(T)
  <2>2. CASE T = {}
    <3>1. Sum(T) = 0
      BY <1>0, <2>2
    <3>. QED  BY <2>2, <3>1
  <2>3. CASE T # {}
    <3>1. PICK c : c = Chosen(T)
      OBVIOUS
    <3>2. c \in T /\ Sum(T) = f[c] + Sum(T \ {c}) /\ f[c] \in Int
      BY <1>0, <2>3, <3>1, ChosenIsIn
    <3>3. Good(T \ {c})
      <4>1. T \ {c} # T
        BY <3>2
      <4>. HIDE DEF Good
      <4>. QED  BY <1>1, <4>1
    <3>4. ASSUME NEW x \in T, x # c  PROVE Sum(T) = f[x] + Sum(T \ {x})
      <4>1. x \in T \ {c} /\ c \in T \ {x}
        BY <3>2, <3>4
      <4>2. Sum(T \ {c}) = f[x] + Sum((T \ {c}) \ {x})
        BY <3>3, <4>1
      <4>3. Good(T \ {x}) /\ Good((T \ {c}) \ {x})
        <5>1. T \ {x} # T /\ (T \ {c}) \ {x} # T
          BY <3>2
        <5>. HIDE DEF Good
        <5>. QED  BY <1>1, <5>1
      <4>4. Sum(T \ {x}) = f[c] + Sum((T \ {x}) \ {c})
        BY <4>1, <4>3
      <4>5. (T \ {x}) \ {c} = (T \ {c}) \ {x}
        OBVIOUS
      <4>6. PICK a, b, d, e : a = Sum(T) /\ b = Sum(T \ {c}) /\ d = Sum(T \ {x}) /\ e = Sum((T \ {c}) \ {x})
        OBVIOUS
      <4>7. f[x] \in Int /\ e \in Int
        BY <4>3, <4>6
      <4>8. a = f[c] + b /\ b = f[x] + e /\ d = f[c] + e
        BY <3>2, <4>2, <4>4, <4>5, <4>6
      <4>9. a = f[x] + d
        BY <3>2, <4>7, <4>8
      <4>. QED  BY <4>6, <4>9
    <3>5. Sum(T) \in Int
      <4>1. Sum(T \ {c}) \in Int
        BY <3>3
      <4>. QED  BY <3>2, <4>1
    <3>. QED  BY <3>2, <3>4, <3>5
  <2>. QED  BY <2>2, <2>3
<1>. HIDE DEF Good
<1>2. B = {}
  <2>1. SUFFICES ASSUME B # {} PROVE FALSE
    OBVIOUS
  <2>2. \A T \in B : IsFiniteSet(T)
    BY FS_Subset
  <2>3. PICK T \in B : \A U \in B : Cardinality(T) <= Cardinality(U)
    <3>. HIDE DEF B
    <3>. QED  BY <2>1, <2>2, SmallestSet
  <2>4. ASSUME NEW U \in SUBSET T, U # T  PROVE U \notin B
    <3>1. Cardinality(U) < Cardinality(T) /\ Cardinality(U) \in Nat /\ Cardinality(T) \in Nat
      BY <2>2, <2>3, <2>4, SmallerPart
    <3>. HIDE DEF B
    <3>. QED  BY <2>3, <3>1
  <2>. QED  BY <1>1, <2>3, <2>4
<1>3. Good(S)
  BY <1>2
<1>4. S = {} => Sum(S) = 0
  BY <1>0
<1>. QED  BY <1>3, <1>4 DEF Good, Sum

\* Functions that agree have the same sum.
LEMMA SumAgrees ==
    ASSUME NEW S, IsFiniteSet(S), NEW f, NEW g, \A x \in S : f[x] \in Int /\ g[x] = f[x]
    PROVE  SumFunctionOnSet(f, S) = SumFunctionOnSet(g, S)
<1>. DEFINE F(T) == SumFunctionOnSet(f, T)
            G(T) == SumFunctionOnSet(g, T)
            B == {T \in SUBSET S : F(T) # G(T)}
<1>0. ASSUME NEW T \in SUBSET S
      PROVE  /\ F(T) = IF T = {} THEN 0 ELSE f[Chosen(T)] + F(T \ {Chosen(T)})
             /\ G(T) = IF T = {} THEN 0 ELSE g[Chosen(T)] + G(T \ {Chosen(T)})
  <2>1. IsFiniteSet(T)
    BY FS_Subset
  <2>. QED  BY <2>1, SumStep
<1>. HIDE DEF F, G
<1>1. SUFFICES ASSUME B # {} PROVE FALSE
  BY DEF F, G
<1>2. \A T \in B : IsFiniteSet(T)
  BY FS_Subset
<1>3. PICK T \in B : \A U \in B : Cardinality(T) <= Cardinality(U)
  <2>. HIDE DEF B
  <2>. QED  BY <1>1, <1>2, SmallestSet
<1>4. T # {}
  BY <1>0, <1>3
<1>5. PICK c : c = Chosen(T)
  OBVIOUS
<1>6. c \in T
  BY <1>4, <1>5, ChosenIsIn
<1>7. T \ {c} \in SUBSET T /\ T \ {c} # T
  BY <1>6
<1>8. T \ {c} \notin B
  <2>1. Cardinality(T \ {c}) < Cardinality(T) /\ Cardinality(T) \in Nat /\ Cardinality(T \ {c}) \in Nat
    BY <1>2, <1>3, <1>7, SmallerPart
  <2>. HIDE DEF B
  <2>. QED  BY <1>3, <2>1
<1>9. F(T \ {c}) = G(T \ {c})
  BY <1>8
<1>. QED  BY <1>0, <1>3, <1>4, <1>5, <1>6, <1>9

\* Where one term changes, the sum changes by as much.
LEMMA SumChanges ==
    ASSUME NEW S, IsFiniteSet(S), NEW f, NEW g, \A x \in S : f[x] \in Int /\ g[x] \in Int,
           NEW y \in S, \A x \in S \ {y} : g[x] = f[x]
    PROVE  SumFunctionOnSet(g, S) = SumFunctionOnSet(f, S) + (g[y] - f[y])
<1>1. IsFiniteSet(S \ {y})
  BY FS_Subset
<1>2. PICK a, b, d, e : /\ a = SumFunctionOnSet(f, S) /\ b = SumFunctionOnSet(g, S)
                        /\ d = SumFunctionOnSet(f, S \ {y}) /\ e = SumFunctionOnSet(g, S \ {y})
  OBVIOUS
<1>3. a = f[y] + d
  BY <1>2, SumSays
<1>4. b = g[y] + e
  BY <1>2, SumSays
<1>5. d = e
  BY <1>1, <1>2, SumAgrees
<1>6. d \in Int /\ f[y] \in Int /\ g[y] \in Int
  BY <1>1, <1>2, SumSays
<1>7. b = a + (g[y] - f[y])
  BY <1>3, <1>4, <1>5, <1>6
<1>. QED  BY <1>2, <1>7

\* A sum of zeros is zero.
LEMMA SumOfZeros ==
    ASSUME NEW S, IsFiniteSet(S), NEW f, \A x \in S : f[x] = 0
    PROVE  SumFunctionOnSet(f, S) = 0
<1>. DEFINE F(T) == SumFunctionOnSet(f, T)
            B == {T \in SUBSET S : F(T) # 0}
<1>0. ASSUME NEW T \in SUBSET S
      PROVE  F(T) = IF T = {} THEN 0 ELSE f[Chosen(T)] + F(T \ {Chosen(T)})
  <2>1. IsFiniteSet(T)
    BY FS_Subset
  <2>. QED  BY <2>1, SumStep
<1>. HIDE DEF F
<1>1. SUFFICES ASSUME B # {} PROVE FALSE
  BY DEF F
<1>2. \A T \in B : IsFiniteSet(T)
  BY FS_Subset
<1>3. PICK T \in B : \A U \in B : Cardinality(T) <= Cardinality(U)
  <2>. HIDE DEF B
  <2>. QED  BY <1>1, <1>2, SmallestSet
<1>4. T # {}
  BY <1>0, <1>3
<1>5. PICK c : c = Chosen(T)
  OBVIOUS
<1>6. c \in T
  BY <1>4, <1>5, ChosenIsIn
<1>7. T \ {c} \in SUBSET T /\ T \ {c} # T
  BY <1>6
<1>8. T \ {c} \notin B
  <2>1. Cardinality(T \ {c}) < Cardinality(T) /\ Cardinality(T) \in Nat /\ Cardinality(T \ {c}) \in Nat
    BY <1>2, <1>3, <1>7, SmallerPart
  <2>. HIDE DEF B
  <2>. QED  BY <1>3, <2>1
<1>9. F(T \ {c}) = 0
  BY <1>8
<1>. QED  BY <1>0, <1>3, <1>4, <1>5, <1>6, <1>9

\* A cardinality is a sum.
LEMMA SumOfOnes ==
    ASSUME NEW S, IsFiniteSet(S), NEW f, \A x \in S : f[x] = 1
    PROVE  SumFunctionOnSet(f, S) = Cardinality(S)
<1>. DEFINE F(T) == SumFunctionOnSet(f, T)
            B == {T \in SUBSET S : F(T) # Cardinality(T)}
<1>0. ASSUME NEW T \in SUBSET S
      PROVE  F(T) = IF T = {} THEN 0 ELSE f[Chosen(T)] + F(T \ {Chosen(T)})
  <2>1. IsFiniteSet(T)
    BY FS_Subset
  <2>. QED  BY <2>1, SumStep
<1>. HIDE DEF F
<1>1. SUFFICES ASSUME B # {} PROVE FALSE
  BY DEF F
<1>2. \A T \in B : IsFiniteSet(T)
  BY FS_Subset
<1>3. PICK T \in B : \A U \in B : Cardinality(T) <= Cardinality(U)
  <2>. HIDE DEF B
  <2>. QED  BY <1>1, <1>2, SmallestSet
<1>4. T # {}
  BY <1>0, <1>3, FS_EmptySet
<1>5. PICK c : c = Chosen(T)
  OBVIOUS
<1>6. c \in T
  BY <1>4, <1>5, ChosenIsIn
<1>7. Cardinality(T \ {c}) = Cardinality(T) - 1 /\ Cardinality(T) \in Nat
  BY <1>2, <1>3, <1>6, FS_RemoveElement, FS_CardinalityType
<1>8. T \ {c} \notin B
  <2>. HIDE DEF B
  <2>. QED  BY <1>3, <1>7
<1>9. F(T \ {c}) = Cardinality(T \ {c})
  BY <1>8
<1>10. F(T) = 1 + F(T \ {c})
  BY <1>0, <1>4, <1>5, <1>6
<1>11. F(T) = Cardinality(T)
  BY <1>7, <1>9, <1>10
<1>. QED  BY <1>3, <1>11

\* The terms of a sum, put in groups.  A term of no group must be 0.
Group(S, h, t) == {x \in S : h[x] = t}

\* A sum is that of the sums of its groups; terms outside them are zero.
LEMMA SumByGroups ==
    ASSUME NEW S, IsFiniteSet(S), NEW f, \A x \in S : f[x] \in Int,
           NEW T, IsFiniteSet(T), NEW h, \A x \in S : h[x] \in T \/ f[x] = 0,
           NEW g, \A t \in T : g[t] = SumFunctionOnSet(f, Group(S, h, t))
    PROVE  SumFunctionOnSet(f, S) = SumFunctionOnSet(g, T)
<1>. DEFINE G(U) == [t \in T |-> SumFunctionOnSet(f, Group(U, h, t))]
            Good(U) == SumFunctionOnSet(f, U) = SumFunctionOnSet(G(U), T)
            B == {U \in SUBSET S : ~Good(U)}
<1>1. ASSUME NEW U \in SUBSET S, NEW t \in T
      PROVE  /\ IsFiniteSet(Group(U, h, t)) /\ Group(U, h, t) \subseteq U
             /\ \A x \in Group(U, h, t) : f[x] \in Int
             /\ G(U)[t] \in Int
  <2>1. Group(U, h, t) \subseteq S /\ Group(U, h, t) \subseteq U
    BY DEF Group
  <2>2. IsFiniteSet(Group(U, h, t)) /\ \A x \in Group(U, h, t) : f[x] \in Int
    BY <2>1, FS_Subset
  <2>3. SumFunctionOnSet(f, Group(U, h, t)) \in Int
    BY <2>2, SumSays
  <2>. QED  BY <2>1, <2>2, <2>3
<1>2. ASSUME NEW U \in SUBSET S, \A V \in SUBSET U : V # U => Good(V)
      PROVE  Good(U)
  <2>1. IsFiniteSet(U) /\ \A x \in U : f[x] \in Int
    BY FS_Subset
  <2>2. CASE U = {}
    <3>1. SumFunctionOnSet(f, U) = 0
      BY <2>1, <2>2, SumSays
    <3>2. ASSUME NEW t \in T  PROVE G(U)[t] = 0
      <4>1. Group(U, h, t) = {}
        BY <2>2 DEF Group
      <4>2. SumFunctionOnSet(f, Group(U, h, t)) = 0
        BY <2>1, <2>2, <4>1, SumSays
      <4>. QED  BY <4>2
    <3>. HIDE DEF G
    <3>3. SumFunctionOnSet(G(U), T) = 0
      BY <3>2, SumOfZeros
    <3>. QED  BY <3>1, <3>3
  <2>3. CASE U # {}
    <3>1. PICK y : y \in U
      BY <2>3
    <3>2. PICK V : V = U \ {y}
      OBVIOUS
    <3>3. V \in SUBSET U /\ V # U /\ V \in SUBSET S
      BY <3>1, <3>2
    <3>4. SumFunctionOnSet(f, V) = SumFunctionOnSet(G(V), T)
      BY <1>2, <3>3
    <3>5. SumFunctionOnSet(f, U) = f[y] + SumFunctionOnSet(f, V) /\ f[y] \in Int
      BY <2>1, <3>1, <3>2, SumSays
    <3>6. ASSUME NEW t \in T, h[y] # t  PROVE G(U)[t] = G(V)[t]
      <4>1. Group(U, h, t) = Group(V, h, t)
        BY <3>2, <3>6 DEF Group
      <4>. QED  BY <4>1
    <3>7. ASSUME h[y] \in T  PROVE G(U)[h[y]] = G(V)[h[y]] + f[y]
      <4>1. PICK t : t = h[y]
        OBVIOUS
      <4>2. Group(V, h, t) = Group(U, h, t) \ {y} /\ y \in Group(U, h, t)
        BY <3>1, <3>2, <4>1 DEF Group
      <4>3. IsFiniteSet(Group(U, h, t)) /\ \A x \in Group(U, h, t) : f[x] \in Int
        BY <1>1, <3>7, <4>1
      <4>4. SumFunctionOnSet(f, Group(U, h, t)) = f[y] + SumFunctionOnSet(f, Group(V, h, t))
        BY <4>2, <4>3, SumSays
      <4>5. G(U)[t] = SumFunctionOnSet(f, Group(U, h, t)) /\ G(V)[t] = SumFunctionOnSet(f, Group(V, h, t))
        BY <3>7, <4>1
      <4>6. G(V)[t] \in Int
        BY <1>1, <3>3, <3>7, <4>1
      <4>. HIDE DEF G
      <4>7. G(U)[t] = G(V)[t] + f[y]
        BY <3>5, <4>4, <4>5, <4>6
      <4>. QED  BY <4>1, <4>7
    <3>8. /\ \A t \in T : G(U)[t] \in Int /\ G(V)[t] \in Int
      BY <1>1, <3>3
    <3>. HIDE DEF G
    <3>9. PICK gu, gv : gu = G(U) /\ gv = G(V)
      OBVIOUS
    <3>10. PICK a, b, d, e : /\ a = SumFunctionOnSet(f, U) /\ b = SumFunctionOnSet(f, V)
                             /\ d = SumFunctionOnSet(gu, T) /\ e = SumFunctionOnSet(gv, T)
      OBVIOUS
    <3>11. b = e /\ a = f[y] + b
      BY <3>4, <3>5, <3>9, <3>10
    <3>12. e \in Int
      BY <3>8, <3>9, <3>10, SumSays
    <3>13. CASE h[y] \in T
      <4>1. PICK t \in T : t = h[y]
        BY <3>13
      <4>2. \A x \in T : gv[x] \in Int /\ gu[x] \in Int
        BY <3>8, <3>9
      <4>3. \A x \in T \ {t} : gu[x] = gv[x]
        BY <3>6, <3>9, <4>1
      <4>4. d = e + (gu[t] - gv[t])
        BY <3>10, <4>2, <4>3, SumChanges
      <4>5. gu[t] = gv[t] + f[y]
        BY <3>7, <3>9, <4>1
      <4>6. gu[t] \in Int /\ gv[t] \in Int
        BY <4>2
      <4>7. d = e + f[y]
        BY <3>5, <3>12, <4>4, <4>5, <4>6
      <4>8. a = d
        BY <3>5, <3>11, <3>12, <4>7
      <4>. QED  BY <3>9, <3>10, <4>8
    <3>14. CASE h[y] \notin T
      <4>1. f[y] = 0
        BY <3>1, <3>14
      <4>2. \A x \in T : gv[x] \in Int /\ gu[x] = gv[x]
        BY <3>6, <3>8, <3>9, <3>14
      <4>3. d = e
        BY <3>10, <4>2, SumAgrees
      <4>4. a = d
        BY <3>11, <3>12, <4>1, <4>3
      <4>. QED  BY <3>9, <3>10, <4>4
    <3>. QED  BY <3>13, <3>14
  <2>. QED  BY <2>2, <2>3
<1>. HIDE DEF Good
<1>3. B = {}
  <2>1. SUFFICES ASSUME B # {} PROVE FALSE
    OBVIOUS
  <2>2. \A U \in B : IsFiniteSet(U)
    BY FS_Subset
  <2>3. PICK U \in B : \A V \in B : Cardinality(U) <= Cardinality(V)
    <3>. HIDE DEF B
    <3>. QED  BY <2>1, <2>2, SmallestSet
  <2>4. ASSUME NEW V \in SUBSET U, V # U  PROVE V \notin B
    <3>1. Cardinality(V) < Cardinality(U) /\ Cardinality(V) \in Nat /\ Cardinality(U) \in Nat
      BY <2>2, <2>3, <2>4, SmallerPart
    <3>. HIDE DEF B
    <3>. QED  BY <2>3, <3>1
  <2>. QED  BY <1>2, <2>3, <2>4
<1>4. Good(S)
  BY <1>3
<1>5. \A t \in T : G(S)[t] \in Int /\ g[t] = G(S)[t]
  BY <1>1
<1>. HIDE DEF G
<1>6. SumFunctionOnSet(G(S), T) = SumFunctionOnSet(g, T)
  BY <1>5, SumAgrees
<1>. QED  BY <1>4, <1>6 DEF Good

\* The sum of one term.
LEMMA SumOfOne ==
    ASSUME NEW f, NEW x, f[x] \in Int
    PROVE  SumFunctionOnSet(f, {x}) = f[x]
<1>1. IsFiniteSet({x}) /\ {x} \ {x} = {} /\ IsFiniteSet({})
  BY FS_Singleton, FS_EmptySet
<1>2. PICK a, b : a = SumFunctionOnSet(f, {x}) /\ b = SumFunctionOnSet(f, {})
  OBVIOUS
<1>3. a = f[x] + b
  BY <1>1, <1>2, SumSays
<1>4. b = 0
  BY <1>1, <1>2, SumSays
<1>. QED  BY <1>2, <1>3, <1>4

------------------------------------------------------------------------------
(* The windows of a bundle *)

GoodSpecs(specs) ==
    /\ Len(specs) \in Nat
    /\ DOMAIN specs = 1..Len(specs)
    /\ \A k \in DOMAIN specs : {specs[k].warmup, specs[k].scoring, specs[k].buffer} \subseteq Nat

IsCursor(g, specs, n) ==
    g = [k \in 0..n |-> IF k = 0 THEN 0 ELSE g[k - 1] + total_bar_count(specs[k])]

\* The cursor's recursion has a value at every window.
LEMMA CursorExists ==
    ASSUME NEW specs, NEW last \in Nat
    PROVE  \E g : IsCursor(g, specs, last)
<1>. DEFINE P(n) == \E g : IsCursor(g, specs, n)
            T == {n \in Nat : ~P(n)}
<1>1. SUFFICES ASSUME T # {} PROVE FALSE
  OBVIOUS
<1>2. PICK n \in T : \A y \in T : n <= y
  <2>1. T \in SUBSET Nat
    OBVIOUS
  <2>. HIDE DEF T
  <2>. QED  BY <1>1, <2>1, NatMin
<1>3. P(0)
  <2>. DEFINE g == [k \in 0..0 |-> 0]
  <2>1. g = [k \in 0..0 |-> IF k = 0 THEN 0 ELSE g[k - 1] + total_bar_count(specs[k])]
    OBVIOUS
  <2>. QED  BY <2>1 DEF IsCursor
<1>. HIDE DEF P
<1>4. n \in Nat \ {0} /\ n - 1 \in Nat
  BY <1>2, <1>3
<1>5. P(n - 1)
  BY <1>2, <1>4
<1>6. PICK g : IsCursor(g, specs, n - 1)
  BY <1>5 DEF P
<1>7. P(n)
  <2>. DEFINE h == [k \in 0..n |-> IF k = 0 THEN 0 ELSE g[k - 1] + total_bar_count(specs[k])]
  <2>1. ASSUME NEW k \in 0..(n - 1)  PROVE h[k] = g[k]
    <3>1. k \in 0..n
      BY <1>4
    <3>2. h[k] = IF k = 0 THEN 0 ELSE g[k - 1] + total_bar_count(specs[k])
      BY <3>1
    <3>3. g[k] = IF k = 0 THEN 0 ELSE g[k - 1] + total_bar_count(specs[k])
      BY <1>6 DEF IsCursor
    <3>. QED  BY <3>2, <3>3
  <2>2. ASSUME NEW k \in 0..n, k # 0  PROVE h[k - 1] = g[k - 1]
    <3>1. k - 1 \in 0..(n - 1)
      BY <1>4, <2>2
    <3>. HIDE DEF h
    <3>. QED  BY <2>1, <3>1
  <2>3. h = [k \in 0..n |-> IF k = 0 THEN 0 ELSE h[k - 1] + total_bar_count(specs[k])]
    BY <2>2
  <2>. HIDE DEF h
  <2>. QED  BY <2>3 DEF P, IsCursor
<1>. QED  BY <1>2, <1>7

\* The cursor goes forward by the bars of each window.
LEMMA CursorSays ==
    ASSUME NEW specs, GoodSpecs(specs), NEW n, n = Len(specs), NEW cursor, cursor = Cursor(specs)
    PROVE  /\ n \in Nat /\ cursor[0] = 0
           /\ \A k \in 1..n : cursor[k] = cursor[k - 1] + total_bar_count(specs[k])
           /\ \A k \in 0..n : cursor[k] \in Nat
           /\ \A k \in 0..n : cursor[k] <= cursor[n]
<1>1. n \in Nat /\ DOMAIN specs = 1..n
  BY DEF GoodSpecs
<1>2. IsCursor(cursor, specs, n)
  <2>1. cursor = CHOOSE g : IsCursor(g, specs, n)
    BY DEF Cursor, IsCursor
  <2>. QED  BY <1>1, <2>1, CursorExists
<1>3. \A k \in 0..n : cursor[k] = IF k = 0 THEN 0 ELSE cursor[k - 1] + total_bar_count(specs[k])
  BY <1>2 DEF IsCursor
<1>4. cursor[0] = 0
  <2>1. 0 \in 0..n
    BY <1>1
  <2>. QED  BY <1>3, <2>1
<1>5. ASSUME NEW k \in 1..n  PROVE cursor[k] = cursor[k - 1] + total_bar_count(specs[k])
  <2>1. k \in 0..n /\ k # 0
    BY <1>1
  <2>. QED  BY <1>3, <2>1
<1>6. ASSUME NEW k \in 1..n  PROVE total_bar_count(specs[k]) \in Nat
  <2>1. specs[k].warmup \in Nat /\ specs[k].scoring \in Nat /\ specs[k].buffer \in Nat
    BY <1>1 DEF GoodSpecs
  <2>. QED  BY <2>1 DEF total_bar_count
<1>7. \A k \in 0..n : cursor[k] \in Nat
  <2>. DEFINE B == {k \in Nat : k <= n /\ cursor[k] \notin Nat}
  <2>1. SUFFICES ASSUME B # {} PROVE FALSE
    BY <1>1
  <2>2. PICK k \in B : \A m \in B : k <= m
    <3>1. B \in SUBSET Nat
      OBVIOUS
    <3>. HIDE DEF B
    <3>. QED  BY <2>1, <3>1, NatMin
  <2>3. k \in 1..n /\ k - 1 \in Nat /\ k - 1 <= n /\ ~(k <= k - 1)
    BY <1>1, <1>4, <2>2
  <2>4. cursor[k - 1] \in Nat
    BY <2>2, <2>3
  <2>5. cursor[k] \in Nat
    BY <1>5, <1>6, <2>3, <2>4
  <2>. QED  BY <2>2, <2>5
<1>8. \A k \in 0..n : cursor[k] <= cursor[n]
  <2>. DEFINE B == {m \in Nat : m <= n /\ ~(cursor[n - m] <= cursor[n])}
  <2>1. B = {}
    <3>1. SUFFICES ASSUME B # {} PROVE FALSE
      OBVIOUS
    <3>2. PICK m \in B : \A j \in B : m <= j
      <4>1. B \in SUBSET Nat
        OBVIOUS
      <4>. HIDE DEF B
      <4>. QED  BY <3>1, <4>1, NatMin
    <3>3. m # 0
      <4>1. n \in 0..n /\ n - 0 = n
        BY <1>1
      <4>2. cursor[n] \in Nat /\ cursor[n] <= cursor[n]
        BY <1>7, <4>1
      <4>. QED  BY <3>2, <4>1, <4>2
    <3>4. PICK k : k = n - (m - 1)
      OBVIOUS
    <3>5. m - 1 \in Nat /\ m - 1 <= n /\ ~(m <= m - 1) /\ k \in 1..n /\ k - 1 = n - m /\ k \in 0..n /\ k - 1 \in 0..n /\ n \in 0..n
      BY <1>1, <3>2, <3>3, <3>4
    <3>6. cursor[k] <= cursor[n]
      BY <3>2, <3>4, <3>5
    <3>7. cursor[k - 1] <= cursor[k]
      <4>1. PICK a, b, d : a = cursor[k - 1] /\ b = cursor[k] /\ d = total_bar_count(specs[k])
        OBVIOUS
      <4>2. b = a + d
        BY <1>5, <3>5, <4>1
      <4>3. a \in Nat /\ d \in Nat
        BY <1>6, <1>7, <3>5, <4>1
      <4>. QED  BY <4>1, <4>2, <4>3
    <3>8. cursor[k] \in Nat /\ cursor[k - 1] \in Nat /\ cursor[n] \in Nat
      BY <1>7, <3>5
    <3>9. cursor[k - 1] <= cursor[n]
      BY <3>6, <3>7, <3>8
    <3>. QED  BY <3>2, <3>5, <3>9
  <2>2. ASSUME NEW k \in 0..n  PROVE cursor[k] <= cursor[n]
    <3>1. n - k \in Nat /\ n - k <= n /\ n - (n - k) = k
      BY <1>1
    <3>. QED  BY <2>1, <3>1
  <2>. QED  BY <2>2
<1>. QED  BY <1>1, <1>4, <1>5, <1>7, <1>8

\* What the range of a window is.
RangeFits(range, bars) ==
    /\ range.first \in Nat /\ range.last \in Nat
    /\ 1 <= range.first
    /\ range.first + ReferenceWindow + Horizon <= range.last
    /\ range.last <= bars

\* The windows of a bundle that fits its series are within it.
LEMMA RangesFit ==
    ASSUME NEW specs, GoodSpecs(specs), NEW series, SpecsFit(specs, series), NEW k \in DOMAIN specs
    PROVE  RangeFits(Ranges(specs)[k], bars_per_instrument(series))
<1>1. PICK n, cursor : n = Len(specs) /\ cursor = Cursor(specs)
  OBVIOUS
<1>2. DOMAIN specs = 1..n
  BY <1>1 DEF GoodSpecs
<1>3. Ranges(specs)[k] = [first |-> cursor[k - 1] + 1, last |-> cursor[k]]
  BY <1>1 DEF Ranges
<1>4. /\ n \in Nat
      /\ \A j \in 1..n : cursor[j] = cursor[j - 1] + total_bar_count(specs[j])
      /\ \A j \in 0..n : cursor[j] \in Nat
      /\ \A j \in 0..n : cursor[j] <= cursor[n]
  BY <1>1, CursorSays
<1>5. k \in 1..n /\ k \in 0..n /\ k - 1 \in 0..n
  BY <1>2, <1>4
<1>6. cursor[k] = cursor[k - 1] + total_bar_count(specs[k]) /\ cursor[k] \in Nat /\ cursor[k - 1] \in Nat /\ cursor[k] <= cursor[n]
  BY <1>4, <1>5
<1>7. total_bar_count(specs[k]) >= ReferenceWindow + Horizon + 1 /\ total_bar_count(specs[k]) \in Nat
  <2>1. specs[k].warmup = ReferenceWindow /\ specs[k].buffer = Horizon /\ specs[k].scoring >= 1
    BY DEF SpecsFit
  <2>2. specs[k].scoring \in Nat
    BY DEF GoodSpecs
  <2>. QED  BY <2>1, <2>2, ChainAssumption, HorizonAssumption DEF total_bar_count
<1>8. cursor[n] = bars_per_instrument(series)
  BY <1>1 DEF SpecsFit
<1>9. /\ cursor[k - 1] + 1 \in Nat /\ 1 <= cursor[k - 1] + 1
      /\ cursor[k - 1] + 1 + ReferenceWindow + Horizon <= cursor[k]
  BY <1>6, <1>7, ChainAssumption, HorizonAssumption
<1>. QED  BY <1>3, <1>6, <1>8, <1>9 DEF RangeFits

GoodBundle(bundle) == RobustnessDatasetBundle(bundle) /\ BundleType(bundle)

\* A bundle's windows remain such when they are put in order.
LEMMA BundleSays ==
    ASSUME NEW bundle, GoodBundle(bundle)
    PROVE  /\ Grid(bundle.series)
           /\ GoodSpecs(bundle.specs)
           /\ GoodSpecs(ordered_window_specs(bundle))
           /\ DOMAIN ordered_window_specs(bundle) = DOMAIN bundle.specs
<1>1. Grid(bundle.series)
  BY DEF GoodBundle, Grid, RobustnessDatasetBundle, BundleType
<1>2. GoodSpecs(bundle.specs)
  BY DEF GoodBundle, BundleType, GoodSpecs
<1>3. PICK n, specs : n = Len(bundle.specs) /\ specs = bundle.specs
  OBVIOUS
<1>4. PICK ordered : ordered = ordered_window_specs(bundle)
  OBVIOUS
<1>5. n \in Nat /\ DOMAIN specs = 1..n
  BY <1>2, <1>3 DEF GoodSpecs
<1>6. ordered = [k \in 1..n |-> specs[CHOOSE j \in 1..n : specs[j].index = k - 1]]
  BY <1>3, <1>4, <1>5 DEF ordered_window_specs
<1>7. ASSUME NEW k \in 1..n  PROVE \E j \in 1..n : ordered[k] = specs[j]
  <2>1. k - 1 \in 0..(n - 1)
    BY <1>5
  <2>2. {specs[j].index : j \in 1..n} = 0..(n - 1)
    BY <1>3, <1>5 DEF GoodBundle, RobustnessDatasetBundle
  <2>3. \E j \in 1..n : specs[j].index = k - 1
    BY <2>1, <2>2
  <2>4. (CHOOSE j \in 1..n : specs[j].index = k - 1) \in 1..n
    BY <2>3
  <2>. QED  BY <1>6, <2>4
<1>8. DOMAIN ordered = 1..n
  BY <1>6
<1>9. Len(ordered) = n
  BY <1>5, <1>6
<1>10. GoodSpecs(ordered)
  <2>1. \A j \in 1..n : {specs[j].warmup, specs[j].scoring, specs[j].buffer} \subseteq Nat
    BY <1>2, <1>3, <1>5 DEF GoodSpecs
  <2>2. \A k \in 1..n : {ordered[k].warmup, ordered[k].scoring, ordered[k].buffer} \subseteq Nat
    BY <1>7, <2>1
  <2>. QED  BY <1>5, <1>8, <1>9, <2>2 DEF GoodSpecs
<1>. QED  BY <1>1, <1>2, <1>3, <1>4, <1>5, <1>8, <1>10

\* The range of window k of a bundle whose windows were found to fit.
LEMMA WindowRangesFit ==
    ASSUME NEW bundle, GoodBundle(bundle), NEW k \in DOMAIN bundle.specs
    PROVE  /\ _validate_bundle_windows(bundle) =>
                 /\ RangeFits(_window_bar_ranges(bundle)[k], bars_per_instrument(bundle.series))
                 /\ ordered_window_specs(bundle)[k].warmup = ReferenceWindow
           /\ _validate_bundle_segments(bundle) =>
                 RangeFits(_segment_bar_ranges(bundle)[k], bars_per_instrument(bundle.series))
<1>1. /\ GoodSpecs(bundle.specs) /\ GoodSpecs(ordered_window_specs(bundle))
      /\ k \in DOMAIN ordered_window_specs(bundle)
  BY BundleSays
<1>2. ASSUME _validate_bundle_windows(bundle)
      PROVE  /\ RangeFits(_window_bar_ranges(bundle)[k], bars_per_instrument(bundle.series))
             /\ ordered_window_specs(bundle)[k].warmup = ReferenceWindow
  <2>1. SpecsFit(ordered_window_specs(bundle), bundle.series)
    BY <1>2 DEF _validate_bundle_windows
  <2>2. RangeFits(Ranges(ordered_window_specs(bundle))[k], bars_per_instrument(bundle.series))
    BY <1>1, <2>1, RangesFit
  <2>3. ordered_window_specs(bundle)[k].warmup = ReferenceWindow
    BY <1>1, <2>1 DEF SpecsFit
  <2>. QED  BY <2>2, <2>3 DEF _window_bar_ranges
<1>3. ASSUME _validate_bundle_segments(bundle)
      PROVE  RangeFits(_segment_bar_ranges(bundle)[k], bars_per_instrument(bundle.series))
  <2>1. SpecsFit(bundle.specs, bundle.series)
    BY <1>3 DEF _validate_bundle_segments
  <2>2. RangeFits(Ranges(bundle.specs)[k], bars_per_instrument(bundle.series))
    BY <1>1, <2>1, RangesFit
  <2>. QED  BY <2>2 DEF _segment_bar_ranges
<1>. QED  BY <1>2, <1>3

------------------------------------------------------------------------------
(* The bars of a window *)

\* A slice has the bars of its range.
Sliced(ds, bundle, range, symbols) ==
    /\ DatasetType(ds)
    /\ DOMAIN ds = symbols
    /\ \A u \in symbols : /\ Len(ds[u]) = range.last - range.first + 1
                          /\ \A i \in 1..(range.last - range.first + 1) :
                                /\ ds[u][i] = bundle.series[u][range.first + i - 1]
                                /\ range.first + i - 1 \in DOMAIN bundle.series[u]

\* A window's dataset is a dataset, whose days are the bundle's.
LEMMA SliceSays ==
    ASSUME NEW bundle, GoodBundle(bundle), NEW range, RangeFits(range, bars_per_instrument(bundle.series)),
           NEW symbols \in SUBSET DOMAIN bundle.series,
           NEW ds, ds = Slice(bundle, range, symbols)
    PROVE  Sliced(ds, bundle, range, symbols)
<1>1. DOMAIN ds = symbols /\ \A u \in symbols : ds[u] = SubSeq(bundle.series[u], range.first, range.last)
  BY DEF Slice
<1>2. Grid(bundle.series)
  BY BundleSays
<1>3. ASSUME NEW u \in symbols
      PROVE  /\ ds[u] \in Seq(BarType)
             /\ Len(ds[u]) = range.last - range.first + 1
             /\ \A i \in 1..(range.last - range.first + 1) :
                   /\ ds[u][i] = bundle.series[u][range.first + i - 1]
                   /\ range.first + i - 1 \in DOMAIN bundle.series[u]
  <2>1. bundle.series[u] \in Seq(BarType) /\ Len(bundle.series[u]) = bars_per_instrument(bundle.series)
    BY <1>2, GridSays
  <2>2. bars_per_instrument(bundle.series) \in Nat
    BY <1>2, GridSays
  <2>3. /\ range.first \in Nat /\ range.last \in Nat /\ 1 <= range.first /\ range.first <= range.last + 1
        /\ range.last <= Len(bundle.series[u])
    BY <2>1, <2>2, ChainAssumption, HorizonAssumption DEF RangeFits
  <2>4. PICK s, m, l : s = bundle.series[u] /\ m = range.first /\ l = range.last
    OBVIOUS
  <2>5. /\ SubSeq(s, m, l) \in Seq(BarType)
        /\ Len(SubSeq(s, m, l)) = l - m + 1
        /\ \A i \in 1..(l - m + 1) : SubSeq(s, m, l)[i] = s[m + i - 1] /\ m + i - 1 \in DOMAIN s
    BY <2>1, <2>3, <2>4, SliceOf
  <2>6. ds[u] = SubSeq(s, m, l)
    BY <1>1, <2>4
  <2>7. /\ ds[u] \in Seq(BarType)
        /\ Len(ds[u]) = l - m + 1
        /\ \A i \in 1..(l - m + 1) : ds[u][i] = s[m + i - 1] /\ m + i - 1 \in DOMAIN s
    BY <2>5, <2>6, Zenon
  <2>. QED  BY <2>4, <2>7, Zenon
<1>4. DatasetType(ds)
  <2>1. IsFiniteSet(symbols) /\ symbols \subseteq Nat
    <3>1. IsFiniteSet(DOMAIN bundle.series) /\ DOMAIN bundle.series \subseteq Nat
      BY <1>2 DEF Grid, DatasetType
    <3>. QED  BY <3>1, FS_Subset
  <2>. QED  BY <1>1, <1>3, <2>1 DEF DatasetType
<1>. QED  BY <1>1, <1>3, <1>4 DEF Sliced

\* Every instrument is on the same days.
LEMMA DaysSay ==
    ASSUME NEW bundle, GoodBundle(bundle), NEW u \in DOMAIN bundle.series, NEW i \in DOMAIN bundle.series[u]
    PROVE  /\ bundle.series[u][i].day = DayOf(bundle, i)
           /\ DayOf(bundle, i) \in Nat
           /\ \A j \in DOMAIN bundle.series[u] : i <= j => DayOf(bundle, i) <= DayOf(bundle, j)
<1>1. Grid(bundle.series)
  BY BundleSays
<1>2. PICK w : w = CHOOSE x \in DOMAIN bundle.series : TRUE
  OBVIOUS
<1>3. w \in DOMAIN bundle.series
  BY <1>2
<1>4. \A j : DayOf(bundle, j) = bundle.series[w][j].day
  BY <1>2 DEF DayOf
<1>5. PICK n : n = bars_per_instrument(bundle.series)
  OBVIOUS
<1>6. /\ n \in Nat /\ DOMAIN bundle.series[u] = 1..n /\ DOMAIN bundle.series[w] = 1..n
      /\ \A j \in 1..n : bundle.series[w][j].day \in Nat
      /\ \A j \in 1..n : bundle.series[w][j].day = bundle.series[u][j].day
  BY <1>1, <1>3, <1>5, GridSays
<1>7. ASSUME NEW j \in DOMAIN bundle.series[u], i <= j
      PROVE  DayOf(bundle, i) <= DayOf(bundle, j)
  <2>1. i \in DOMAIN bundle.series[w] /\ j \in DOMAIN bundle.series[w] /\ i \in Nat /\ j \in Nat
    BY <1>6
  <2>2. CASE i = j
    BY <1>4, <1>6, <2>1, <2>2
  <2>3. CASE i < j
    <3>1. bundle.series[w][i].day < bundle.series[w][j].day
      BY <1>1, <1>3, <2>1, <2>3, DaysIncrease
    <3>. QED  BY <1>4, <1>6, <2>1, <3>1
  <2>. QED  BY <1>7, <2>1, <2>2, <2>3
<1>. QED  BY <1>4, <1>6, <1>7

\* A trade of a window: its cutoff is in the scored bars, its exit in the
\* window.
WindowTrade(bundle, range, symbols, t) ==
    /\ t.symbol \in symbols
    /\ t.cutoff \in Nat /\ t.entry \in Nat /\ t.exit \in Nat
    /\ DayOf(bundle, range.first + ReferenceWindow) <= t.cutoff
    /\ t.entry <= t.exit /\ t.exit <= DayOf(bundle, range.last)
    /\ TradeCounts(t)

\* Every trade of a window's run starts and ends within the window.
LEMMA WindowTrades ==
    ASSUME NEW bundle, GoodBundle(bundle), NEW range, RangeFits(range, bars_per_instrument(bundle.series)),
           NEW symbols \in SUBSET DOMAIN bundle.series,
           NEW ds, ds = Slice(bundle, range, symbols), HistoricalDataset(ds),
           NEW trades, trades = TradesOf(ds), NEW k \in DOMAIN trades
    PROVE  WindowTrade(bundle, range, symbols, trades[k])
<1>1. PICK t : t = trades[k]
  OBVIOUS
<1>2. PICK n : n = range.last - range.first + 1
  OBVIOUS
<1>3. /\ Grid(ds) /\ DOMAIN ds = symbols
      /\ \A u \in symbols : /\ Len(ds[u]) = n
                            /\ \A i \in 1..n : /\ ds[u][i] = bundle.series[u][range.first + i - 1]
                                               /\ range.first + i - 1 \in DOMAIN bundle.series[u]
  <2>1. Sliced(ds, bundle, range, symbols)
    BY SliceSays
  <2>. QED  BY <1>2, <2>1 DEF Grid, Sliced
<1>4. PICK c \in evaluated_cutoffs(ds) : t \in TradesAt(ds, c)
  BY <1>1, <1>3, TradesSay
<1>5. TradeFits(ds, c, t)
  BY <1>3, <1>4, TradeSays
<1>6. PICK u : u = t.symbol
  OBVIOUS
<1>7. u \in symbols /\ u \in DOMAIN bundle.series /\ u \in DOMAIN ds
  BY <1>3, <1>5, <1>6 DEF TradeFits
<1>8. c \in Nat /\ c >= ReferenceWindow + 1 /\ c + Horizon <= n
  <2>1. bars_per_instrument(ds) = n
    BY <1>3, <1>7, GridSays
  <2>. QED  BY <1>3, <1>4, <2>1, Cutoffs
<1>9. /\ range.first \in Nat /\ range.last \in Nat /\ n \in Nat /\ range.first + n - 1 = range.last
      /\ ReferenceWindow \in Nat /\ Horizon \in Nat /\ ReferenceWindow >= 1 /\ Horizon >= 1
  BY <1>2, ChainAssumption, HorizonAssumption DEF RangeFits
<1>10. ASSUME NEW i \in 1..n
       PROVE  /\ ds[u][i].day = DayOf(bundle, range.first + i - 1)
              /\ range.first + i - 1 \in DOMAIN bundle.series[u]
              /\ DayOf(bundle, range.first + i - 1) \in Nat
  <2>1. ds[u][i] = bundle.series[u][range.first + i - 1] /\ range.first + i - 1 \in DOMAIN bundle.series[u]
    BY <1>3, <1>7
  <2>. QED  BY <1>7, <2>1, DaysSay
<1>11. ASSUME NEW i \in 1..n, NEW j \in 1..n, i <= j
       PROVE  ds[u][i].day <= ds[u][j].day
  <2>1. PICK a, b : a = range.first + i - 1 /\ b = range.first + j - 1
    OBVIOUS
  <2>2. a \in DOMAIN bundle.series[u] /\ b \in DOMAIN bundle.series[u] /\ a <= b
    <3>1. a <= b
      BY <1>9, <1>11, <2>1
    <3>2. a \in DOMAIN bundle.series[u]
      BY <1>10, <2>1
    <3>3. b \in DOMAIN bundle.series[u]
      BY <1>10, <2>1
    <3>. QED  BY <3>1, <3>2, <3>3
  <2>3. DayOf(bundle, a) <= DayOf(bundle, b)
    BY <1>7, <2>2, DaysSay
  <2>. QED  BY <1>10, <2>1, <2>3
<1>12. t.cutoff = ds[u][c].day
  BY <1>5, <1>6 DEF TradeFits
<1>13. t.exit = 0 \/ \E e \in (c + 1)..(c + Horizon) : t.exit = ds[u][e].day
  BY <1>5, <1>6 DEF TradeFits
<1>14. c \in 1..n /\ ReferenceWindow + 1 \in 1..n /\ ReferenceWindow + 1 <= c
       /\ n \in 1..n /\ \A e \in (c + 1)..(c + Horizon) : e \in 1..n /\ e <= n
  BY <1>8, <1>9
<1>15. DayOf(bundle, range.first + ReferenceWindow) <= t.cutoff /\ t.cutoff \in Nat
  <2>1. range.first + (ReferenceWindow + 1) - 1 = range.first + ReferenceWindow
    BY <1>9
  <2>2. ds[u][ReferenceWindow + 1].day = DayOf(bundle, range.first + ReferenceWindow)
    BY <1>10, <1>14, <2>1
  <2>3. ds[u][ReferenceWindow + 1].day <= ds[u][c].day
    BY <1>11, <1>14
  <2>4. ds[u][c].day \in Nat
    BY <1>10, <1>14
  <2>. QED  BY <1>12, <2>2, <2>3, <2>4
<1>16. t.exit \in Nat /\ t.exit <= DayOf(bundle, range.last)
  <2>1. ds[u][n].day = DayOf(bundle, range.last) /\ ds[u][n].day \in Nat
    BY <1>9, <1>10, <1>14
  <2>2. CASE t.exit = 0
    BY <2>1, <2>2
  <2>3. ASSUME NEW e \in (c + 1)..(c + Horizon), t.exit = ds[u][e].day
        PROVE  t.exit \in Nat /\ t.exit <= DayOf(bundle, range.last)
    <3>1. e \in 1..n /\ e <= n /\ n \in 1..n
      BY <1>14
    <3>2. ds[u][e].day <= ds[u][n].day /\ ds[u][e].day \in Nat
      BY <1>10, <1>11, <3>1
    <3>. QED  BY <2>1, <2>3, <3>2
  <2>. QED  BY <1>13, <2>2, <2>3
<1>17. t.entry \in Nat
  <2>1. t.entry = 0 \/ t.entry = ds[u][c + 1].day
    BY <1>5, <1>6 DEF TradeFits
  <2>2. c + 1 \in 1..n
    BY <1>8, <1>9
  <2>3. ds[u][c + 1].day \in Nat
    BY <1>10, <2>2
  <2>. QED  BY <2>1, <2>3
<1>18. TradeCounts(t)
  BY <1>3, <1>4, TradeIsCounted
<1>19. t.entry <= t.exit
  <2>1. \/ t.entry = 0 /\ t.exit = 0
        \/ t.entry = ds[u][c + 1].day /\ \E e \in (c + 1)..(c + Horizon) : t.exit = ds[u][e].day
    BY <1>5, <1>6 DEF TradeFits
  <2>2. ASSUME NEW e \in (c + 1)..(c + Horizon)  PROVE ds[u][c + 1].day <= ds[u][e].day
    <3>1. c + 1 \in 1..n /\ e \in 1..n /\ c + 1 <= e
      BY <1>8, <1>9, <1>14
    <3>. QED  BY <1>11, <3>1
  <2>. QED  BY <2>1, <2>2
<1>. QED  BY <1>1, <1>6, <1>7, <1>15, <1>16, <1>17, <1>18, <1>19 DEF WindowTrade

------------------------------------------------------------------------------
(* The invariant, of the tables d, the calls that are left t and the number  *)
(* of commands started n.  Rows counts a row from the moment a process means *)
(* to store it.                                                              *)

IsSeq(s) == \E T : s \in Seq(T)

RowsIn(calls, into) == {calls[i].row : i \in {j \in DOMAIN calls : calls[j].into = into}}

Rows(d, t, into) == d[into] \cup UNION {RowsIn(t[p], into) : p \in Procs}

StudyTables == {"validations", "robustness", "survivorship"}
Tables      == StudyTables \cup {"runs", "portfolios", "statistics"}

QueuesFit(d, t) == Tables \subseteq DOMAIN d /\ DOMAIN t = Procs /\ \A p \in Procs : IsSeq(t[p])

\* Runtime ids are those of the commands started, and tell the runs apart.
Begun(runtime, n) == \E m \in 1..n, place \in Nat : runtime = <<m, place>>

RunsOk(R, n) ==
    /\ \A r \in R : Begun(r.runtime, n)
    /\ \A r, q \in R : r.runtime = q.runtime => r = q

\* A window has the results of whatever run has its runtime id.
Copies(w, R) ==
    \A r \in R : r.runtime = w.runtime =>
        r.gov = w.gov /\ w.net = NetOf(r.trades) /\ w.executed = Cardinality(Executed(r.trades))

WindowOk(w, R, n) ==
    /\ w.gov = 0 => w.runtime = <<>> /\ w.net = 0 /\ w.executed = 0
    /\ w.gov # 0 => Begun(w.runtime, n)
    /\ Copies(w, R)

StudyOk(s, R, n) == \A k \in DOMAIN s.windows : WindowOk(s.windows[k], R, n)

\* A trade of a window of a survivorship-aware study.
TradeOk(s, w, t) ==
    /\ \E r \in Manifests[s.manifest].records :
          /\ r.status = "ACTIVE"
          /\ Masters[s.master][r.instrument] = t.symbol
          /\ r.from <= t.cutoff
          /\ w.start < r.to
    /\ t.exit <= w.end /\ t.exit \in Nat /\ t.entry \in Nat /\ t.entry <= t.exit
    /\ TradeCounts(t)

SurvivorRun(s, w, r) ==
    /\ r.of.symbols = {Masters[s.master][i] : i \in w.evaluated}
    /\ \E n \in Nat : DOMAIN r.trades = 1..n
    /\ \A i \in DOMAIN r.trades : TradeOk(s, w, r.trades[i])

SurvivorWindow(s, w, R) ==
    /\ w.end \in Nat /\ w.gov \in Nat
    /\ w.evaluated \subseteq DOMAIN Masters[s.master]
    /\ w.evaluated # {} => w.gov # 0
    /\ \A r \in R : r.runtime = w.runtime => SurvivorRun(s, w, r)

SurvivorshipOk(s, R) ==
    /\ \E m \in Nat \ {0} : DOMAIN s.windows = 1..m
    /\ \A k \in DOMAIN s.windows : SurvivorWindow(s, s.windows[k], R)
    /\ \A j, k \in DOMAIN s.windows : s.windows[j].gov = s.windows[k].gov /\ s.windows[k].gov # 0 => j = k
    /\ s.executed = ExecutedIn(s.windows) /\ s.net = NetIn(s.windows)

Cites(s, runs) ==
    \A k \in DOMAIN s.windows : s.windows[k].gov # 0 => \E r \in runs : r.runtime = s.windows[k].runtime

\* A portfolio report decides on the executed trades of its study's runs.
Decides(report, s, runs) ==
    /\ \A k \in DOMAIN s.windows : \A r \in runs : r.runtime = s.windows[k].runtime =>
          {d.trade : d \in {e \in Range(report.decisions) : e.window = s.windows[k].gov}}
            = {r.trades[i] : i \in Executed(r.trades)}
    /\ \A d \in Range(report.decisions) :
          \E k \in DOMAIN s.windows : \E r \in runs :
             r.runtime = s.windows[k].runtime /\ \E i \in DOMAIN r.trades : r.trades[i] = d.trade
    /\ Len(report.decisions) = s.executed

\* A portfolio report is within its policy, as PortfolioWithinPolicy says.
Within(report) ==
    LET policy == report.policy
        all == {i \in DOMAIN report.decisions : report.decisions[i].decision = "ALLOCATED"}
        affordable(i) == CashAt(report, i) >= Million * report.decisions[i].trade.risk
        room(i) == Cardinality(HeldAt(report, i)) < policy.concurrent
        excessive(i) == Million * (RiskOf(report, HeldAt(report, i)) + report.decisions[i].trade.risk)
                          > UtilizationLimit(policy)
    IN  /\ \A i \in DOMAIN report.decisions :
              report.decisions[i].decision
                = IF ~affordable(i) THEN "INSUFFICIENT_AVAILABLE_CAPITAL"
                  ELSE IF ~room(i) THEN "MAX_CONCURRENT_POSITIONS"
                  ELSE IF excessive(i) THEN "MAX_CAPITAL_UTILIZATION_EXCEEDED"
                  ELSE "ALLOCATED"
        /\ report.ending = policy.capital + GainOf(report, all)
        /\ report.peak <= policy.concurrent

PortfolioOk(report, d) ==
    /\ \E s \in d["survivorship"] : report.study = s.runtime /\ Decides(report, s, d["runs"])
    /\ Within(report)

StatisticsOk(report, d) ==
    \E s \in d["survivorship"] :
        report.study = s.runtime /\ report.net = _quantize(s.net) /\ report.trades = s.executed

StudiesOk(d, t, n) ==
    \A into \in StudyTables : \A s \in Rows(d, t, into) : StudyOk(s, Rows(d, t, "runs"), n)
SurvivorshipsOk(d, t) ==
    \A s \in Rows(d, t, "survivorship") : SurvivorshipOk(s, Rows(d, t, "runs"))
StudiesCite(d) == \A into \in StudyTables : \A s \in d[into] : Cites(s, d["runs"])
OneStudyEach(d) == \A s, q \in d["survivorship"] : s.runtime = q.runtime => s = q
PortfoliosOk(d, t) == \A report \in Rows(d, t, "portfolios") : PortfolioOk(report, d)
AllStatisticsOk(d, t) == \A report \in Rows(d, t, "statistics") : StatisticsOk(report, d)

InvOf(d, t, n) ==
    /\ n \in Nat
    /\ QueuesFit(d, t)
    /\ RunsOk(Rows(d, t, "runs"), n)
    /\ StudiesOk(d, t, n)
    /\ SurvivorshipsOk(d, t)
    /\ StudiesCite(d)
    /\ OneStudyEach(d)
    /\ PortfoliosOk(d, t)
    /\ AllStatisticsOk(d, t)

EvidenceInv == InvOf(db, todo, started)

------------------------------------------------------------------------------
(* Storing a row, and giving up *)

\* A process that takes its next call off its list has no other row to store.
LEMMA FewerCalls ==
    ASSUME NEW s, IsSeq(s), s # <<>>, NEW into
    PROVE  /\ IsSeq(Tail(s))
           /\ RowsIn(Tail(s), into) \subseteq RowsIn(s, into)
           /\ Head(s).into = into => Head(s).row \in RowsIn(s, into)
<1>1. PICK T : s \in Seq(T)
  BY DEF IsSeq
<1>2. Tail(s) \in Seq(T) /\ \A i \in DOMAIN Tail(s) : i + 1 \in DOMAIN s /\ Tail(s)[i] = s[i + 1]
  BY <1>1
<1>3. 1 \in DOMAIN s /\ Head(s) = s[1]
  BY <1>1
<1>4. RowsIn(Tail(s), into) \subseteq RowsIn(s, into)
  BY <1>2 DEF RowsIn
<1>. QED  BY <1>2, <1>3, <1>4 DEF RowsIn, IsSeq

\* A process with an empty list has nothing to store.
LEMMA NoCalls ==
    ASSUME NEW into
    PROVE  IsSeq(<<>>) /\ RowsIn(<<>>, into) = {}
<1>1. <<>> \in Seq({})
  OBVIOUS
<1>2. DOMAIN <<>> = {}
  OBVIOUS
<1>. QED  BY <1>1, <1>2 DEF IsSeq, RowsIn

\* A decision stays on the same trades when more runs are stored.
LEMMA DecidesStill ==
    ASSUME NEW report, NEW s, NEW runs, NEW more, runs \subseteq more, NEW n,
           RunsOk(more, n), StudyOk(s, more, n), Cites(s, runs), Decides(report, s, runs)
    PROVE  Decides(report, s, more)
<1>1. ASSUME NEW k \in DOMAIN s.windows, NEW r \in more, r.runtime = s.windows[k].runtime
      PROVE  r \in runs
  <2>1. CASE s.windows[k].gov = 0
    <3>1. s.windows[k].runtime = <<>>
      BY <2>1 DEF StudyOk, WindowOk
    <3>2. \A m, place : <<m, place>> # <<>>
      OBVIOUS
    <3>3. PICK m, place : r.runtime = <<m, place>>
      BY DEF RunsOk, Begun
    <3>. QED  BY <1>1, <3>1, <3>2, <3>3
  <2>2. CASE s.windows[k].gov # 0
    <3>1. PICK q \in runs : q.runtime = s.windows[k].runtime
      BY <2>2 DEF Cites
    <3>2. q = r
      BY <1>1, <3>1 DEF RunsOk
    <3>. QED  BY <3>1, <3>2
  <2>. QED  BY <2>1, <2>2
<1>2. ASSUME NEW k \in DOMAIN s.windows, NEW r \in more, r.runtime = s.windows[k].runtime
      PROVE  {d.trade : d \in {e \in Range(report.decisions) : e.window = s.windows[k].gov}}
               = {r.trades[i] : i \in Executed(r.trades)}
  BY <1>1, <1>2 DEF Decides
<1>3. ASSUME NEW d \in Range(report.decisions)
      PROVE  \E k \in DOMAIN s.windows : \E r \in more :
                r.runtime = s.windows[k].runtime /\ \E i \in DOMAIN r.trades : r.trades[i] = d.trade
  BY DEF Decides
<1>4. Len(report.decisions) = s.executed
  BY DEF Decides
<1>. QED  BY <1>2, <1>3, <1>4, Zenon DEF Decides

\* A step that begins nothing: no row is new, only stored.
LEMMA NothingNew ==
    ASSUME NEW d, NEW t, NEW n, InvOf(d, t, n), NEW e, NEW u, QueuesFit(e, u),
           \A into \in Tables : Rows(e, u, into) \subseteq Rows(d, t, into),
           d["runs"] \subseteq e["runs"], d["survivorship"] \subseteq e["survivorship"],
           StudiesCite(e), OneStudyEach(e)
    PROVE  InvOf(e, u, n)
<1>. DEFINE R == Rows(d, t, "runs")
            Q == Rows(e, u, "runs")
<1>1. Q \subseteq R
  BY DEF Tables
<1>2. RunsOk(Q, n)
  BY <1>1 DEF InvOf, RunsOk
<1>3. ASSUME NEW into \in StudyTables, NEW s \in Rows(e, u, into)
      PROVE  StudyOk(s, Q, n)
  <2>1. s \in Rows(d, t, into)
    BY DEF Tables
  <2>2. StudyOk(s, R, n)
    BY <2>1 DEF InvOf, StudiesOk
  <2>. HIDE DEF R, Q
  <2>. QED  BY <1>1, <2>2 DEF StudyOk, WindowOk, Copies
<1>4. ASSUME NEW s \in Rows(e, u, "survivorship")
      PROVE  SurvivorshipOk(s, Q)
  <2>1. s \in Rows(d, t, "survivorship")
    BY DEF Tables, StudyTables
  <2>2. SurvivorshipOk(s, R)
    BY <2>1 DEF InvOf, SurvivorshipsOk
  <2>. HIDE DEF R, Q
  <2>3. \A k \in DOMAIN s.windows : SurvivorWindow(s, s.windows[k], Q)
    BY <1>1, <2>2 DEF SurvivorshipOk, SurvivorWindow
  <2>. QED  BY <2>2, <2>3 DEF SurvivorshipOk
<1>5. ASSUME NEW report \in Rows(e, u, "portfolios")
      PROVE  PortfolioOk(report, e)
  <2>1. report \in Rows(d, t, "portfolios")
    BY DEF Tables
  <2>2. PICK s \in d["survivorship"] : report.study = s.runtime /\ Decides(report, s, d["runs"])
    BY <2>1 DEF InvOf, PortfoliosOk, PortfolioOk
  <2>3. Cites(s, d["runs"])
    BY DEF InvOf, StudiesCite, StudyTables
  <2>4. s \in e["survivorship"] /\ s \in Rows(e, u, "survivorship")
    BY DEF Rows
  <2>5. StudyOk(s, Q, n)
    BY <1>3, <2>4 DEF StudyTables
  <2>6. e["runs"] \subseteq Q
    BY DEF Rows
  <2>. HIDE DEF Q
  <2>7. RunsOk(e["runs"], n) /\ StudyOk(s, e["runs"], n)
    BY <1>2, <2>5, <2>6 DEF RunsOk, StudyOk, WindowOk, Copies
  <2>8. Decides(report, s, e["runs"])
    BY <2>2, <2>3, <2>7, DecidesStill
  <2>9. Within(report)
    BY <2>1 DEF InvOf, PortfoliosOk, PortfolioOk
  <2>. QED  BY <2>2, <2>4, <2>8, <2>9 DEF PortfolioOk
<1>6. AllStatisticsOk(e, u)
  <2>1. Rows(e, u, "statistics") \subseteq Rows(d, t, "statistics")
    BY DEF Tables
  <2>. QED  BY <2>1 DEF InvOf, AllStatisticsOk, StatisticsOk
<1>. HIDE DEF R
<1>. QED  BY <1>2, <1>3, <1>4, <1>5, <1>6 DEF InvOf, StudiesOk, SurvivorshipsOk, PortfoliosOk

\* The rows of a process that has taken its next call off its list, or has
\* given up.
LEMMA OneCallLess ==
    ASSUME NEW d, NEW t, QueuesFit(d, t), NEW p \in Procs, t[p] # <<>>, NEW u,
           u = [t EXCEPT ![p] = Tail(t[p])] \/ u = [t EXCEPT ![p] = <<>>]
    PROVE  /\ DOMAIN u = Procs /\ \A q \in Procs : IsSeq(u[q])
           /\ \A into : \A q \in Procs : RowsIn(u[q], into) \subseteq RowsIn(t[q], into)
<1>1. DOMAIN t = Procs /\ \A q \in Procs : IsSeq(t[q])
  BY DEF QueuesFit
<1>2. u[p] = Tail(t[p]) \/ u[p] = <<>>
  BY <1>1
<1>3. DOMAIN u = Procs /\ \A q \in Procs : q # p => u[q] = t[q]
  BY <1>1
<1>4. IsSeq(u[p]) /\ \A into : RowsIn(u[p], into) \subseteq RowsIn(t[p], into)
  <2>1. CASE u[p] = Tail(t[p])
    BY <1>1, <2>1, FewerCalls
  <2>2. CASE u[p] = <<>>
    BY <2>2, NoCalls
  <2>. QED  BY <1>2, <2>1, <2>2
<1>. QED  BY <1>1, <1>3, <1>4

\* A step that leaves the tables of studies and reports alone.
LEMMA OtherStep ==
    ASSUME NEW d, NEW t, NEW n, InvOf(d, t, n), NEW p \in Procs, t[p] # <<>>, NEW u,
           u = [t EXCEPT ![p] = Tail(t[p])] \/ u = [t EXCEPT ![p] = <<>>],
           NEW e, Tables \subseteq DOMAIN e, \A into \in Tables : e[into] = d[into]
    PROVE  InvOf(e, u, n)
<1>1. QueuesFit(d, t)
  BY DEF InvOf
<1>2. /\ QueuesFit(e, u)
      /\ \A into : \A q \in Procs : RowsIn(u[q], into) \subseteq RowsIn(t[q], into)
  BY <1>1, OneCallLess DEF QueuesFit
<1>3. ASSUME NEW into \in Tables
      PROVE  Rows(e, u, into) \subseteq Rows(d, t, into)
  BY <1>2 DEF Rows
<1>4. /\ e["runs"] = d["runs"] /\ e["survivorship"] = d["survivorship"]
      /\ e["validations"] = d["validations"] /\ e["robustness"] = d["robustness"]
  BY DEF Tables, StudyTables
<1>5. StudiesCite(e) /\ OneStudyEach(e)
  <2>1. StudiesCite(d) /\ OneStudyEach(d)
    BY DEF InvOf
  <2>. QED  BY <1>4, <2>1 DEF StudiesCite, OneStudyEach, StudyTables
<1>. QED  BY <1>2, <1>3, <1>4, <1>5, NothingNew

\* What a table of studies asks of a row.
Fitting(table, row, d) ==
    /\ table \in StudyTables => Cites(row, d["runs"])
    /\ table = "survivorship" => \A s \in d["survivorship"] : s.runtime # row.runtime

\* A step that stores the row of the next call.
LEMMA StoreStep ==
    ASSUME NEW d, NEW t, NEW n, InvOf(d, t, n), NEW p \in Procs, t[p] # <<>>,
           NEW u, u = [t EXCEPT ![p] = Tail(t[p])],
           NEW table \in Tables, Head(t[p]).into = table, NEW row, row = Head(t[p]).row,
           NEW e, e = [d EXCEPT ![table] = d[table] \cup {row}],
           Fitting(table, row, d)
    PROVE  InvOf(e, u, n)
<1>1. QueuesFit(d, t)
  BY DEF InvOf
<1>2. /\ DOMAIN u = Procs /\ \A q \in Procs : IsSeq(u[q])
      /\ \A into : \A q \in Procs : RowsIn(u[q], into) \subseteq RowsIn(t[q], into)
  BY <1>1, OneCallLess
<1>3. DOMAIN e = DOMAIN d /\ e[table] = d[table] \cup {row} /\ \A into \in Tables : into # table => e[into] = d[into]
  BY <1>1 DEF QueuesFit
<1>4. QueuesFit(e, u)
  BY <1>1, <1>2, <1>3 DEF QueuesFit
<1>5. row \in RowsIn(t[p], table)
  BY <1>1, FewerCalls DEF QueuesFit
<1>6. ASSUME NEW into \in Tables
      PROVE  Rows(e, u, into) \subseteq Rows(d, t, into)
  <2>1. UNION {RowsIn(u[q], into) : q \in Procs} \subseteq UNION {RowsIn(t[q], into) : q \in Procs}
    BY <1>2
  <2>2. e[into] \subseteq d[into] \cup UNION {RowsIn(t[q], into) : q \in Procs}
    BY <1>3, <1>5
  <2>. QED  BY <2>1, <2>2 DEF Rows
<1>7. \A into \in Tables : d[into] \subseteq e[into]
  BY <1>3
<1>8. d["runs"] \subseteq e["runs"] /\ d["survivorship"] \subseteq e["survivorship"]
  BY <1>7 DEF Tables, StudyTables
<1>9. StudiesCite(e)
  <2>1. ASSUME NEW into \in StudyTables, NEW s \in e[into]
        PROVE  Cites(s, e["runs"])
    <3>1. s \in d[into] \/ (into = table /\ s = row)
      BY <1>3 DEF Tables
    <3>2. Cites(s, d["runs"])
      BY <3>1 DEF InvOf, StudiesCite, Fitting
    <3>. QED  BY <1>8, <3>2 DEF Cites
  <2>. QED  BY <2>1 DEF StudiesCite
<1>10. OneStudyEach(e)
  <2>1. OneStudyEach(d)
    BY DEF InvOf
  <2>2. CASE table = "survivorship"
    BY <1>3, <2>1, <2>2 DEF OneStudyEach, Fitting
  <2>3. CASE table # "survivorship"
    BY <1>3, <2>1, <2>3 DEF OneStudyEach, Tables, StudyTables
  <2>. QED  BY <2>2, <2>3
<1>. QED  BY <1>4, <1>6, <1>8, <1>9, <1>10, NothingNew

\* The calls that add one row to a table of studies or reports.
LEMMA InsertStep ==
    ASSUME EvidenceInv, NEW p \in Procs, NEW table \in Tables, Next1(p, table), NEW ok \in BOOLEAN,
           Goes(p, ok), db' = IF ok THEN [db EXCEPT ![table] = @ \cup {RowOf(p)}] ELSE db,
           UNCHANGED <<files, started>>, ok => Fitting(table, RowOf(p), db)
    PROVE  EvidenceInv'
<1>1. PICK d, t, n : d = db /\ t = todo /\ n = started
  OBVIOUS
<1>2. PICK e, u : e = db' /\ u = todo'
  OBVIOUS
<1>3. InvOf(d, t, n) /\ t[p] # <<>> /\ Head(t[p]).into = table
  BY <1>1 DEF EvidenceInv, Next1
<1>4. PICK row : row = Head(t[p]).row
  OBVIOUS
<1>5. CASE ok
  <2>1. u = [t EXCEPT ![p] = Tail(t[p])]
    BY <1>1, <1>2, <1>5 DEF Goes
  <2>2. e = [d EXCEPT ![table] = d[table] \cup {row}]
    BY <1>1, <1>2, <1>4, <1>5 DEF RowOf
  <2>3. Fitting(table, row, d)
    BY <1>1, <1>4, <1>5 DEF RowOf
  <2>4. InvOf(e, u, n)
    BY <1>3, <1>4, <2>1, <2>2, <2>3, StoreStep
  <2>. QED  BY <1>1, <1>2, <2>4 DEF EvidenceInv
<1>6. CASE ~ok
  <2>1. u = [t EXCEPT ![p] = <<>>]
    BY <1>1, <1>2, <1>6 DEF Goes
  <2>2. e = d /\ Tables \subseteq DOMAIN d
    BY <1>1, <1>2, <1>3, <1>6 DEF InvOf, QueuesFit
  <2>3. InvOf(e, u, n)
    BY <1>3, <2>1, <2>2, OtherStep
  <2>. QED  BY <1>1, <1>2, <2>3 DEF EvidenceInv
<1>. QED  BY <1>5, <1>6

\* The calls whose tables have nothing to do with studies and reports, a check
\* that fails, and a crash.
LEMMA PlainStep ==
    ASSUME EvidenceInv, NEW p \in Procs, todo[p] # <<>>, NEW ok \in BOOLEAN, Goes(p, ok),
           started' = started,
           Tables \subseteq DOMAIN db', \A into \in Tables : db'[into] = db[into]
    PROVE  EvidenceInv'
<1>1. PICK d, t, n : d = db /\ t = todo /\ n = started
  OBVIOUS
<1>2. PICK e, u : e = db' /\ u = todo'
  OBVIOUS
<1>3. InvOf(d, t, n) /\ t[p] # <<>>
  BY <1>1 DEF EvidenceInv
<1>4. u = [t EXCEPT ![p] = Tail(t[p])] \/ u = [t EXCEPT ![p] = <<>>]
  BY <1>1, <1>2 DEF Goes
<1>5. Tables \subseteq DOMAIN e /\ \A into \in Tables : e[into] = d[into]
  BY <1>1, <1>2
<1>6. InvOf(e, u, n)
  BY <1>3, <1>4, <1>5, OtherStep
<1>. QED  BY <1>1, <1>2, <1>6 DEF EvidenceInv

\* A constraint of a table holds or it does not.
LEMMA TablesAre ==
    /\ Tables = {"validations", "robustness", "survivorship", "runs", "portfolios", "statistics"}
    /\ \A s : CitesRuns(s) => Cites(s, db.runs)
  BY DEF Tables, StudyTables, CitesRuns, Cites

\* A call that stores a run, a study or a report on one keeps the invariant,
\* whether its constraints hold or it raises.
LEMMA StudyCalls ==
    ASSUME EvidenceInv, NEW p \in Procs,
           \/ AddBacktestRun(p) \/ AddValidationStudy(p) \/ AddRobustnessStudy(p)
           \/ AddSurvivorshipStudy(p) \/ AddPortfolioReport(p) \/ AddStatistics(p)
    PROVE  EvidenceInv'
<1>1. CASE AddBacktestRun(p)
  <2>1. PICK ok \in BOOLEAN : ok <=> historical_backtest_run(RowOf(p))
    OBVIOUS
  <2>2. /\ Next1(p, "runs") /\ Goes(p, ok) /\ UNCHANGED <<files, started>>
        /\ db' = IF ok THEN [db EXCEPT !["runs"] = @ \cup {RowOf(p)}] ELSE db
    BY <1>1, <2>1 DEF AddBacktestRun, AddRow, Goes
  <2>3. "runs" \in Tables /\ Fitting("runs", RowOf(p), db)
    BY DEF Tables, StudyTables, Fitting
  <2>. QED  BY <2>2, <2>3, InsertStep
<1>2. CASE AddValidationStudy(p)
  <2>1. PICK ok \in BOOLEAN : ok <=> validation_study(RowOf(p))
    OBVIOUS
  <2>2. /\ Next1(p, "validations") /\ Goes(p, ok) /\ UNCHANGED <<files, started>>
        /\ db' = IF ok THEN [db EXCEPT !["validations"] = @ \cup {RowOf(p)}] ELSE db
    BY <1>2, <2>1 DEF AddValidationStudy, AddRow, Goes
  <2>3. "validations" \in Tables /\ (ok => Fitting("validations", RowOf(p), db))
    BY <2>1, TablesAre DEF validation_study, Tables, StudyTables, Fitting
  <2>. QED  BY <2>2, <2>3, InsertStep
<1>3. CASE AddRobustnessStudy(p)
  <2>1. PICK ok \in BOOLEAN : ok <=> robustness_study(RowOf(p))
    OBVIOUS
  <2>2. /\ Next1(p, "robustness") /\ Goes(p, ok) /\ UNCHANGED <<files, started>>
        /\ db' = IF ok THEN [db EXCEPT !["robustness"] = @ \cup {RowOf(p)}] ELSE db
    BY <1>3, <2>1 DEF AddRobustnessStudy, AddRow, Goes
  <2>3. "robustness" \in Tables /\ (ok => Fitting("robustness", RowOf(p), db))
    BY <2>1, TablesAre DEF robustness_study, Tables, StudyTables, Fitting
  <2>. QED  BY <2>2, <2>3, InsertStep
<1>4. CASE AddSurvivorshipStudy(p)
  <2>1. PICK ok \in BOOLEAN : ok <=> survivorship_study(RowOf(p))
    OBVIOUS
  <2>2. /\ Next1(p, "survivorship") /\ Goes(p, ok) /\ UNCHANGED <<files, started>>
        /\ db' = IF ok THEN [db EXCEPT !["survivorship"] = @ \cup {RowOf(p)}] ELSE db
    BY <1>4, <2>1 DEF AddSurvivorshipStudy, AddRow, Goes
  <2>3. "survivorship" \in Tables /\ (ok => Fitting("survivorship", RowOf(p), db))
    BY <2>1, TablesAre DEF survivorship_study, Unique, Tables, StudyTables, Fitting
  <2>. QED  BY <2>2, <2>3, InsertStep
<1>5. CASE AddPortfolioReport(p)
  <2>1. PICK ok \in BOOLEAN : ok <=> portfolio_study(RowOf(p))
    OBVIOUS
  <2>2. /\ Next1(p, "portfolios") /\ Goes(p, ok) /\ UNCHANGED <<files, started>>
        /\ db' = IF ok THEN [db EXCEPT !["portfolios"] = @ \cup {RowOf(p)}] ELSE db
    BY <1>5, <2>1 DEF AddPortfolioReport, AddRow, Goes
  <2>3. "portfolios" \in Tables /\ Fitting("portfolios", RowOf(p), db)
    BY DEF Tables, StudyTables, Fitting
  <2>. QED  BY <2>2, <2>3, InsertStep
<1>6. CASE AddStatistics(p)
  <2>1. PICK ok \in BOOLEAN : ok <=> statistical_evidence_report(RowOf(p))
    OBVIOUS
  <2>2. /\ Next1(p, "statistics") /\ Goes(p, ok) /\ UNCHANGED <<files, started>>
        /\ db' = IF ok THEN [db EXCEPT !["statistics"] = @ \cup {RowOf(p)}] ELSE db
    BY <1>6, <2>1 DEF AddStatistics, AddRow, Goes
  <2>3. "statistics" \in Tables /\ Fitting("statistics", RowOf(p), db)
    BY DEF Tables, StudyTables, Fitting
  <2>. QED  BY <2>2, <2>3, InsertStep
<1>. QED  BY <1>1, <1>2, <1>3, <1>4, <1>5, <1>6

\* A call that stores anything else, a failure and a crash keep it too.
LEMMA OtherCalls ==
    ASSUME EvidenceInv, NEW p \in Procs,
           \/ AddDependenceReport(p) \/ AddSnapshot(p) \/ AddStress(p) \/ AddCorporateActions(p)
           \/ AddInstruments(p) \/ AddUniverse(p) \/ AddMembership(p) \/ WriteArtifact(p)
           \/ Raise(p) \/ Crash(p)
    PROVE  EvidenceInv'
<1>1. Tables \subseteq DOMAIN db
  BY DEF EvidenceInv, InvOf, QueuesFit
<1>2. ASSUME NEW table, table \notin Tables, NEW content,
             db' = [db EXCEPT ![table] = content] \/ db' = db
      PROVE  Tables \subseteq DOMAIN db' /\ \A into \in Tables : db'[into] = db[into]
  BY <1>1, <1>2
<1>3. \A table \in {"dependences", "snapshots", "stresses", "actions", "instruments", "universes", "memberships"} :
         table \notin Tables
  BY DEF Tables, StudyTables
<1>4. /\ todo[p] # <<>> /\ started' = started
      /\ \E ok \in BOOLEAN : Goes(p, ok)
  <2>1. Crash(p) => Goes(p, FALSE) /\ todo[p] # <<>> /\ started' = started
    BY DEF Crash, Goes
  <2>2. ~Crash(p) => todo[p] # <<>> /\ started' = started
    BY DEF AddDependenceReport, AddSnapshot, AddStress, AddCorporateActions, AddInstruments, AddUniverse,
           AddMembership, WriteArtifact, Raise, AddRow, Next1
  <2>3. ~Crash(p) => \E ok \in BOOLEAN : Goes(p, ok)
    <3>1. \A ok : Goes(p, ok) => Goes(p, TRUE) \/ Goes(p, FALSE)
      BY DEF Goes
    <3>2. ~Crash(p) => \E ok : Goes(p, ok)
      BY DEF AddDependenceReport, AddSnapshot, AddStress, AddCorporateActions, AddInstruments, AddUniverse,
             AddMembership, WriteArtifact, Raise, AddRow
    <3>. QED  BY <3>1, <3>2
  <2>. QED  BY <2>1, <2>2, <2>3
<1>5. \/ db' = db
      \/ \E table \in {"dependences", "snapshots", "stresses", "actions", "instruments", "universes", "memberships"} :
            \E content : db' = [db EXCEPT ![table] = content]
  <2>1. AddDependenceReport(p) => db' = db \/ \E content : db' = [db EXCEPT !["dependences"] = content]
    BY DEF AddDependenceReport, AddRow
  <2>2. AddSnapshot(p) => db' = db \/ \E content : db' = [db EXCEPT !["snapshots"] = content]
    BY DEF AddSnapshot, AddRow
  <2>3. AddStress(p) => db' = db \/ \E content : db' = [db EXCEPT !["stresses"] = content]
    BY DEF AddStress, AddRow
  <2>4. AddCorporateActions(p) => db' = db \/ \E content : db' = [db EXCEPT !["actions"] = content]
    BY DEF AddCorporateActions
  <2>5. AddInstruments(p) => db' = db \/ \E content : db' = [db EXCEPT !["instruments"] = content]
    BY DEF AddInstruments
  <2>6. AddUniverse(p) => db' = db \/ \E content : db' = [db EXCEPT !["universes"] = content]
    BY DEF AddUniverse
  <2>7. AddMembership(p) => db' = db \/ \E content : db' = [db EXCEPT !["memberships"] = content]
    BY DEF AddMembership
  <2>8. WriteArtifact(p) \/ Raise(p) \/ Crash(p) => db' = db
    BY DEF WriteArtifact, Raise, Crash
  <2>. QED  BY <2>1, <2>2, <2>3, <2>4, <2>5, <2>6, <2>7, <2>8
<1>6. Tables \subseteq DOMAIN db' /\ \A into \in Tables : db'[into] = db[into]
  <2>1. CASE db' = db
    BY <1>1, <2>1
  <2>2. CASE \E table \in {"dependences", "snapshots", "stresses", "actions", "instruments", "universes", "memberships"} :
               \E content : db' = [db EXCEPT ![table] = content]
    BY <1>2, <1>3, <2>2
  <2>. QED  BY <1>5, <2>1, <2>2
<1>. QED  BY <1>4, <1>6, PlainStep

------------------------------------------------------------------------------
(* Starting a command *)

At(runtime, n) == \E place \in Nat : runtime = <<n, place>>

NewRuns(R, n) ==
    /\ \A r \in R : At(r.runtime, n)
    /\ \A r, q \in R : r.runtime = q.runtime => r = q

NewWindow(w, R, n) ==
    /\ w.gov = 0 => w.runtime = <<>> /\ w.net = 0 /\ w.executed = 0
    /\ w.gov # 0 => At(w.runtime, n)
    /\ Copies(w, R)

NewStudy(s, R, n) == \A k \in DOMAIN s.windows : NewWindow(s.windows[k], R, n)

\* What the n-th command means to store.
New(calls, d, n) ==
    /\ IsSeq(calls)
    /\ NewRuns(RowsIn(calls, "runs"), n)
    /\ \A into \in StudyTables : \A s \in RowsIn(calls, into) : NewStudy(s, RowsIn(calls, "runs"), n)
    /\ \A s \in RowsIn(calls, "survivorship") : SurvivorshipOk(s, RowsIn(calls, "runs"))
    /\ \A report \in RowsIn(calls, "portfolios") : PortfolioOk(report, d)
    /\ \A report \in RowsIn(calls, "statistics") : StatisticsOk(report, d)

\* A runtime id of an earlier start is none of the next one's.
LEMMA FreshIsNotNext ==
    ASSUME NEW n \in Nat, NEW a, Begun(a, n)
    PROVE  ~At(a, n + 1) /\ Begun(a, n + 1) /\ a # <<>>
<1>1. PICK m \in 1..n, place \in Nat : a = <<m, place>>
  BY DEF Begun
<1>2. m \in 1..(n + 1) /\ m # n + 1
  BY <1>1
<1>. QED  BY <1>1, <1>2 DEF At, Begun

\* A runtime id of the next start has then been given out.
LEMMA NextIsFresh ==
    ASSUME NEW n \in Nat, NEW a, At(a, n + 1)
    PROVE  Begun(a, n + 1) /\ a # <<>>
<1>1. PICK place \in Nat : a = <<n + 1, place>>
  BY DEF At
<1>2. n + 1 \in 1..(n + 1)
  OBVIOUS
<1>. QED  BY <1>1, <1>2 DEF Begun

\* A command whose calls are in order keeps the invariant.
LEMMA BeginStep ==
    ASSUME NEW d, NEW t, NEW n, InvOf(d, t, n), NEW p \in Procs, NEW calls, New(calls, d, n + 1),
           NEW u, u = [t EXCEPT ![p] = calls]
    PROVE  InvOf(d, u, n + 1)
<1>. DEFINE old(into) == Rows(d, t, into)
            new(into) == RowsIn(calls, into)
            R == Rows(d, u, "runs")
<1>1. n \in Nat /\ n + 1 \in Nat /\ QueuesFit(d, t)
  BY DEF InvOf
<1>2. QueuesFit(d, u)
  BY <1>1 DEF QueuesFit, New
<1>3. \A into : Rows(d, u, into) \subseteq old(into) \cup new(into)
  BY <1>1 DEF QueuesFit, Rows
<1>4. R \subseteq old("runs") \cup new("runs")
  BY <1>3
<1>5. /\ \A r \in old("runs") : Begun(r.runtime, n)
      /\ \A r, q \in old("runs") : r.runtime = q.runtime => r = q
  BY DEF InvOf, RunsOk
<1>6. /\ \A r \in new("runs") : At(r.runtime, n + 1)
      /\ \A r, q \in new("runs") : r.runtime = q.runtime => r = q
  BY DEF New, NewRuns
<1>. HIDE DEF old, new, R
<1>7. RunsOk(R, n + 1)
  <2>1. \A r \in R : Begun(r.runtime, n + 1)
    BY <1>1, <1>4, <1>5, <1>6, FreshIsNotNext, NextIsFresh
  <2>2. ASSUME NEW r \in R, NEW q \in R, r.runtime = q.runtime  PROVE r = q
    <3>1. CASE r \in old("runs") /\ q \in old("runs")
      BY <1>5, <2>2, <3>1
    <3>2. CASE r \in new("runs") /\ q \in new("runs")
      BY <1>6, <2>2, <3>2
    <3>3. CASE r \in old("runs") /\ q \in new("runs")
      BY <1>1, <1>5, <1>6, <2>2, <3>3, FreshIsNotNext
    <3>4. CASE r \in new("runs") /\ q \in old("runs")
      BY <1>1, <1>5, <1>6, <2>2, <3>4, FreshIsNotNext
    <3>. QED  BY <1>4, <3>1, <3>2, <3>3, <3>4
  <2>. QED  BY <2>1, <2>2 DEF RunsOk
\* Windows of old studies match old runs only, and those of new ones new runs.
<1>8. ASSUME NEW w, WindowOk(w, old("runs"), n)
      PROVE  WindowOk(w, R, n + 1) /\ \A r \in R : r.runtime = w.runtime => r \in old("runs")
  <2>1. ASSUME NEW r \in new("runs")  PROVE r.runtime # w.runtime
    <3>1. At(r.runtime, n + 1)
      BY <1>6
    <3>2. w.runtime = <<>> \/ Begun(w.runtime, n)
      BY <1>8 DEF WindowOk
    <3>. QED  BY <1>1, <3>1, <3>2, FreshIsNotNext, NextIsFresh
  <2>2. w.gov # 0 => Begun(w.runtime, n + 1)
    BY <1>1, <1>8, FreshIsNotNext DEF WindowOk
  <2>3. \A r \in R : r.runtime = w.runtime => r \in old("runs")
    BY <1>4, <2>1
  <2>4. Copies(w, R)
    BY <1>8, <2>3 DEF WindowOk, Copies
  <2>. QED  BY <1>8, <2>2, <2>3, <2>4 DEF WindowOk
<1>9. ASSUME NEW w, NewWindow(w, new("runs"), n + 1)
      PROVE  WindowOk(w, R, n + 1) /\ \A r \in R : r.runtime = w.runtime => r \in new("runs")
  <2>1. ASSUME NEW r \in old("runs")  PROVE r.runtime # w.runtime
    <3>1. Begun(r.runtime, n)
      BY <1>5
    <3>2. w.runtime = <<>> \/ At(w.runtime, n + 1)
      BY <1>9 DEF NewWindow
    <3>. QED  BY <1>1, <3>1, <3>2, FreshIsNotNext
  <2>2. w.gov # 0 => Begun(w.runtime, n + 1)
    BY <1>1, <1>9, NextIsFresh DEF NewWindow
  <2>3. \A r \in R : r.runtime = w.runtime => r \in new("runs")
    BY <1>4, <2>1
  <2>4. Copies(w, R)
    BY <1>9, <2>3 DEF NewWindow, Copies
  <2>. QED  BY <1>9, <2>2, <2>3, <2>4 DEF WindowOk, NewWindow
<1>10. ASSUME NEW into \in StudyTables, NEW s \in Rows(d, u, into)
       PROVE  StudyOk(s, R, n + 1)
  <2>1. CASE s \in old(into)
    <3>1. StudyOk(s, old("runs"), n)
      BY <2>1 DEF InvOf, StudiesOk, old
    <3>. QED  BY <1>8, <3>1 DEF StudyOk
  <2>2. CASE s \in new(into)
    <3>1. NewStudy(s, new("runs"), n + 1)
      BY <2>2 DEF New, new
    <3>. QED  BY <1>9, <3>1 DEF StudyOk, NewStudy
  <2>. QED  BY <1>3, <2>1, <2>2
<1>11. ASSUME NEW s \in Rows(d, u, "survivorship")
       PROVE  SurvivorshipOk(s, R)
  <2>0. "survivorship" \in StudyTables
    BY DEF StudyTables
  <2>1. CASE s \in old("survivorship")
    <3>1. SurvivorshipOk(s, old("runs"))
      BY <2>1 DEF InvOf, SurvivorshipsOk, old
    <3>2. \A k \in DOMAIN s.windows : WindowOk(s.windows[k], old("runs"), n)
      BY <2>0, <2>1 DEF InvOf, StudiesOk, StudyOk, old
    <3>3. \A k \in DOMAIN s.windows : SurvivorWindow(s, s.windows[k], R)
      BY <1>8, <3>1, <3>2 DEF SurvivorshipOk, SurvivorWindow
    <3>. QED  BY <3>1, <3>3 DEF SurvivorshipOk
  <2>2. CASE s \in new("survivorship")
    <3>1. SurvivorshipOk(s, new("runs"))
      BY <2>2 DEF New, new
    <3>2. \A k \in DOMAIN s.windows : NewWindow(s.windows[k], new("runs"), n + 1)
      BY <2>0, <2>2 DEF New, NewStudy, new
    <3>3. \A k \in DOMAIN s.windows : SurvivorWindow(s, s.windows[k], R)
      BY <1>9, <3>1, <3>2 DEF SurvivorshipOk, SurvivorWindow
    <3>. QED  BY <3>1, <3>3 DEF SurvivorshipOk
  <2>. QED  BY <1>3, <2>1, <2>2
<1>12. ASSUME NEW report \in Rows(d, u, "portfolios")
       PROVE  PortfolioOk(report, d)
  BY <1>3 DEF InvOf, PortfoliosOk, New, old, new
<1>13. StudiesCite(d) /\ OneStudyEach(d)
  BY DEF InvOf
<1>14. AllStatisticsOk(d, u)
  BY <1>3 DEF InvOf, AllStatisticsOk, New, old, new
<1>. QED  BY <1>1, <1>2, <1>7, <1>10, <1>11, <1>12, <1>13, <1>14 DEF InvOf, StudiesOk, SurvivorshipsOk, PortfoliosOk, R

\* The same, of a step.
LEMMA Begins ==
    ASSUME EvidenceInv, NEW p \in Procs, NEW calls, New(calls, db, started + 1), Begin(p, calls)
    PROVE  EvidenceInv'
<1>1. PICK d, t, n : d = db /\ t = todo /\ n = started
  OBVIOUS
<1>2. PICK u : u = todo'
  OBVIOUS
<1>3. InvOf(d, t, n) /\ New(calls, d, n + 1) /\ u = [t EXCEPT ![p] = calls]
  BY <1>1, <1>2 DEF EvidenceInv, Begin
<1>4. InvOf(d, u, n + 1)
  BY <1>3, BeginStep
<1>5. db' = d /\ started' = n + 1
  BY <1>1 DEF Begin
<1>. QED  BY <1>2, <1>4, <1>5 DEF EvidenceInv

------------------------------------------------------------------------------
(* Lists of calls *)

\* A function on 1..n is a sequence.
LEMMA ListSays ==
    ASSUME NEW s, NEW n \in Nat, NEW e, s = [i \in 1..n |-> e[i]]
    PROVE  IsSeq(s) /\ Len(s) = n
<1>. DEFINE T == {e[i] : i \in 1..n}
<1>2. s \in [1..n -> T]
  OBVIOUS
<1>. HIDE DEF T
<1>3. s \in Seq(T) /\ Len(s) = n
  BY <1>2
<1>4. IsSeq(s)
  BY <1>3, Zenon DEF IsSeq
<1>. QED  BY <1>3, <1>4

\* The rows of a list with one more call.
LEMMA RowsAppended ==
    ASSUME NEW s, IsSeq(s), NEW c
    PROVE  /\ IsSeq(Append(s, c))
           /\ \A into : RowsIn(Append(s, c), into) = RowsIn(s, into) \cup (IF c.into = into THEN {c.row} ELSE {})
<1>1. PICK S : s \in Seq(S)
  BY DEF IsSeq
<1>2. s \in Seq(S \cup {c})
  BY <1>1
<1>3. PICK a : a = Append(s, c)
  OBVIOUS
<1>4. /\ a \in Seq(S \cup {c})
      /\ DOMAIN a = DOMAIN s \cup {Len(s) + 1} /\ Len(s) + 1 \notin DOMAIN s
      /\ a[Len(s) + 1] = c /\ \A i \in DOMAIN s : a[i] = s[i]
  BY <1>2, <1>3
<1>5. ASSUME NEW into
      PROVE  RowsIn(a, into) = RowsIn(s, into) \cup (IF c.into = into THEN {c.row} ELSE {})
  <2>1. \A x : x \in RowsIn(a, into) <=> \E i \in DOMAIN a : a[i].into = into /\ x = a[i].row
    BY DEF RowsIn
  <2>2. \A x : x \in RowsIn(s, into) <=> \E i \in DOMAIN s : s[i].into = into /\ x = s[i].row
    BY DEF RowsIn
  <2>. QED  BY <1>4, <2>1, <2>2
<1>. QED  BY <1>3, <1>4, <1>5 DEF IsSeq

\* The rows of two lists in one.
LEMMA RowsJoined ==
    ASSUME NEW s, IsSeq(s), NEW t, IsSeq(t)
    PROVE  /\ IsSeq(s \o t)
           /\ \A into : RowsIn(s \o t, into) = RowsIn(s, into) \cup RowsIn(t, into)
<1>1. PICK S : s \in Seq(S)
  BY DEF IsSeq
<1>2. PICK T : t \in Seq(T)
  BY DEF IsSeq
<1>3. s \in Seq(S \cup T) /\ t \in Seq(S \cup T)
  BY <1>1, <1>2
<1>4. PICK a, m, n : a = s \o t /\ m = Len(s) /\ n = Len(t)
  OBVIOUS
<1>5. /\ a \in Seq(S \cup T) /\ m \in Nat /\ n \in Nat
      /\ DOMAIN s = 1..m /\ DOMAIN t = 1..n /\ DOMAIN a = 1..(m + n)
      /\ \A i \in 1..m : a[i] = s[i]
      /\ \A i \in 1..(m + n) : i > m => a[i] = t[i - m]
  BY <1>3, <1>4
<1>6. ASSUME NEW into
      PROVE  RowsIn(a, into) = RowsIn(s, into) \cup RowsIn(t, into)
  <2>1. \A x : x \in RowsIn(a, into) <=> \E i \in 1..(m + n) : a[i].into = into /\ x = a[i].row
    BY <1>5 DEF RowsIn
  <2>2. \A x : x \in RowsIn(s, into) <=> \E i \in 1..m : s[i].into = into /\ x = s[i].row
    BY <1>5 DEF RowsIn
  <2>3. \A x : x \in RowsIn(t, into) <=> \E i \in 1..n : t[i].into = into /\ x = t[i].row
    BY <1>5 DEF RowsIn
  <2>4. ASSUME NEW x \in RowsIn(s, into)  PROVE x \in RowsIn(a, into)
    <3>1. PICK i \in 1..m : s[i].into = into /\ x = s[i].row
      BY <2>2
    <3>2. i \in 1..(m + n) /\ a[i] = s[i]
      BY <1>5
    <3>. QED  BY <2>1, <3>1, <3>2
  <2>5. ASSUME NEW x \in RowsIn(t, into)  PROVE x \in RowsIn(a, into)
    <3>1. PICK i \in 1..n : t[i].into = into /\ x = t[i].row
      BY <2>3
    <3>2. m + i \in 1..(m + n) /\ m + i > m /\ m + i - m = i
      BY <1>5
    <3>3. a[m + i] = t[i]
      BY <1>5, <3>2
    <3>. QED  BY <2>1, <3>1, <3>2, <3>3
  <2>6. ASSUME NEW x \in RowsIn(a, into)  PROVE x \in RowsIn(s, into) \cup RowsIn(t, into)
    <3>1. PICK i \in 1..(m + n) : a[i].into = into /\ x = a[i].row
      BY <2>1
    <3>2. CASE i <= m
      <4>1. i \in 1..m /\ a[i] = s[i]
        BY <1>5, <3>2
      <4>. QED  BY <2>2, <3>1, <4>1
    <3>3. CASE i > m
      <4>1. i - m \in 1..n /\ a[i] = t[i - m]
        BY <1>5, <3>3
      <4>. QED  BY <2>3, <3>1, <4>1
    <3>. QED  BY <1>5, <3>2, <3>3
  <2>. QED  BY <2>4, <2>5, <2>6
<1>. QED  BY <1>4, <1>5, <1>6 DEF IsSeq

\* The rows of a list of one call.
LEMMA OneCall ==
    ASSUME NEW c
    PROVE  IsSeq(<<c>>) /\ \A into : RowsIn(<<c>>, into) = IF c.into = into THEN {c.row} ELSE {}
<1>1. <<c>> \in Seq({c}) /\ DOMAIN <<c>> = {1} /\ <<c>>[1] = c
  OBVIOUS
<1>2. PICK s : s = <<c>>
  OBVIOUS
<1>3. IsSeq(s) /\ DOMAIN s = {1} /\ s[1] = c
  BY <1>1, <1>2 DEF IsSeq
<1>4. \A into : RowsIn(s, into) = IF c.into = into THEN {c.row} ELSE {}
  BY <1>3 DEF RowsIn
<1>. QED  BY <1>2, <1>3, <1>4

\* The windows with a run, in order.
LEMMA CitedSays ==
    ASSUME NEW cites, NEW m \in Nat, DOMAIN cites = 1..m, NEW cited, cited = Cited(cites)
    PROVE  /\ \E n \in Nat : DOMAIN cited = 1..n
           /\ \A i \in DOMAIN cited : cited[i] \in 1..m /\ cites[cited[i]].gov # 0
           /\ \A k \in 1..m : cites[k].gov # 0 => \E i \in DOMAIN cited : cited[i] = k
           /\ \A i, j \in DOMAIN cited : cited[i] = cited[j] => i = j
<1>. DEFINE S == {j \in 1..m : cites[j].gov # 0}
<1>1. S \in SUBSET Nat /\ IsFiniteSet(S)
  <2>1. IsFiniteSet(1..m)
    BY FS_Interval
  <2>. QED  BY <2>1, FS_Subset
<1>2. cited = Alphabetical(S)
  BY DEF Cited, Alphabetical
<1>3. \A k : k \in S <=> k \in 1..m /\ cites[k].gov # 0
  OBVIOUS
<1>. HIDE DEF S
<1>. QED  BY <1>1, <1>2, <1>3, AlphabeticalSays

\* The runs of a command that are stored.
Live(runs) == {runs[k] : k \in {j \in DOMAIN runs : runs[j].gov # 0}}

\* The calls for a study's runs store those that are live.
LEMMA CallsForSays ==
    ASSUME NEW runs, NEW m \in Nat, DOMAIN runs = 1..m
    PROVE  /\ IsSeq(CallsFor(runs))
           /\ RowsIn(CallsFor(runs), "runs") = Live(runs)
           /\ \A into : into # "runs" => RowsIn(CallsFor(runs), into) = {}
<1>1. PICK cited, s : cited = Cited(runs) /\ s = CallsFor(runs)
  OBVIOUS
<1>2. /\ \E n \in Nat : DOMAIN cited = 1..n
      /\ \A i \in DOMAIN cited : cited[i] \in 1..m /\ runs[cited[i]].gov # 0
      /\ \A k \in 1..m : runs[k].gov # 0 => \E i \in DOMAIN cited : cited[i] = k
  BY <1>1, CitedSays
<1>3. s = [i \in DOMAIN cited |-> [into |-> "runs", row |-> runs[cited[i]]]]
  BY <1>1 DEF CallsFor, Call
<1>4. PICK n \in Nat : DOMAIN cited = 1..n
  BY <1>2
<1>5. s = [i \in 1..n |-> s[i]]
  BY <1>3, <1>4
<1>6. IsSeq(s)
  BY <1>5, ListSays
<1>7. DOMAIN s = DOMAIN cited /\ \A i \in DOMAIN cited : s[i].into = "runs" /\ s[i].row = runs[cited[i]]
  BY <1>3
<1>8. RowsIn(s, "runs") = Live(runs)
  <2>1. \A x : x \in RowsIn(s, "runs") <=> \E i \in DOMAIN cited : x = runs[cited[i]]
    BY <1>7 DEF RowsIn
  <2>2. \A x : x \in Live(runs) <=> \E k \in 1..m : runs[k].gov # 0 /\ x = runs[k]
    BY DEF Live
  <2>3. ASSUME NEW x \in RowsIn(s, "runs")  PROVE x \in Live(runs)
    BY <1>2, <2>1, <2>2
  <2>4. ASSUME NEW x \in Live(runs)  PROVE x \in RowsIn(s, "runs")
    <3>1. PICK k \in 1..m : runs[k].gov # 0 /\ x = runs[k]
      BY <2>2
    <3>2. PICK i \in DOMAIN cited : cited[i] = k
      BY <1>2, <3>1
    <3>. QED  BY <2>1, <3>1, <3>2
  <2>. QED  BY <2>3, <2>4
<1>9. \A into : into # "runs" => RowsIn(s, into) = {}
  BY <1>7 DEF RowsIn
<1>. QED  BY <1>1, <1>6, <1>8, <1>9

------------------------------------------------------------------------------
(* The runs of a study *)

\* A run's totals are those of its own trades.
LEMMA BuiltRun ==
    ASSUME NEW identity, NEW ds, NEW of, NEW r, r = build_historical_backtest_run(identity, ds, of)
    PROVE  /\ r.gov = identity.gov /\ r.runtime = identity.runtime /\ r.of = of
           /\ r.trades = TradesOf(ds)
           /\ r.net = NetOf(r.trades) /\ r.executed = Cardinality(Executed(r.trades))
<1>1. PICK trades : trades = TradesOf(ds)
  OBVIOUS
<1>2. r = RunTotals(identity, of, trades)
  BY <1>1 DEF build_historical_backtest_run
<1>. QED  BY <1>1, <1>2 DEF RunTotals

\* The runs of the n-th command from a place on, one for each of m windows.
FamilyRun(r, n, place) ==
    \/ r.gov = 0 /\ r.runtime = <<>> /\ r.net = 0 /\ r.executed = 0
    \/ /\ r.gov # 0 /\ r.runtime = <<n, place>>
       /\ r.net = NetOf(r.trades) /\ r.executed = Cardinality(Executed(r.trades))

Family(runs, m, n, place) == DOMAIN runs = 1..m /\ \A k \in 1..m : FamilyRun(runs[k], n, place + k)

\* Only its own run has the runtime id of a window.
Matches(runs, R) ==
    \A k \in DOMAIN runs : \A r \in R : r.runtime = runs[k].runtime => r = runs[k] /\ runs[k].gov # 0

\* The raw and the stressed runs of one start have names of their own.
LEMMA FamiliesSay ==
    ASSUME NEW n \in Nat, NEW l \in Nat, NEW a, Family(a, l, n, 0),
           NEW m \in Nat, NEW b, Family(b, m, n, l), NEW R, R = Live(a) \cup Live(b)
    PROVE  NewRuns(R, n) /\ Matches(a, R) /\ Matches(b, R)
<1>. DEFINE Is(r, place) == \/ place \in 1..l /\ r = a[place] /\ a[place].gov # 0
                            \/ place - l \in 1..m /\ r = b[place - l] /\ b[place - l].gov # 0
<1>1. ASSUME NEW r \in R
      PROVE  \E place \in Nat : r.runtime = <<n, place>> /\ Is(r, place)
  <2>1. CASE r \in Live(a)
    <3>1. PICK k \in 1..l : r = a[k] /\ a[k].gov # 0
      BY <2>1 DEF Live, Family
    <3>2. a[k].runtime = <<n, 0 + k>> /\ 0 + k = k /\ k \in Nat
      BY <3>1 DEF Family, FamilyRun
    <3>. QED  BY <3>1, <3>2
  <2>2. CASE r \in Live(b)
    <3>1. PICK k \in 1..m : r = b[k] /\ b[k].gov # 0
      BY <2>2 DEF Live, Family
    <3>2. b[k].runtime = <<n, l + k>> /\ (l + k) - l = k /\ l + k \in Nat
      BY <3>1 DEF Family, FamilyRun
    <3>. QED  BY <3>1, <3>2
  <2>. QED  BY <2>1, <2>2
<1>2. \A r, q, place : place \in Nat /\ Is(r, place) /\ Is(q, place) => r = q
  OBVIOUS
<1>3. \A x, y : <<n, x>> = <<n, y>> => x = y
  OBVIOUS
<1>4. \A x : <<n, x>> # <<>>
  OBVIOUS
<1>5. NewRuns(R, n)
  <2>. HIDE DEF Is
  <2>. QED  BY <1>1, <1>2, <1>3 DEF NewRuns, At
<1>6. ASSUME NEW k \in 1..l, NEW r \in R, r.runtime = a[k].runtime
      PROVE  r = a[k] /\ a[k].gov # 0
  <2>1. PICK place \in Nat : r.runtime = <<n, place>> /\ Is(r, place)
    BY <1>1
  <2>2. a[k].gov # 0 /\ a[k].runtime = <<n, 0 + k>>
    BY <1>4, <1>6, <2>1 DEF Family, FamilyRun
  <2>3. place = k
    <3>1. r.runtime = <<n, 0 + k>> /\ r.runtime = <<n, place>>
      BY <1>6, <2>1, <2>2
    <3>2. r.runtime[2] = 0 + k /\ r.runtime[2] = place
      BY <3>1
    <3>. QED  BY <3>2
  <2>4. Is(a[k], k)
    BY <2>2
  <2>. HIDE DEF Is
  <2>. QED  BY <1>2, <2>1, <2>2, <2>3, <2>4
<1>7. ASSUME NEW k \in 1..m, NEW r \in R, r.runtime = b[k].runtime
      PROVE  r = b[k] /\ b[k].gov # 0
  <2>1. PICK place \in Nat : r.runtime = <<n, place>> /\ Is(r, place)
    BY <1>1
  <2>2. b[k].gov # 0 /\ b[k].runtime = <<n, l + k>>
    BY <1>4, <1>7, <2>1 DEF Family, FamilyRun
  <2>3. place = l + k
    BY <1>3, <1>7, <2>1, <2>2
  <2>4. Is(b[k], l + k) /\ l + k \in Nat
    <3>1. (l + k) - l = k
      OBVIOUS
    <3>. QED  BY <2>2, <3>1
  <2>. HIDE DEF Is
  <2>. QED  BY <1>2, <2>1, <2>2, <2>3, <2>4
<1>. QED  BY <1>5, <1>6, <1>7 DEF Matches, Family

\* The windows of a study copy its runs.
Follows(windows, runs) ==
    /\ DOMAIN windows = DOMAIN runs
    /\ \A k \in DOMAIN runs : /\ windows[k].gov = runs[k].gov /\ windows[k].runtime = runs[k].runtime
                              /\ windows[k].net = runs[k].net /\ windows[k].executed = runs[k].executed

\* A study that follows its runs cites each of them, and is new with them.
LEMMA FamilyStudy ==
    ASSUME NEW n \in Nat, NEW m \in Nat, NEW place \in Nat, NEW runs, Family(runs, m, n, place),
           NEW R, Matches(runs, R), NEW s, Follows(s.windows, runs)
    PROVE  NewStudy(s, R, n)
<1>1. ASSUME NEW k \in DOMAIN s.windows
      PROVE  NewWindow(s.windows[k], R, n)
  <2>1. PICK w, r : w = s.windows[k] /\ r = runs[k]
    OBVIOUS
  <2>2. /\ k \in 1..m /\ k \in DOMAIN runs
        /\ w.gov = r.gov /\ w.runtime = r.runtime /\ w.net = r.net /\ w.executed = r.executed
    BY <2>1 DEF Follows, Family
  <2>3. FamilyRun(r, n, place + k) /\ place + k \in Nat
    BY <2>1, <2>2 DEF Family
  <2>4. \A q \in R : q.runtime = r.runtime => q = r /\ r.gov # 0
    BY <2>1, <2>2 DEF Matches
  <2>5. Copies(w, R)
    BY <2>2, <2>3, <2>4 DEF Copies, FamilyRun
  <2>6. NewWindow(w, R, n)
    BY <2>2, <2>3, <2>5 DEF NewWindow, FamilyRun, At
  <2>. QED  BY <2>1, <2>6
<1>. QED  BY <1>1 DEF NewStudy

\* A command that stores runs, and perhaps a study of them.
LEMMA StoresRuns ==
    ASSUME NEW d, NEW n \in Nat, NEW calls, IsSeq(calls),
           NEW R, R = RowsIn(calls, "runs"), NewRuns(R, n),
           \A into \in StudyTables : \A s \in RowsIn(calls, into) : NewStudy(s, R, n),
           RowsIn(calls, "survivorship") = {}, RowsIn(calls, "portfolios") = {}, RowsIn(calls, "statistics") = {}
    PROVE  New(calls, d, n)
  BY DEF New

------------------------------------------------------------------------------
(* The commands *)

\* The rows of a list of three calls.
LEMMA ThreeCalls ==
    ASSUME NEW a, NEW b, NEW c
    PROVE  /\ IsSeq(<<a, b, c>>)
           /\ \A into : \A x : x \in RowsIn(<<a, b, c>>, into) <=>
                 \/ a.into = into /\ x = a.row
                 \/ b.into = into /\ x = b.row
                 \/ c.into = into /\ x = c.row
<1>1. PICK s : s = <<a, b, c>>
  OBVIOUS
<1>2. s \in Seq({a, b, c}) /\ DOMAIN s = 1..3 /\ s[1] = a /\ s[2] = b /\ s[3] = c
  BY <1>1
<1>3. IsSeq(s)
  BY <1>2 DEF IsSeq
<1>4. ASSUME NEW into, NEW x
      PROVE  x \in RowsIn(s, into) <=>
                 \/ a.into = into /\ x = a.row
                 \/ b.into = into /\ x = b.row
                 \/ c.into = into /\ x = c.row
  <2>1. x \in RowsIn(s, into) <=> \E i \in 1..3 : s[i].into = into /\ x = s[i].row
    BY <1>2 DEF RowsIn
  <2>2. \A i : i \in 1..3 <=> i = 1 \/ i = 2 \/ i = 3
    OBVIOUS
  <2>. QED  BY <1>2, <2>1, <2>2
<1>. QED  BY <1>1, <1>3, <1>4

\* Calls that store no run, study or report.
StoresNone(calls) == IsSeq(calls) /\ \A into \in Tables : RowsIn(calls, into) = {}

\* Calls that store no run, study or report on one are in order.
LEMMA QuietIsNew ==
    ASSUME NEW calls, StoresNone(calls), NEW d, NEW n
    PROVE  New(calls, d, n)
<1>1. /\ RowsIn(calls, "runs") = {} /\ RowsIn(calls, "survivorship") = {} /\ RowsIn(calls, "portfolios") = {}
      /\ RowsIn(calls, "statistics") = {}
      /\ \A into \in StudyTables : RowsIn(calls, into) = {}
  BY DEF StoresNone, Tables, StudyTables
<1>. QED  BY <1>1 DEF New, NewRuns, StoresNone

\* The number of starts is a natural.
LEMMA StartedIsNat ==
    ASSUME EvidenceInv
    PROVE  started \in Nat /\ started + 1 \in Nat
  BY DEF EvidenceInv, InvOf

\* Starting a backtest keeps the invariant.
LEMMA BacktestBegins ==
    ASSUME EvidenceInv, NEW p \in Procs, NEW c, RunHistoricalBacktest(p, c)
    PROVE  EvidenceInv'
<1>1. PICK n, r : n = started + 1 /\ r = ArtifactRun(c.gov, 1, files[c.path])
  OBVIOUS
<1>2. PICK calls : calls = <<Call("runs", r)>>
  OBVIOUS
<1>3. Begin(p, calls)
  BY <1>1, <1>2 DEF RunHistoricalBacktest
<1>4. r.runtime = <<n, 1>>
  <2>1. PICK identity : identity = Identity(c.gov, 1)
    OBVIOUS
  <2>2. identity.runtime = <<n, 1>>
    BY <1>1, <2>1 DEF Identity
  <2>. QED  BY <1>1, <2>1, <2>2, BuiltRun DEF ArtifactRun
<1>5. /\ IsSeq(calls) /\ RowsIn(calls, "runs") = {r}
      /\ \A into : into # "runs" => RowsIn(calls, into) = {}
  <2>1. PICK a : a = Call("runs", r)
    OBVIOUS
  <2>2. a.into = "runs" /\ a.row = r /\ calls = <<a>>
    BY <1>2, <2>1 DEF Call
  <2>3. IsSeq(<<a>>) /\ \A into : RowsIn(<<a>>, into) = IF a.into = into THEN {a.row} ELSE {}
    BY OneCall
  <2>. QED  BY <2>2, <2>3
<1>6. NewRuns({r}, n)
  BY <1>4 DEF NewRuns, At
<1>7. \A into \in StudyTables : into # "runs"
  BY DEF StudyTables
<1>8. n \in Nat
  BY <1>1, StartedIsNat
<1>9. New(calls, db, n)
  BY <1>5, <1>6, <1>7, <1>8, StoresRuns
<1>. QED  BY <1>1, <1>3, <1>9, Begins

\* Starting a corporate action stress keeps it.
LEMMA StressBegins ==
    ASSUME EvidenceInv, NEW p \in Procs, NEW c, RunCorporateActionSemanticsStress(p, c)
    PROVE  EvidenceInv'
<1>1. PICK n, r, q : /\ n = started + 1 /\ r = ArtifactRun(c.runs[1], 1, files[c.correct_path])
                     /\ q = ArtifactRun(c.runs[2], 2, files[c.naive_path])
  OBVIOUS
<1>2. PICK row : row = build_corporate_action_semantics_stress(Identity(c.gov, 0), r, q)
  OBVIOUS
<1>3. PICK calls : calls = <<Call("runs", r), Call("runs", q), Call("stresses", row)>>
  OBVIOUS
<1>4. Begin(p, calls)
  BY <1>1, <1>2, <1>3 DEF RunCorporateActionSemanticsStress
<1>5. r.runtime = <<n, 1>> /\ q.runtime = <<n, 2>>
  <2>1. PICK a, b : a = Identity(c.runs[1], 1) /\ b = Identity(c.runs[2], 2)
    OBVIOUS
  <2>2. a.runtime = <<n, 1>> /\ b.runtime = <<n, 2>>
    BY <1>1, <2>1 DEF Identity
  <2>. QED  BY <1>1, <2>1, <2>2, BuiltRun DEF ArtifactRun
<1>6. \A into : \A x : x \in RowsIn(calls, into) <=>
           \/ "runs" = into /\ x = r
           \/ "runs" = into /\ x = q
           \/ "stresses" = into /\ x = row
  <2>1. PICK a, b, e : a = Call("runs", r) /\ b = Call("runs", q) /\ e = Call("stresses", row)
    OBVIOUS
  <2>2. a.into = "runs" /\ a.row = r /\ b.into = "runs" /\ b.row = q /\ e.into = "stresses" /\ e.row = row
    BY <2>1 DEF Call
  <2>3. calls = <<a, b, e>>
    BY <1>3, <2>1
  <2>4. \A into : \A x : x \in RowsIn(<<a, b, e>>, into) <=>
                 \/ a.into = into /\ x = a.row
                 \/ b.into = into /\ x = b.row
                 \/ e.into = into /\ x = e.row
    BY ThreeCalls
  <2>. QED  BY <2>2, <2>3, <2>4
<1>7. IsSeq(calls)
  BY <1>3, ThreeCalls
<1>8. RowsIn(calls, "runs") = {r, q} /\ \A into \in Tables : into # "runs" => RowsIn(calls, into) = {}
  BY <1>6 DEF Tables, StudyTables
<1>9. NewRuns({r, q}, n)
  BY <1>5 DEF NewRuns, At
<1>10. \A into \in StudyTables : into # "runs" /\ into \in Tables
  BY DEF StudyTables, Tables
<1>11. "survivorship" \in Tables /\ "portfolios" \in Tables /\ "statistics" \in Tables
  BY DEF StudyTables, Tables
<1>12. n \in Nat
  BY <1>1, StartedIsNat
<1>13. New(calls, db, n)
  BY <1>7, <1>8, <1>9, <1>10, <1>11, <1>12, StoresRuns
<1>. QED  BY <1>1, <1>4, <1>13, Begins

\* Imports and dependence reports store no run, study or report on one.
LEMMA QuietCalls ==
    /\ \A table, row : table \notin Tables => StoresNone(<<Call(table, row)>>)
    /\ \A raw, master, path : StoresNone(ImportCalls(raw, master, path))
    /\ \A c, raw, master : StoresNone(AdjustmentCalls(c, raw, master))
<1>1. ASSUME NEW table, NEW row, table \notin Tables
      PROVE  StoresNone(<<Call(table, row)>>)
  <2>1. Call(table, row).into = table
    BY DEF Call
  <2>. QED  BY <1>1, <2>1, OneCall DEF StoresNone
<1>2. ASSUME NEW a, NEW b, NEW c, a.into \notin Tables, b.into \notin Tables, c.into \notin Tables
      PROVE  StoresNone(<<a, b, c>>)
  BY <1>2, ThreeCalls DEF StoresNone
<1>3. "instruments" \notin Tables /\ "snapshots" \notin Tables /\ "file" \notin Tables /\ "actions" \notin Tables
      /\ "raise" \notin Tables
  BY DEF Tables, StudyTables
<1>4. \A table, row : Call(table, row).into = table
  BY DEF Call
<1>5. \A raw, master, path : StoresNone(ImportCalls(raw, master, path))
  BY <1>2, <1>3, <1>4 DEF ImportCalls
<1>6. ASSUME NEW c, NEW raw, NEW master
      PROVE  StoresNone(AdjustmentCalls(c, raw, master))
  <2>1. PICK adjusted : adjusted = derive_split_adjusted_snapshot(raw, c.adjusted, c.actions, master)
    OBVIOUS
  <2>2. \/ AdjustmentCalls(c, raw, master) = <<Call("raise", 0)>>
        \/ AdjustmentCalls(c, raw, master) =
             <<Call("actions", c.actions), Call("snapshots", adjusted),
               Call("file", [path |-> c.adjusted_path, artifact |-> adjusted.sha])>>
    BY <2>1 DEF AdjustmentCalls
  <2>. QED  BY <1>1, <1>2, <1>3, <1>4, <2>2
<1>. QED  BY <1>1, <1>5, <1>6

\* Starting one of them keeps the invariant.
LEMMA QuietBegins ==
    ASSUME EvidenceInv, NEW p \in Procs, NEW c,
           \/ RunPortfolioDependenceEvidence(p, c) \/ ImportHistoricalDatasetSnapshot(p, c)
           \/ AcquireMarketDataSnapshot(p, c)
    PROVE  EvidenceInv'
<1>1. ASSUME NEW calls, StoresNone(calls), Begin(p, calls)
      PROVE  EvidenceInv'
  <2>1. New(calls, db, started + 1)
    BY <1>1, QuietIsNew
  <2>. QED  BY <1>1, <2>1, Begins
<1>2. CASE RunPortfolioDependenceEvidence(p, c)
  <2>1. \E row : Begin(p, <<Call("dependences", row)>>)
    BY <1>2 DEF RunPortfolioDependenceEvidence
  <2>2. "dependences" \notin Tables
    BY DEF Tables, StudyTables
  <2>. QED  BY <1>1, <2>1, <2>2, QuietCalls
<1>3. CASE ImportHistoricalDatasetSnapshot(p, c)
  <2>1. PICK raw, master : /\ raw = import_raw_historical_dataset_snapshot(c.dataset, c.version, c.files)
                           /\ master = Masters[c.master]
    OBVIOUS
  <2>2. PICK a, b : a = ImportCalls(raw, master, c.path) /\ b = AdjustmentCalls(c, raw, master)
    OBVIOUS
  <2>3. Begin(p, a \o b)
    BY <1>3, <2>1, <2>2 DEF ImportHistoricalDatasetSnapshot
  <2>4. StoresNone(a) /\ StoresNone(b)
    BY <2>2, QuietCalls
  <2>5. StoresNone(a \o b)
    BY <2>4, RowsJoined DEF StoresNone
  <2>. QED  BY <1>1, <2>3, <2>5
<1>4. CASE AcquireMarketDataSnapshot(p, c)
  <2>1. \E raw, master : Begin(p, ImportCalls(raw, master, c.path))
    BY <1>4 DEF AcquireMarketDataSnapshot
  <2>. QED  BY <1>1, <2>1, QuietCalls
<1>. QED  BY <1>2, <1>3, <1>4

------------------------------------------------------------------------------
(* The studies *)

\* The bundles are as the assumption says.
LEMMA BundlesAre ==
    ASSUME NEW b \in DOMAIN Bundles
    PROVE  /\ GoodBundle(Bundles[b])
           /\ Len(Bundles[b].specs) \in Nat /\ DOMAIN Bundles[b].specs = 1..Len(Bundles[b].specs)
  BY EvidenceAssumption DEF GoodBundle, BundleType

\* A window result copies its run's identity and totals.
LEMMA ResultSays ==
    ASSUME NEW spec, NEW end, NEW r, NEW w, w = WindowResult(spec, end, r)
    PROVE  /\ w.gov = r.gov /\ w.runtime = r.runtime /\ w.net = r.net /\ w.executed = r.executed
           /\ w.end = end
  BY DEF WindowResult

\* The runs of a robustness study are named by their start and place.
LEMMA RobustnessFamily ==
    ASSUME NEW c, c.bundle \in DOMAIN Bundles, NEW base \in Nat, NEW place \in Nat,
           NEW m, m = Len(Bundles[c.bundle].specs), NEW n, n = started + 1,
           NEW runs, runs = RobustnessRuns(c, base, place)
    PROVE  Family(runs, m, n, place)
<1>1. PICK bundle, range : bundle = Bundles[c.bundle] /\ range = _window_bar_ranges(bundle)
  OBVIOUS
<1>2. m \in Nat /\ DOMAIN bundle.specs = 1..m
  BY <1>1, BundlesAre
<1>3. runs = [k \in 1..m |->
                build_historical_backtest_run(Identity(base + k, place + k), _window_dataset(bundle, k),
                                              Of(c.bundle, range[k], DOMAIN bundle.series))]
  BY <1>1, <1>2 DEF RobustnessRuns
<1>4. ASSUME NEW k \in 1..m
      PROVE  FamilyRun(runs[k], n, place + k)
  <2>1. PICK r, identity : r = runs[k] /\ identity = Identity(base + k, place + k)
    OBVIOUS
  <2>2. r = build_historical_backtest_run(identity, _window_dataset(bundle, k),
                                          Of(c.bundle, range[k], DOMAIN bundle.series))
    BY <1>3, <2>1
  <2>3. identity.gov = base + k /\ identity.runtime = <<n, place + k>>
    BY <2>1 DEF Identity
  <2>4. base + k # 0
    BY <1>2
  <2>5. /\ r.gov = identity.gov /\ r.runtime = identity.runtime
        /\ r.net = NetOf(r.trades) /\ r.executed = Cardinality(Executed(r.trades))
    BY <2>2, BuiltRun
  <2>6. FamilyRun(r, n, place + k)
    BY <2>3, <2>4, <2>5 DEF FamilyRun
  <2>. QED  BY <2>1, <2>6
<1>5. DOMAIN runs = 1..m
  BY <1>3
<1>. QED  BY <1>4, <1>5 DEF Family

\* Window results follow their runs.
LEMMA WindowResultsFollow ==
    ASSUME NEW bundle, NEW runs
    PROVE  Follows(WindowResults(bundle, runs), runs)
<1>1. PICK w, specs, range : /\ w = WindowResults(bundle, runs) /\ specs = ordered_window_specs(bundle)
                             /\ range = _window_bar_ranges(bundle)
  OBVIOUS
<1>2. w = [k \in DOMAIN runs |-> WindowResult(specs[k], DataEnd(bundle, range[k]), runs[k])]
  BY <1>1 DEF WindowResults
<1>3. DOMAIN w = DOMAIN runs
  BY <1>2
<1>4. ASSUME NEW k \in DOMAIN runs
      PROVE  /\ w[k].gov = runs[k].gov /\ w[k].runtime = runs[k].runtime
             /\ w[k].net = runs[k].net /\ w[k].executed = runs[k].executed
  <2>1. w[k] = WindowResult(specs[k], DataEnd(bundle, range[k]), runs[k])
    BY <1>2
  <2>. QED  BY <2>1, ResultSays
<1>5. Follows(w, runs)
  BY <1>3, <1>4 DEF Follows
<1>. QED  BY <1>1, <1>5

\* The windows of a robustness study follow its runs.
LEMMA RobustnessFollows ==
    ASSUME NEW identity, NEW bundle, NEW runs
    PROVE  Follows(build_robustness_study(identity, bundle, runs).windows, runs)
<1>1. PICK w, s : w = WindowResults(bundle, runs) /\ s = build_robustness_study(identity, bundle, runs)
  OBVIOUS
<1>2. s = StudyOf(identity, w, RobustnessClassification(w))
  BY <1>1 DEF build_robustness_study
<1>3. s.windows = w
  BY <1>2 DEF StudyOf
<1>. QED  BY <1>1, <1>3, WindowResultsFollow

\* The windows of a validation study follow its runs.
LEMMA ValidationFollows ==
    ASSUME NEW identity, NEW bundle, NEW runs
    PROVE  Follows(build_validation_study(identity, bundle, runs).windows, runs)
<1>. DEFINE range == _segment_bar_ranges(bundle)
            w == [k \in DOMAIN runs |-> WindowResult(bundle.specs[k], DataEnd(bundle, range[k]), runs[k])]
            s == build_validation_study(identity, bundle, runs)
<1>2. s.windows = w
  BY DEF build_validation_study, StudyOf
<1>4. ASSUME NEW k \in DOMAIN runs
      PROVE  /\ w[k].gov = runs[k].gov /\ w[k].runtime = runs[k].runtime
             /\ w[k].net = runs[k].net /\ w[k].executed = runs[k].executed
  <2>1. w[k] = WindowResult(bundle.specs[k], DataEnd(bundle, range[k]), runs[k])
    OBVIOUS
  <2>. QED  BY <2>1, ResultSays
<1>. QED  BY <1>2, <1>4 DEF Follows

\* A command that stores one family of runs and their study.
LEMMA FamilyBegins ==
    ASSUME NEW d, NEW n \in Nat, NEW m \in Nat, NEW runs, Family(runs, m, n, 0),
           NEW s, Follows(s.windows, runs), NEW table \in {"validations", "robustness"},
           NEW calls, calls = Append(CallsFor(runs), Call(table, s))
    PROVE  New(calls, d, n)
<1>1. DOMAIN runs = 1..m
  BY DEF Family
<1>2. PICK a, e : a = CallsFor(runs) /\ e = Call(table, s)
  OBVIOUS
<1>3. IsSeq(a) /\ RowsIn(a, "runs") = Live(runs) /\ \A into : into # "runs" => RowsIn(a, into) = {}
  BY <1>1, <1>2, CallsForSays
<1>4. e.into = table /\ e.row = s
  BY <1>2 DEF Call
<1>5. calls = Append(a, e)
  BY <1>2
<1>6. /\ IsSeq(calls)
      /\ \A into : RowsIn(calls, into) = RowsIn(a, into) \cup (IF e.into = into THEN {e.row} ELSE {})
  BY <1>3, <1>5, RowsAppended
<1>7. /\ RowsIn(calls, "runs") = Live(runs)
      /\ RowsIn(calls, "survivorship") = {} /\ RowsIn(calls, "portfolios") = {} /\ RowsIn(calls, "statistics") = {}
      /\ \A into \in StudyTables : \A q \in RowsIn(calls, into) : q = s
  <2>1. table # "runs" /\ table # "survivorship" /\ table # "portfolios" /\ table # "statistics"
    OBVIOUS
  <2>2. RowsIn(calls, "runs") = RowsIn(a, "runs") /\ RowsIn(a, "survivorship") = {} /\ RowsIn(a, "portfolios") = {}
        /\ RowsIn(a, "statistics") = {}
    <3>1. e.into # "runs"
      BY <1>4, <2>1
    <3>2. (IF e.into = "runs" THEN {e.row} ELSE {}) = {}
      BY <3>1
    <3>3. RowsIn(calls, "runs") = RowsIn(a, "runs") \cup (IF e.into = "runs" THEN {e.row} ELSE {})
      BY <1>6
    <3>4. RowsIn(calls, "runs") = RowsIn(a, "runs")
      BY <3>2, <3>3
    <3>5. RowsIn(a, "survivorship") = {}
      BY <1>3
    <3>6. RowsIn(a, "portfolios") = {}
      BY <1>3
    <3>7. RowsIn(a, "statistics") = {}
      BY <1>3
    <3>. QED  BY <3>4, <3>5, <3>6, <3>7
  <2>3. RowsIn(calls, "survivorship") = {}
    BY <1>4, <1>6, <2>1, <2>2
  <2>4. RowsIn(calls, "portfolios") = {}
    BY <1>4, <1>6, <2>1, <2>2
  <2>5. ASSUME NEW into \in StudyTables, NEW q \in RowsIn(calls, into)  PROVE q = s
    <3>1. into # "runs"
      BY DEF StudyTables
    <3>2. RowsIn(a, into) = {}
      BY <1>3, <3>1
    <3>. QED  BY <1>4, <1>6, <2>5, <3>2
  <2>6. RowsIn(calls, "statistics") = {}
    BY <1>4, <1>6, <2>1, <2>2
  <2>. QED  BY <1>3, <2>2, <2>3, <2>4, <2>5, <2>6
<1>8. PICK R : R = Live(runs)
  OBVIOUS
<1>9. NewRuns(R, n) /\ Matches(runs, R)
  <2>1. PICK none : none = [k \in 1..0 |-> 0]
    OBVIOUS
  <2>2. Family(none, 0, n, m)
    BY <2>1 DEF Family
  <2>3. Live(none) = {}
    BY <2>1 DEF Live
  <2>4. R = Live(runs) \cup Live(none)
    BY <1>8, <2>3
  <2>. QED  BY <2>2, <2>4, FamiliesSay
<1>10. NewStudy(s, R, n)
  BY <1>9, FamilyStudy
<1>11. R = RowsIn(calls, "runs")
  BY <1>7, <1>8
<1>12. \A into \in StudyTables : \A q \in RowsIn(calls, into) : NewStudy(q, R, n)
  BY <1>7, <1>10
<1>. QED  BY <1>6, <1>7, <1>9, <1>11, <1>12, StoresRuns

\* Starting a validation study keeps the invariant.
LEMMA ValidationBegins ==
    ASSUME EvidenceInv, NEW p \in Procs, NEW c, CommandType(c), RunHistoricalValidationStudy(p, c)
    PROVE  EvidenceInv'
<1>1. PICK bundle, range : bundle = Bundles[c.bundle] /\ range = _segment_bar_ranges(bundle)
  OBVIOUS
<1>2. c.kind = "validation" /\ c.bundle \in DOMAIN Bundles /\ c.runs \in [1..3 -> Nat \ {0}]
  BY DEF RunHistoricalValidationStudy, CommandType
<1>. DEFINE run(k) == build_historical_backtest_run(Identity(c.runs[k], k), _segment_dataset(bundle, k),
                                                    Of(c.bundle, range[k], DOMAIN bundle.series))
<1>3. PICK runs : runs = [k \in DOMAIN bundle.specs |-> run(k)]
  OBVIOUS
<1>4. PICK s : s = build_validation_study(StudyIdentity(c.gov, 0, c.bundle), bundle, runs)
  OBVIOUS
<1>5. _validate_bundle_segments(bundle) /\ Begin(p, Append(CallsFor(runs), Call("validations", s)))
  BY <1>1, <1>3, <1>4 DEF RunHistoricalValidationStudy
<1>6. DOMAIN bundle.specs = 1..3
  <2>1. PICK roles : roles = [k \in DOMAIN bundle.specs |-> bundle.specs[k].role]
    OBVIOUS
  <2>2. roles = Roles
    BY <1>5, <2>1 DEF _validate_bundle_segments
  <2>3. DOMAIN roles = DOMAIN bundle.specs
    BY <2>1
  <2>4. DOMAIN Roles = 1..3
    BY DEF Roles
  <2>. QED  BY <2>2, <2>3, <2>4
<1>7. PICK n : n = started + 1
  OBVIOUS
<1>8. Family(runs, 3, n, 0)
  <2>1. ASSUME NEW k \in 1..3
        PROVE  FamilyRun(runs[k], n, 0 + k)
    <3>1. PICK r, identity : r = runs[k] /\ identity = Identity(c.runs[k], k)
      OBVIOUS
    <3>2. r = build_historical_backtest_run(identity, _segment_dataset(bundle, k),
                                            Of(c.bundle, range[k], DOMAIN bundle.series))
      BY <1>3, <1>6, <3>1
    <3>3. identity.gov = c.runs[k] /\ identity.runtime = <<n, k>>
      BY <1>7, <3>1 DEF Identity
    <3>4. c.runs[k] # 0 /\ 0 + k = k
      BY <1>2
    <3>5. /\ r.gov = identity.gov /\ r.runtime = identity.runtime
          /\ r.net = NetOf(r.trades) /\ r.executed = Cardinality(Executed(r.trades))
      BY <3>2, BuiltRun
    <3>6. FamilyRun(r, n, 0 + k)
      BY <3>3, <3>4, <3>5 DEF FamilyRun
    <3>. QED  BY <3>1, <3>6
  <2>2. DOMAIN runs = 1..3
    BY <1>3, <1>6
  <2>. HIDE DEF run
  <2>. QED  BY <2>1, <2>2 DEF Family
<1>9. Follows(s.windows, runs)
  BY <1>4, ValidationFollows
<1>10. n \in Nat /\ 3 \in Nat
  BY <1>7, StartedIsNat
<1>11. PICK calls : calls = Append(CallsFor(runs), Call("validations", s))
  OBVIOUS
<1>12. New(calls, db, n)
  BY <1>8, <1>9, <1>10, <1>11, FamilyBegins
<1>. QED  BY <1>5, <1>7, <1>11, <1>12, Begins

\* Starting a robustness study keeps it.
LEMMA RobustnessBegins ==
    ASSUME EvidenceInv, NEW p \in Procs, NEW c, CommandType(c), RunHistoricalRobustnessStudy(p, c)
    PROVE  EvidenceInv'
<1>1. PICK bundle, runs : bundle = Bundles[c.bundle] /\ runs = RobustnessRuns(c, c.base, 0)
  OBVIOUS
<1>2. c.kind = "robustness" /\ c.bundle \in DOMAIN Bundles /\ c.base \in Nat
  BY DEF RunHistoricalRobustnessStudy, CommandType
<1>3. PICK s : s = build_robustness_study(StudyIdentity(c.gov, 0, c.bundle), bundle, runs)
  OBVIOUS
<1>4. PICK calls : calls = Append(CallsFor(runs), Call("robustness", s))
  OBVIOUS
<1>5. Begin(p, calls)
  BY <1>1, <1>3, <1>4 DEF RunHistoricalRobustnessStudy
<1>6. PICK n, m : n = started + 1 /\ m = Len(bundle.specs)
  OBVIOUS
<1>7. Family(runs, m, n, 0)
  BY <1>1, <1>2, <1>6, RobustnessFamily
<1>8. n \in Nat /\ m \in Nat
  BY <1>1, <1>2, <1>6, StartedIsNat, BundlesAre
<1>9. Follows(s.windows, runs)
  BY <1>3, RobustnessFollows
<1>10. New(calls, db, n)
  BY <1>4, <1>7, <1>8, <1>9, FamilyBegins
<1>. QED  BY <1>5, <1>6, <1>10, Begins

\* What a window of a survivorship-aware study looked at.
LEMMA UniverseSays ==
    ASSUME NEW bundle, GoodBundle(bundle), NEW master, NEW manifest, NEW k \in DOMAIN bundle.specs,
           _validate_bundle_windows(bundle), validate_against_master(manifest, master),
           NEW range, range = _window_bar_ranges(bundle)[k],
           NEW universe, universe = WindowUniverseSnapshot(bundle, master, manifest, k)
    PROVE  /\ universe.start = DayOf(bundle, range.first + ReferenceWindow)
           /\ universe.evaluated \subseteq DOMAIN master
           /\ \A i \in universe.evaluated :
                 /\ master[i] \in DOMAIN bundle.series
                 /\ \E r \in manifest.records : /\ r.status = "ACTIVE" /\ r.instrument = i
                                                /\ r.from <= universe.start /\ universe.start < r.to
<1>1. PICK spec : spec = ordered_window_specs(bundle)[k]
  OBVIOUS
<1>2. PICK start : start = ScoringStart(bundle, spec, range)
  OBVIOUS
<1>3. universe = [eligible |-> universe_at(manifest, start), start |-> start,
                  evaluated |-> {i \in universe_at(manifest, start) : master[i] \in DOMAIN bundle.series}]
  BY <1>1, <1>2 DEF WindowUniverseSnapshot
<1>4. spec.warmup = ReferenceWindow
  BY <1>1, WindowRangesFit
<1>5. universe.start = start /\ start = DayOf(bundle, range.first + ReferenceWindow)
  BY <1>2, <1>3, <1>4 DEF ScoringStart
<1>6. ASSUME NEW i \in universe.evaluated
      PROVE  /\ master[i] \in DOMAIN bundle.series
             /\ \E r \in manifest.records : /\ r.status = "ACTIVE" /\ r.instrument = i
                                            /\ r.from <= start /\ start < r.to
  <2>1. i \in universe_at(manifest, start) /\ master[i] \in DOMAIN bundle.series
    BY <1>3
  <2>. QED  BY <2>1 DEF universe_at, covers
<1>7. universe.evaluated \subseteq DOMAIN master
  BY <1>6 DEF validate_against_master
<1>. QED  BY <1>5, <1>6, <1>7

\* A window of a survivorship-aware study and its run.
WindowAndRun(w, r, bundle, master, manifest, base, n, k) ==
    /\ w.gov \in Nat /\ w.end \in Nat
    /\ w.evaluated \subseteq DOMAIN master
    /\ w.evaluated # {} => w.gov # 0
    /\ w.gov # 0 => w.gov = base + k
    /\ FamilyRun(r, n, 0 + k)
    /\ r.gov # 0 =>
          /\ r.of.symbols = {master[i] : i \in w.evaluated}
          /\ \E m \in Nat : DOMAIN r.trades = 1..m
          /\ \A j \in DOMAIN r.trades :
                LET t == r.trades[j]
                IN  /\ \E q \in manifest.records :
                          /\ q.status = "ACTIVE" /\ master[q.instrument] = t.symbol
                          /\ q.from <= t.cutoff /\ w.start < q.to
                    /\ t.exit <= w.end /\ t.exit \in Nat /\ t.entry \in Nat /\ t.entry <= t.exit
                    /\ TradeCounts(t)

\* How window k of a survivorship-aware study and its run are built.
Built(bundle, master, manifest, base, n, k, identity, name, spec, r, w) ==
    LET range == _window_bar_ranges(bundle)[k]
        ds == SurvivorshipDataset(bundle, master, manifest, k)
    IN  /\ GoodBundle(bundle) /\ SurvivorshipBuildable(bundle, master, manifest)
        /\ base \in Nat /\ k \in DOMAIN bundle.specs /\ k \in Nat \ {0}
        /\ identity.gov = base + k /\ identity.runtime = <<n, k>>
        /\ r = IF DOMAIN ds = {} THEN NoRun
               ELSE build_historical_backtest_run(identity, ds, Of(name, range, DOMAIN ds))
        /\ w = SurvivorshipWindow(WindowResult(spec, DataEnd(bundle, range), r),
                                  WindowUniverseSnapshot(bundle, master, manifest, k))

\* A window of a survivorship study and its run are about the instruments that
\* were members throughout the window's history and when its scoring began.
LEMMA SurvivorshipWindows ==
    ASSUME NEW bundle, NEW master, NEW manifest, NEW base, NEW n, NEW k, NEW identity, NEW name, NEW spec,
           NEW r, NEW w, Built(bundle, master, manifest, base, n, k, identity, name, spec, r, w),
           \A q \in manifest.records : q.from \in Nat /\ q.to \in Nat
    PROVE  /\ WindowAndRun(w, r, bundle, master, manifest, base, n, k)
           /\ w.gov = r.gov /\ w.runtime = r.runtime /\ w.net = r.net /\ w.executed = r.executed
<1>a. PICK universe, ds, range : /\ universe = WindowUniverseSnapshot(bundle, master, manifest, k)
                                 /\ ds = SurvivorshipDataset(bundle, master, manifest, k)
                                 /\ range = _window_bar_ranges(bundle)[k]
  OBVIOUS
<1>b. /\ GoodBundle(bundle) /\ SurvivorshipBuildable(bundle, master, manifest)
      /\ base \in Nat /\ k \in DOMAIN bundle.specs /\ k \in Nat \ {0}
      /\ identity.gov = base + k /\ identity.runtime = <<n, k>>
      /\ r = IF DOMAIN ds = {} THEN NoRun
             ELSE build_historical_backtest_run(identity, ds, Of(name, range, DOMAIN ds))
      /\ w = SurvivorshipWindow(WindowResult(spec, DataEnd(bundle, range), r), universe)
  BY <1>a DEF Built
<1>1. /\ validate_against_master(manifest, master) /\ _validate_bundle_windows(bundle)
      /\ universe.evaluated # {} => Runnable(ds)
  BY <1>a, <1>b DEF SurvivorshipBuildable
<1>2. /\ RangeFits(range, bars_per_instrument(bundle.series))
  BY <1>a, <1>b, <1>1, WindowRangesFit
<1>3. /\ universe.start = DayOf(bundle, range.first + ReferenceWindow)
      /\ universe.evaluated \subseteq DOMAIN master
      /\ \A i \in universe.evaluated :
            /\ master[i] \in DOMAIN bundle.series
            /\ \E q \in manifest.records : /\ q.status = "ACTIVE" /\ q.instrument = i
                                           /\ q.from <= universe.start /\ universe.start < q.to
  BY <1>a, <1>b, <1>1, UniverseSays
<1>. DEFINE symbols == {master[i] : i \in universe.evaluated}
<1>4. ds = Slice(bundle, range, symbols)
  BY <1>a DEF SurvivorshipDataset
<1>5. DOMAIN ds = symbols
  BY <1>4 DEF Slice
<1>6. PICK result : result = WindowResult(spec, DataEnd(bundle, range), r)
  OBVIOUS
<1>7. /\ w.gov = r.gov /\ w.runtime = r.runtime /\ w.net = r.net /\ w.executed = r.executed
      /\ w.end = DataEnd(bundle, range) /\ w.start = universe.start /\ w.evaluated = universe.evaluated
  <2>1. /\ result.gov = r.gov /\ result.runtime = r.runtime /\ result.net = r.net
        /\ result.executed = r.executed /\ result.end = DataEnd(bundle, range)
    BY <1>6, ResultSays
  <2>2. w = SurvivorshipWindow(result, universe)
    BY <1>b, <1>6
  <2>. QED  BY <2>1, <2>2 DEF SurvivorshipWindow
<1>8. /\ DayOf(bundle, range.last) \in Nat
      /\ DayOf(bundle, range.first + ReferenceWindow) \in Nat
  <2>1. Grid(bundle.series)
    BY <1>b, BundleSays
  <2>2. PICK u \in DOMAIN bundle.series : TRUE
    BY <2>1 DEF Grid, HistoricalDataset
  <2>3. PICK b : b = bars_per_instrument(bundle.series)
    OBVIOUS
  <2>4. DOMAIN bundle.series[u] = 1..b /\ b \in Nat
    BY <2>1, <2>2, <2>3, GridSays
  <2>5. range.last \in 1..b /\ range.first + ReferenceWindow \in 1..b
    <3>1. PICK f, l : f = range.first /\ l = range.last
      OBVIOUS
    <3>2. f \in Nat /\ l \in Nat /\ 1 <= f /\ f + ReferenceWindow + Horizon <= l /\ l <= b
      BY <1>2, <2>3, <3>1 DEF RangeFits
    <3>3. ReferenceWindow \in Nat /\ Horizon \in Nat
      BY ChainAssumption, HorizonAssumption
    <3>4. l \in 1..b /\ f + ReferenceWindow \in 1..b
      BY <2>4, <3>2, <3>3
    <3>. QED  BY <3>1, <3>4
  <2>6. DayOf(bundle, range.last) \in Nat
    BY <2>2, <2>4, <2>5, <1>b, DaysSay
  <2>7. DayOf(bundle, range.first + ReferenceWindow) \in Nat
    BY <2>2, <2>4, <2>5, <1>b, DaysSay
  <2>. QED  BY <2>6, <2>7
<1>9. w.end \in Nat
  BY <1>7, <1>8 DEF DataEnd
<1>10. CASE DOMAIN ds = {}
  <2>1. r = NoRun
    BY <1>b, <1>10
  <2>2. r.gov = 0 /\ r.runtime = <<>> /\ r.net = 0 /\ r.executed = 0
    BY <2>1 DEF NoRun
  <2>3. w.evaluated = {}
    <3>1. \A i \in universe.evaluated : master[i] \in DOMAIN ds
      BY <1>5
    <3>2. universe.evaluated = {}
      BY <1>10, <3>1
    <3>. QED  BY <1>7, <3>2
  <2>4. FamilyRun(r, n, 0 + k)
    BY <2>2 DEF FamilyRun
  <2>. HIDE DEF symbols
  <2>. QED  BY <1>7, <1>9, <2>2, <2>3, <2>4 DEF WindowAndRun
<1>11. CASE DOMAIN ds # {}
  <2>1. r = build_historical_backtest_run(identity, ds, Of(name, range, DOMAIN ds))
    BY <1>b, <1>11
  <2>2. /\ r.gov = base + k /\ r.runtime = <<n, k>> /\ r.of = Of(name, range, DOMAIN ds)
        /\ r.trades = TradesOf(ds)
        /\ r.net = NetOf(r.trades) /\ r.executed = Cardinality(Executed(r.trades))
    BY <1>b, <2>1, BuiltRun
  <2>3. base + k # 0 /\ base + k \in Nat /\ 0 + k = k
    BY <1>b
  <2>4. FamilyRun(r, n, 0 + k)
    BY <2>2, <2>3 DEF FamilyRun
  <2>5. r.of.symbols = DOMAIN ds
    BY <2>2 DEF Of
  <2>6. universe.evaluated # {}
    BY <1>5, <1>11
  <2>7. HistoricalDataset(ds)
    BY <1>1, <2>6 DEF Runnable
  <2>8. symbols \in SUBSET DOMAIN bundle.series
    BY <1>3
  <2>9. PICK syms : syms = symbols
    OBVIOUS
  <2>10. ASSUME NEW j \in DOMAIN r.trades
         PROVE  WindowTrade(bundle, range, syms, r.trades[j])
    BY <1>2, <1>4, <2>2, <2>7, <2>8, <2>9, <1>b, WindowTrades
  <2>11. Grid(ds)
    <3>1. Sliced(ds, bundle, range, syms)
      BY <1>2, <1>4, <2>8, <2>9, <1>b, SliceSays
    <3>. QED  BY <2>7, <3>1 DEF Sliced, Grid
  <2>12. \E m \in Nat : DOMAIN r.trades = 1..m
    BY <2>2, <2>11, TradesSay
  <2>13. ASSUME NEW j \in DOMAIN r.trades, NEW t, t = r.trades[j]
         PROVE  /\ \E q \in manifest.records :
                      /\ q.status = "ACTIVE" /\ master[q.instrument] = t.symbol
                      /\ q.from <= t.cutoff /\ w.start < q.to
                /\ t.exit <= w.end /\ t.exit \in Nat /\ t.entry \in Nat /\ t.entry <= t.exit
                /\ TradeCounts(t)
    <3>1. WindowTrade(bundle, range, syms, t)
      BY <2>10, <2>13
    <3>2. t.symbol \in symbols
      BY <2>9, <3>1 DEF WindowTrade
    <3>3. PICK i \in universe.evaluated : t.symbol = master[i]
      BY <3>2
    <3>4. PICK q \in manifest.records : /\ q.status = "ACTIVE" /\ q.instrument = i
                                        /\ q.from <= universe.start /\ universe.start < q.to
      BY <1>3, <3>3
    <3>5. universe.start <= t.cutoff /\ t.cutoff \in Nat /\ universe.start \in Nat
      BY <1>3, <1>8, <3>1 DEF WindowTrade
    <3>6. q.from <= t.cutoff
      BY <3>4, <3>5
    <3>7. t.exit <= w.end /\ t.exit \in Nat /\ t.entry \in Nat /\ t.entry <= t.exit /\ TradeCounts(t)
      BY <1>7, <3>1 DEF WindowTrade, DataEnd
    <3>. QED  BY <1>7, <3>3, <3>4, <3>6, <3>7
  <2>14. r.of.symbols = {master[i] : i \in w.evaluated}
    BY <1>5, <1>7, <2>5
  <2>15. w.evaluated \subseteq DOMAIN master /\ w.gov = base + k
    BY <1>3, <1>7, <2>2
  <2>. HIDE DEF symbols
  <2>. QED  BY <1>7, <1>9, <2>3, <2>4, <2>12, <2>13, <2>14, <2>15 DEF WindowAndRun
<1>. HIDE DEF symbols
<1>. QED  BY <1>7, <1>10, <1>11

\* The windows of a survivorship-aware study and its runs.
LEMMA SurvivorshipFamily ==
    ASSUME NEW c, c.bundle \in DOMAIN Bundles, c.manifest \in DOMAIN Manifests, c.base \in Nat,
           NEW bundle, bundle = Bundles[c.bundle], NEW master, master = Masters[c.master],
           NEW manifest, manifest = Manifests[c.manifest],
           SurvivorshipBuildable(bundle, master, manifest),
           NEW m, m = Len(bundle.specs), NEW n, n = started + 1,
           NEW runs, runs = SurvivorshipRuns(c), NEW identity,
           NEW s, s = build_survivorship_aware_robustness_study(identity, bundle, master, manifest, runs)
    PROVE  /\ Family(runs, m, n, 0)
           /\ Follows(s.windows, runs)
           /\ \A k \in 1..m : WindowAndRun(s.windows[k], runs[k], bundle, master, manifest, c.base, n, k)
<1>1. GoodBundle(bundle) /\ m \in Nat /\ DOMAIN bundle.specs = 1..m
  BY BundlesAre
<1>2. \A q \in manifest.records : q.from \in Nat /\ q.to \in Nat
  BY EvidenceAssumption
<1>3. PICK range, specs, windows : /\ range = _window_bar_ranges(bundle) /\ specs = ordered_window_specs(bundle)
                                   /\ windows = s.windows
  OBVIOUS
<1>. DEFINE ds(k) == SurvivorshipDataset(bundle, master, manifest, k)
            id(k) == Identity(c.base + k, k)
            universe(k) == WindowUniverseSnapshot(bundle, master, manifest, k)
<1>4. runs = [k \in 1..m |-> IF DOMAIN ds(k) = {} THEN NoRun
                             ELSE build_historical_backtest_run(id(k), ds(k), Of(c.bundle, range[k], DOMAIN ds(k)))]
  BY <1>1, <1>3 DEF SurvivorshipRuns
<1>5. DOMAIN runs = 1..m
  BY <1>4
<1>6. windows = [k \in DOMAIN runs |-> SurvivorshipWindow(WindowResults(bundle, runs)[k], universe(k))]
  BY <1>3 DEF build_survivorship_aware_robustness_study
<1>7. ASSUME NEW k \in 1..m
      PROVE  /\ WindowAndRun(windows[k], runs[k], bundle, master, manifest, c.base, n, k)
             /\ windows[k].gov = runs[k].gov /\ windows[k].runtime = runs[k].runtime
             /\ windows[k].net = runs[k].net /\ windows[k].executed = runs[k].executed
  <2>1. PICK w, r, d, i, u : w = windows[k] /\ r = runs[k] /\ d = ds(k) /\ i = id(k) /\ u = universe(k)
    OBVIOUS
  <2>2. i.gov = c.base + k /\ i.runtime = <<n, k>>
    BY <2>1 DEF Identity
  <2>3. r = IF DOMAIN d = {} THEN NoRun ELSE build_historical_backtest_run(i, d, Of(c.bundle, range[k], DOMAIN d))
    BY <1>4, <2>1
  <2>4. WindowResults(bundle, runs)[k] = WindowResult(specs[k], DataEnd(bundle, range[k]), r)
    BY <1>3, <1>5, <2>1 DEF WindowResults
  <2>5. w = SurvivorshipWindow(WindowResult(specs[k], DataEnd(bundle, range[k]), r), u)
    BY <1>5, <1>6, <2>1, <2>4
  <2>6. k \in DOMAIN bundle.specs /\ k \in Nat \ {0}
    BY <1>1
  <2>7. d = SurvivorshipDataset(bundle, master, manifest, k) /\ u = WindowUniverseSnapshot(bundle, master, manifest, k)
    BY <2>1
  <2>8. PICK g, sp : g = range[k] /\ sp = specs[k]
    OBVIOUS
  <2>9. g = _window_bar_ranges(bundle)[k]
    BY <1>3, <2>8
  <2>10. /\ r = IF DOMAIN d = {} THEN NoRun ELSE build_historical_backtest_run(i, d, Of(c.bundle, g, DOMAIN d))
         /\ w = SurvivorshipWindow(WindowResult(sp, DataEnd(bundle, g), r), u)
    BY <2>3, <2>5, <2>8
  <2>. HIDE DEF ds, id, universe
  <2>11. PICK name, base : name = c.bundle /\ base = c.base
    OBVIOUS
  <2>12. r = IF DOMAIN d = {} THEN NoRun ELSE build_historical_backtest_run(i, d, Of(name, g, DOMAIN d))
    BY <2>10, <2>11
  <2>13. base \in Nat /\ i.gov = base + k
    BY <2>2, <2>11
  <2>14. /\ WindowAndRun(w, r, bundle, master, manifest, base, n, k)
         /\ w.gov = r.gov /\ w.runtime = r.runtime /\ w.net = r.net /\ w.executed = r.executed
    <3>1. Built(bundle, master, manifest, base, n, k, i, name, sp, r, w)
      BY <1>1, <2>2, <2>6, <2>7, <2>9, <2>10, <2>12, <2>13 DEF Built
    <3>. QED  BY <1>2, <3>1, SurvivorshipWindows
  <2>. QED  BY <2>1, <2>11, <2>14
<1>8. DOMAIN windows = 1..m
  BY <1>5, <1>6
<1>. HIDE DEF ds, id, universe
<1>9. Family(runs, m, n, 0)
  <2>1. \A k \in 1..m : FamilyRun(runs[k], n, 0 + k)
    BY <1>7 DEF WindowAndRun
  <2>. QED  BY <1>5, <2>1 DEF Family
<1>10. Follows(windows, runs)
  BY <1>5, <1>7, <1>8 DEF Follows
<1>. QED  BY <1>3, <1>7, <1>9, <1>10

\* A survivorship study that is built so is sound.
LEMMA SurvivorshipIsOk ==
    ASSUME NEW c, c.manifest \in DOMAIN Manifests, c.base \in Nat, NEW n \in Nat, NEW m \in Nat \ {0},
           NEW bundle, NEW master, master = Masters[c.master], NEW manifest, manifest = Manifests[c.manifest],
           NEW runs, Family(runs, m, n, 0), NEW R, Matches(runs, R),
           NEW s, Follows(s.windows, runs), s.master = c.master, s.manifest = c.manifest,
           s.executed = ExecutedIn(s.windows), s.net = NetIn(s.windows),
           \A k \in 1..m : WindowAndRun(s.windows[k], runs[k], bundle, master, manifest, c.base, n, k)
    PROVE  SurvivorshipOk(s, R)
<1>1. DOMAIN s.windows = 1..m /\ DOMAIN runs = 1..m
  BY DEF Follows, Family
<1>2. ASSUME NEW k \in 1..m
      PROVE  SurvivorWindow(s, s.windows[k], R)
  <2>1. PICK w, r : w = s.windows[k] /\ r = runs[k]
    OBVIOUS
  <2>2. WindowAndRun(w, r, bundle, master, manifest, c.base, n, k)
    BY <2>1
  <2>3. w.gov = r.gov /\ w.runtime = r.runtime
    BY <1>1, <2>1 DEF Follows
  <2>4. ASSUME NEW q \in R, q.runtime = w.runtime
        PROVE  SurvivorRun(s, w, q)
    <3>1. q = r /\ r.gov # 0
      BY <1>1, <2>1, <2>3, <2>4 DEF Matches
    <3>2. /\ r.of.symbols = {master[i] : i \in w.evaluated}
          /\ \E l \in Nat : DOMAIN r.trades = 1..l
          /\ \A j \in DOMAIN r.trades : TradeOk(s, w, r.trades[j])
      BY <2>2, <3>1 DEF WindowAndRun, TradeOk
    <3>. QED  BY <3>1, <3>2 DEF SurvivorRun
  <2>5. /\ w.end \in Nat /\ w.gov \in Nat
        /\ w.evaluated \subseteq DOMAIN Masters[s.master]
        /\ w.evaluated # {} => w.gov # 0
    BY <2>2 DEF WindowAndRun
  <2>6. SurvivorWindow(s, w, R)
    BY <2>4, <2>5 DEF SurvivorWindow
  <2>. QED  BY <2>1, <2>6
<1>3. ASSUME NEW j \in 1..m, NEW k \in 1..m, s.windows[j].gov = s.windows[k].gov, s.windows[k].gov # 0
      PROVE  j = k
  <2>1. s.windows[k].gov = c.base + k /\ s.windows[j].gov = c.base + j
    BY <1>3 DEF WindowAndRun
  <2>. QED  BY <1>3, <2>1
<1>. QED  BY <1>1, <1>2, <1>3 DEF SurvivorshipOk

\* The rows of a list of two calls.
LEMMA TwoCalls ==
    ASSUME NEW a, NEW b
    PROVE  /\ IsSeq(<<a, b>>)
           /\ \A into : \A x : x \in RowsIn(<<a, b>>, into) <=>
                 (a.into = into /\ x = a.row) \/ (b.into = into /\ x = b.row)
<1>1. PICK s : s = <<a, b>>
  OBVIOUS
<1>2. s \in Seq({a, b}) /\ DOMAIN s = 1..2 /\ s[1] = a /\ s[2] = b
  BY <1>1
<1>3. IsSeq(s)
  BY <1>2 DEF IsSeq
<1>4. ASSUME NEW into, NEW x
      PROVE  x \in RowsIn(s, into) <=> (a.into = into /\ x = a.row) \/ (b.into = into /\ x = b.row)
  <2>1. x \in RowsIn(s, into) <=> \E i \in 1..2 : s[i].into = into /\ x = s[i].row
    BY <1>2 DEF RowsIn
  <2>2. \A i : i \in 1..2 <=> i = 1 \/ i = 2
    OBVIOUS
  <2>. QED  BY <1>2, <2>1, <2>2
<1>. QED  BY <1>1, <1>3, <1>4

\* What the calls of the command store.
CallsOf(x, y, z, runs, stressed, stress, s) ==
    <<Call("instruments", x), Call("universes", y), Call("memberships", z)>>
      \o CallsFor(runs) \o CallsFor(stressed)
      \o <<Call("robustness", stress), Call("survivorship", s)>>

StoresStudies(calls, runs, stressed, stress, s) ==
    /\ IsSeq(calls)
    /\ RowsIn(calls, "runs") = Live(runs) \cup Live(stressed)
    /\ RowsIn(calls, "robustness") = {stress}
    /\ RowsIn(calls, "survivorship") = {s}
    /\ RowsIn(calls, "validations") = {} /\ RowsIn(calls, "portfolios") = {} /\ RowsIn(calls, "statistics") = {}

\* What the calls of a survivorship command store, table by table.
LEMMA SurvivorshipCalls ==
    ASSUME NEW x, NEW y, NEW z, NEW runs, NEW stressed, NEW stress, NEW s, NEW m \in Nat,
           DOMAIN runs = 1..m, DOMAIN stressed = 1..m,
           NEW calls, calls = CallsOf(x, y, z, runs, stressed, stress, s)
    PROVE  StoresStudies(calls, runs, stressed, stress, s)
<1>1. PICK f : f = <<Call("instruments", x), Call("universes", y), Call("memberships", z)>>
  OBVIOUS
<1>2. PICK g : g = <<Call("robustness", stress), Call("survivorship", s)>>
  OBVIOUS
<1>3. PICK a, b : a = CallsFor(runs) /\ b = CallsFor(stressed)
  OBVIOUS
<1>4. StoresNone(f)
  <2>1. PICK i, u, e : i = Call("instruments", x) /\ u = Call("universes", y) /\ e = Call("memberships", z)
    OBVIOUS
  <2>2. i.into = "instruments" /\ u.into = "universes" /\ e.into = "memberships"
    BY <2>1 DEF Call
  <2>3. i.into \notin Tables /\ u.into \notin Tables /\ e.into \notin Tables
    BY <2>2 DEF Tables, StudyTables
  <2>4. f = <<i, u, e>>
    BY <1>1, <2>1
  <2>5. IsSeq(f)
    BY <2>4, ThreeCalls
  <2>6. ASSUME NEW into \in Tables  PROVE RowsIn(f, into) = {}
    <3>1. \A r : r \in RowsIn(<<i, u, e>>, into) <=>
                 \/ i.into = into /\ r = i.row
                 \/ u.into = into /\ r = u.row
                 \/ e.into = into /\ r = e.row
      BY ThreeCalls
    <3>. QED  BY <2>3, <2>4, <3>1
  <2>. QED  BY <2>5, <2>6 DEF StoresNone
<1>5. /\ IsSeq(g) /\ RowsIn(g, "robustness") = {stress} /\ RowsIn(g, "survivorship") = {s}
      /\ RowsIn(g, "runs") = {} /\ RowsIn(g, "validations") = {}
      /\ RowsIn(g, "portfolios") = {} /\ RowsIn(g, "statistics") = {}
  <2>1. PICK i, u : i = Call("robustness", stress) /\ u = Call("survivorship", s)
    OBVIOUS
  <2>2. i.into = "robustness" /\ i.row = stress /\ u.into = "survivorship" /\ u.row = s
    BY <2>1 DEF Call
  <2>3. g = <<i, u>>
    BY <1>2, <2>1
  <2>4. IsSeq(g)
    BY <2>3, TwoCalls
  <2>5. \A into : \A r : r \in RowsIn(<<i, u>>, into) <=>
                 (i.into = into /\ r = i.row) \/ (u.into = into /\ r = u.row)
    BY TwoCalls
  <2>6. \A into : \A r : r \in RowsIn(g, into) <=>
                 ("robustness" = into /\ r = stress) \/ ("survivorship" = into /\ r = s)
    BY <2>2, <2>3, <2>5
  <2>7. RowsIn(g, "robustness") = {stress}
    BY <2>6
  <2>8. RowsIn(g, "survivorship") = {s}
    BY <2>6
  <2>9. \A into : into # "robustness" /\ into # "survivorship" => RowsIn(g, into) = {}
    BY <2>6
  <2>10. RowsIn(g, "runs") = {} /\ RowsIn(g, "validations") = {} /\ RowsIn(g, "portfolios") = {} /\ RowsIn(g, "statistics") = {}
    BY <2>9
  <2>. QED  BY <2>4, <2>7, <2>8, <2>10
<1>6. IsSeq(a) /\ RowsIn(a, "runs") = Live(runs) /\ \A into : into # "runs" => RowsIn(a, into) = {}
  BY <1>3, CallsForSays
<1>7. IsSeq(b) /\ RowsIn(b, "runs") = Live(stressed) /\ \A into : into # "runs" => RowsIn(b, into) = {}
  BY <1>3, CallsForSays
<1>8. IsSeq(f) /\ \A into \in Tables : RowsIn(f, into) = {}
  BY <1>4 DEF StoresNone
<1>9. IsSeq(f \o a) /\ \A into : RowsIn(f \o a, into) = RowsIn(f, into) \cup RowsIn(a, into)
  BY <1>6, <1>8, RowsJoined
<1>10. PICK h : h = f \o a
  OBVIOUS
<1>11. IsSeq(h \o b) /\ \A into : RowsIn(h \o b, into) = RowsIn(h, into) \cup RowsIn(b, into)
  BY <1>7, <1>9, <1>10, RowsJoined
<1>12. PICK l : l = h \o b
  OBVIOUS
<1>13. IsSeq(l \o g) /\ \A into : RowsIn(l \o g, into) = RowsIn(l, into) \cup RowsIn(g, into)
  BY <1>5, <1>11, <1>12, RowsJoined
<1>14. calls = l \o g
  BY <1>1, <1>2, <1>3, <1>10, <1>12 DEF CallsOf
<1>15. /\ IsSeq(calls)
       /\ \A into \in Tables : RowsIn(calls, into) = RowsIn(a, into) \cup RowsIn(b, into) \cup RowsIn(g, into)
  <2>1. ASSUME NEW into \in Tables
        PROVE  RowsIn(calls, into) = RowsIn(a, into) \cup RowsIn(b, into) \cup RowsIn(g, into)
    <3>1. RowsIn(h, into) = RowsIn(f, into) \cup RowsIn(a, into) /\ RowsIn(f, into) = {}
      BY <1>8, <1>9, <1>10
    <3>2. RowsIn(l, into) = RowsIn(h, into) \cup RowsIn(b, into)
      BY <1>11, <1>12
    <3>3. RowsIn(calls, into) = RowsIn(l, into) \cup RowsIn(g, into)
      BY <1>13, <1>14
    <3>. QED  BY <3>1, <3>2, <3>3
  <2>. QED  BY <1>13, <1>14, <2>1
<1>16. RowsIn(calls, "runs") = Live(runs) \cup Live(stressed)
  <2>1. "runs" \in Tables
    BY DEF Tables
  <2>. QED  BY <1>5, <1>6, <1>7, <1>15, <2>1
<1>17. \A into \in Tables \ {"runs"} : RowsIn(calls, into) = RowsIn(g, into)
  BY <1>6, <1>7, <1>15
<1>18. /\ "robustness" \in Tables \ {"runs"} /\ "survivorship" \in Tables \ {"runs"}
       /\ "validations" \in Tables \ {"runs"} /\ "portfolios" \in Tables \ {"runs"}
       /\ "statistics" \in Tables \ {"runs"}
  BY DEF Tables, StudyTables
<1>. QED  BY <1>5, <1>15, <1>16, <1>17, <1>18 DEF StoresStudies

\* Starting a survivorship study keeps the invariant.
LEMMA SurvivorshipBegins ==
    ASSUME EvidenceInv, NEW p \in Procs, NEW c, CommandType(c), RunSurvivorshipAwareRobustnessStudy(p, c)
    PROVE  EvidenceInv'
<1>1. /\ c.kind = "survivorship" /\ c.bundle \in DOMAIN Bundles
      /\ c.base \in Nat /\ c.stress_base \in Nat /\ c.manifest \in DOMAIN Manifests
  BY DEF RunSurvivorshipAwareRobustnessStudy, CommandType
<1>2. PICK bundle, master, manifest : /\ bundle = Bundles[c.bundle] /\ master = Masters[c.master]
                                      /\ manifest = Manifests[c.manifest]
  OBVIOUS
<1>3. PICK m, n : m = Len(bundle.specs) /\ n = started + 1
  OBVIOUS
<1>4. PICK runs, stressed : runs = SurvivorshipRuns(c) /\ stressed = RobustnessRuns(c, c.stress_base, m)
  OBVIOUS
<1>5. PICK stress : stress = build_robustness_study(StudyIdentity(c.stress, 2 * m + 1, c.bundle), bundle, stressed)
  OBVIOUS
<1>6. PICK identity : identity = [gov |-> c.gov, runtime |-> <<started + 1, 0>>, bundle |-> c.bundle,
                        universe |-> manifest.universe, stress |-> c.stress, policy |-> Frozen,
                        master |-> c.master, manifest |-> c.manifest]
  OBVIOUS
<1>7. PICK s : s = build_survivorship_aware_robustness_study(identity, bundle, master, manifest, runs)
  OBVIOUS
<1>8. PICK calls : calls = CallsOf(master, manifest.universe, manifest, runs, stressed, stress, s)
  OBVIOUS
<1>9. SurvivorshipBuildable(bundle, master, manifest) /\ Begin(p, calls)
  BY <1>2, <1>3, <1>4, <1>5, <1>6, <1>7, <1>8 DEF RunSurvivorshipAwareRobustnessStudy, CallsOf
<1>10. m \in Nat /\ n \in Nat /\ DOMAIN bundle.specs = 1..m
  BY <1>1, <1>2, <1>3, BundlesAre, StartedIsNat
<1>11. m # 0
  <2>1. \E k \in DOMAIN bundle.specs : TRUE
    BY <1>9 DEF SurvivorshipBuildable
  <2>. QED  BY <1>10, <2>1
<1>12. /\ Family(runs, m, n, 0)
       /\ Follows(s.windows, runs)
       /\ \A k \in 1..m : WindowAndRun(s.windows[k], runs[k], bundle, master, manifest, c.base, n, k)
  BY <1>1, <1>2, <1>3, <1>4, <1>7, <1>9, SurvivorshipFamily
<1>13. Family(stressed, m, n, m)
  BY <1>1, <1>2, <1>3, <1>4, <1>10, RobustnessFamily
<1>14. PICK R : R = Live(runs) \cup Live(stressed)
  OBVIOUS
<1>15. NewRuns(R, n) /\ Matches(runs, R) /\ Matches(stressed, R)
  BY <1>10, <1>12, <1>13, <1>14, FamiliesSay
<1>16. DOMAIN runs = 1..m /\ DOMAIN stressed = 1..m
  BY <1>12, <1>13 DEF Family
<1>17. /\ IsSeq(calls)
       /\ RowsIn(calls, "runs") = Live(runs) \cup Live(stressed)
       /\ RowsIn(calls, "robustness") = {stress}
       /\ RowsIn(calls, "survivorship") = {s}
       /\ RowsIn(calls, "validations") = {} /\ RowsIn(calls, "portfolios") = {} /\ RowsIn(calls, "statistics") = {}
  <2>1. PICK y : y = manifest.universe
    OBVIOUS
  <2>2. calls = CallsOf(master, y, manifest, runs, stressed, stress, s)
    BY <1>8, <2>1
  <2>3. StoresStudies(calls, runs, stressed, stress, s)
    BY <1>10, <1>16, <2>2, SurvivorshipCalls
  <2>. QED  BY <2>3 DEF StoresStudies
<1>18. NewStudy(s, R, n)
  <2>1. 0 \in Nat
    OBVIOUS
  <2>. QED  BY <1>10, <1>12, <1>15, <2>1, FamilyStudy
<1>19. NewStudy(stress, R, n)
  <2>1. Follows(stress.windows, stressed)
    BY <1>5, RobustnessFollows
  <2>. QED  BY <1>10, <1>13, <1>15, <2>1, FamilyStudy
<1>20. s.master = c.master /\ s.manifest = c.manifest /\ s.executed = ExecutedIn(s.windows) /\ s.net = NetIn(s.windows)
  <2>1. identity.master = c.master /\ identity.manifest = c.manifest
    BY <1>6
  <2>. QED  BY <1>7, <2>1 DEF build_survivorship_aware_robustness_study
<1>21. SurvivorshipOk(s, R)
  BY <1>1, <1>2, <1>10, <1>11, <1>12, <1>15, <1>20, SurvivorshipIsOk
<1>22. RowsIn(calls, "runs") = R
  BY <1>14, <1>17
<1>23. \A into \in StudyTables : \A q \in RowsIn(calls, into) : NewStudy(q, R, n)
  BY <1>17, <1>18, <1>19 DEF StudyTables
<1>24. New(calls, db, n)
  BY <1>15, <1>17, <1>21, <1>22, <1>23 DEF New
<1>. QED  BY <1>3, <1>9, <1>24, Begins

------------------------------------------------------------------------------
(* The runs of a stored study *)

\* What is read of the runs of a study: one for each window that has one, with
\* the results the window shows.
ReadsOf(s, w, runs, cited, R) ==
    /\ \E m \in Nat \ {0} : DOMAIN w = 1..m
    /\ \E n \in Nat : DOMAIN cited = 1..n
    /\ DOMAIN runs = DOMAIN cited
    /\ \A j \in DOMAIN cited :
          /\ cited[j] \in DOMAIN w /\ w[cited[j]].gov \in Nat /\ w[cited[j]].gov # 0
          /\ runs[j] \in R /\ runs[j].runtime = w[cited[j]].runtime
          /\ SurvivorRun(s, w[cited[j]], runs[j])
          /\ w[cited[j]].net = NetOf(runs[j].trades)
          /\ w[cited[j]].executed = Cardinality(Executed(runs[j].trades))
    /\ \A k \in DOMAIN w : (\E j \in DOMAIN cited : cited[j] = k)
                                   \/ (w[k].net = 0 /\ w[k].executed = 0)
    /\ \A i, j \in DOMAIN cited : cited[i] = cited[j] => i = j
    /\ \A i, j \in DOMAIN cited : w[cited[i]].gov = w[cited[j]].gov => i = j
    /\ \A j \in DOMAIN cited : \A k \in DOMAIN w : runs[j].runtime = w[k].runtime => k = cited[j]
    /\ \A k \in DOMAIN w : \A r \in R : r.runtime = w[k].runtime =>
          \E j \in DOMAIN cited : cited[j] = k /\ runs[j] = r

Reads(s, runs, cited, R) == ReadsOf(s, s.windows, runs, cited, R)

\* A report that reads a stored study finds the run of every window with one.
LEMMA StudyReads ==
    ASSUME EvidenceInv, NEW s \in db.survivorship, NEW runs, runs = WindowRuns(s),
           NEW cited, cited = Cited(s.windows)
    PROVE  Reads(s, runs, cited, db.runs)
<1>1. PICK n, A : n = started /\ A = Rows(db, todo, "runs")
  OBVIOUS
<1>2. /\ RunsOk(A, n) /\ StudyOk(s, A, n) /\ SurvivorshipOk(s, A) /\ Cites(s, db.runs)
  <2>1. s \in Rows(db, todo, "survivorship") /\ "survivorship" \in StudyTables
    BY DEF Rows, StudyTables
  <2>2. InvOf(db, todo, started)
    BY DEF EvidenceInv
  <2>. QED  BY <1>1, <2>1, <2>2 DEF InvOf, StudiesOk, SurvivorshipsOk, StudiesCite
<1>3. PICK R : R = db.runs
  OBVIOUS
<1>4. R \subseteq A
  BY <1>1, <1>3 DEF Rows
<1>5. PICK m \in Nat \ {0} : DOMAIN s.windows = 1..m
  BY <1>2 DEF SurvivorshipOk
<1>6. PICK w : w = s.windows
  OBVIOUS
<1>7. /\ \E l \in Nat : DOMAIN cited = 1..l
      /\ \A i \in DOMAIN cited : cited[i] \in 1..m /\ w[cited[i]].gov # 0
      /\ \A k \in 1..m : w[k].gov # 0 => \E i \in DOMAIN cited : cited[i] = k
      /\ \A i, j \in DOMAIN cited : cited[i] = cited[j] => i = j
  <2>1. DOMAIN w = 1..m /\ cited = Cited(w)
    BY <1>5, <1>6
  <2>. QED  BY <2>1, CitedSays
<1>8. /\ DOMAIN runs = DOMAIN cited
      /\ \A j \in DOMAIN cited : runs[j] = GetRun(w[cited[j]].gov, w[cited[j]].runtime)
  BY <1>6 DEF WindowRuns
<1>9. \A k \in 1..m : WindowOk(w[k], A, n) /\ SurvivorWindow(s, w[k], A)
  BY <1>2, <1>5, <1>6 DEF StudyOk, SurvivorshipOk
<1>10. ASSUME NEW k \in 1..m, NEW r \in R, r.runtime = w[k].runtime
       PROVE  /\ r.gov = w[k].gov /\ w[k].gov # 0
              /\ w[k].net = NetOf(r.trades) /\ w[k].executed = Cardinality(Executed(r.trades))
              /\ SurvivorRun(s, w[k], r)
  <2>1. r \in A
    BY <1>4
  <2>2. Copies(w[k], A) /\ (w[k].gov = 0 => w[k].runtime = <<>>) /\ SurvivorWindow(s, w[k], A)
    BY <1>9 DEF WindowOk
  <2>3. r.runtime # <<>>
    <3>1. PICK a, b : r.runtime = <<a, b>>
      BY <1>2, <2>1 DEF RunsOk, Begun
    <3>2. <<a, b>> # <<>>
      OBVIOUS
    <3>. QED  BY <3>1, <3>2
  <2>. QED  BY <1>10, <2>1, <2>2, <2>3 DEF Copies, SurvivorWindow
<1>11. ASSUME NEW j \in DOMAIN cited
       PROVE  runs[j] \in R /\ runs[j].runtime = w[cited[j]].runtime
  <2>1. PICK k : k = cited[j]
    OBVIOUS
  <2>2. k \in 1..m /\ w[k].gov # 0
    BY <1>7, <2>1
  <2>3. PICK r \in R : r.runtime = w[k].runtime
    BY <1>2, <1>3, <1>5, <1>6, <2>2 DEF Cites
  <2>4. r.gov = w[k].gov
    BY <1>10, <2>2, <2>3
  <2>5. runs[j] = CHOOSE q \in R : q.gov = w[k].gov /\ q.runtime = w[k].runtime
    BY <1>3, <1>8, <2>1 DEF GetRun
  <2>. QED  BY <2>1, <2>3, <2>4, <2>5
<1>12. ASSUME NEW j \in DOMAIN cited
       PROVE  /\ SurvivorRun(s, w[cited[j]], runs[j])
              /\ w[cited[j]].net = NetOf(runs[j].trades)
              /\ w[cited[j]].executed = Cardinality(Executed(runs[j].trades))
  BY <1>7, <1>10, <1>11
<1>13. ASSUME NEW k \in 1..m
       PROVE  (\E j \in DOMAIN cited : cited[j] = k) \/ (w[k].net = 0 /\ w[k].executed = 0)
  BY <1>7, <1>9 DEF WindowOk
<1>14. ASSUME NEW j \in DOMAIN cited, NEW k \in 1..m, runs[j].runtime = w[k].runtime
       PROVE  k = cited[j]
  <2>1. PICK r, l : r = runs[j] /\ l = cited[j]
    OBVIOUS
  <2>2. r \in R /\ r.runtime = w[l].runtime /\ l \in 1..m /\ r.runtime = w[k].runtime
    BY <1>7, <1>11, <1>14, <2>1
  <2>3. r.gov = w[l].gov /\ r.gov = w[k].gov /\ w[k].gov # 0
    BY <1>10, <2>2
  <2>4. l = k
    BY <1>2, <1>5, <1>6, <2>2, <2>3 DEF SurvivorshipOk
  <2>. QED  BY <2>1, <2>4
<1>15. ASSUME NEW k \in 1..m, NEW r \in R, r.runtime = w[k].runtime
       PROVE  \E j \in DOMAIN cited : cited[j] = k /\ runs[j] = r
  <2>1. w[k].gov # 0
    BY <1>10, <1>15
  <2>2. PICK j \in DOMAIN cited : cited[j] = k
    BY <1>7, <2>1
  <2>3. runs[j] \in R /\ runs[j].runtime = r.runtime
    BY <1>11, <1>15, <2>2
  <2>4. runs[j] = r
    BY <1>2, <1>4, <2>3 DEF RunsOk
  <2>. QED  BY <2>2, <2>4
<1>16. Reads(s, runs, cited, R)
  <2>1. /\ \E l \in Nat \ {0} : DOMAIN w = 1..l
        /\ \E l \in Nat : DOMAIN cited = 1..l
        /\ DOMAIN runs = DOMAIN cited
    BY <1>5, <1>6, <1>7, <1>8
  <2>2. ASSUME NEW j \in DOMAIN cited
        PROVE  /\ cited[j] \in DOMAIN w /\ w[cited[j]].gov \in Nat /\ w[cited[j]].gov # 0
               /\ runs[j] \in R /\ runs[j].runtime = w[cited[j]].runtime
               /\ SurvivorRun(s, w[cited[j]], runs[j])
               /\ w[cited[j]].net = NetOf(runs[j].trades)
               /\ w[cited[j]].executed = Cardinality(Executed(runs[j].trades))
    <3>1. cited[j] \in 1..m
      BY <1>7
    <3>2. w[cited[j]].gov \in Nat
      BY <1>9, <3>1 DEF SurvivorWindow
    <3>. QED  BY <1>5, <1>6, <1>7, <1>11, <1>12, <3>2
  <2>3. DOMAIN w = 1..m
    BY <1>5, <1>6
  <2>4. \A k \in DOMAIN w : (\E j \in DOMAIN cited : cited[j] = k) \/ (w[k].net = 0 /\ w[k].executed = 0)
    BY <1>13, <2>3
  <2>5. \A i, j \in DOMAIN cited : cited[i] = cited[j] => i = j
    BY <1>7
  <2>6. \A j \in DOMAIN cited : \A k \in DOMAIN w : runs[j].runtime = w[k].runtime => k = cited[j]
    BY <1>14, <2>3
  <2>7. \A k \in DOMAIN w : \A r \in R : r.runtime = w[k].runtime =>
          \E j \in DOMAIN cited : cited[j] = k /\ runs[j] = r
    BY <1>15, <2>3
  <2>8. DOMAIN runs = DOMAIN cited
    BY <1>8
  <2>9. \A i, j \in DOMAIN cited : w[cited[i]].gov = w[cited[j]].gov => i = j
    <3>1. \A j, k \in 1..m : w[j].gov = w[k].gov /\ w[k].gov # 0 => j = k
      BY <1>2, <1>5, <1>6 DEF SurvivorshipOk
    <3>. QED  BY <1>7, <3>1
  <2>10. ReadsOf(s, w, runs, cited, R)
    BY <2>1, <2>2, <2>4, <2>5, <2>6, <2>7, <2>8, <2>9, Zenon DEF ReadsOf
  <2>. QED  BY <1>6, <2>10 DEF Reads
<1>. QED  BY <1>3, <1>16

\* Runs that have lists of trades.
Trading(runs, n) ==
    /\ n \in Nat /\ DOMAIN runs = 1..n
    /\ \A j \in 1..n : /\ \E q \in Nat : DOMAIN runs[j].trades = 1..q
                       /\ \A i \in DOMAIN runs[j].trades : TradeCounts(runs[j].trades[i])

Places(runs) == DOMAIN AllTrades(runs)

\* The places of the executed trades of a list of runs.
LEMMA PlacesSay ==
    ASSUME NEW runs, NEW n, Trading(runs, n)
    PROVE  /\ IsFiniteSet(Places(runs))
           /\ \A x : x \in Places(runs) <=>
                 \E j \in 1..n : \E i \in Executed(runs[j].trades) : x = <<j, i>>
           /\ \A j \in 1..n : IsFiniteSet(DOMAIN runs[j].trades) /\ IsFiniteSet(Executed(runs[j].trades))
<1>. DEFINE E(j) == Executed(runs[j].trades)
            of(j) == {<<j, i>> : i \in E(j)}
            S == {of(j) : j \in 1..n}
<1>1. n \in Nat /\ DOMAIN runs = 1..n
  BY DEF Trading
<1>2. Places(runs) = UNION S
  BY <1>1 DEF Places, AllTrades
<1>3. ASSUME NEW j \in 1..n
      PROVE  IsFiniteSet(DOMAIN runs[j].trades) /\ IsFiniteSet(E(j)) /\ IsFiniteSet(of(j))
  <2>1. PICK q \in Nat : DOMAIN runs[j].trades = 1..q
    BY DEF Trading
  <2>2. IsFiniteSet(1..q)
    BY FS_Interval
  <2>3. E(j) \subseteq DOMAIN runs[j].trades
    BY DEF Executed
  <2>4. IsFiniteSet(DOMAIN runs[j].trades) /\ IsFiniteSet(E(j))
    BY <2>1, <2>2, <2>3, FS_Subset
  <2>5. PICK f : f = [i \in E(j) |-> <<j, i>>]
    OBVIOUS
  <2>. HIDE DEF E
  <2>6. DOMAIN f = E(j) /\ {f[i] : i \in DOMAIN f} = of(j)
    BY <2>5
  <2>. HIDE DEF of
  <2>7. IsFiniteSet(of(j))
    BY <2>4, <2>6, FiniteImage
  <2>. QED  BY <2>4, <2>7
<1>4. IsFiniteSet(S)
  <2>1. IsFiniteSet(1..n)
    BY <1>1, FS_Interval
  <2>2. PICK f : f = [j \in 1..n |-> of(j)]
    OBVIOUS
  <2>. HIDE DEF of
  <2>3. DOMAIN f = 1..n /\ {f[j] : j \in DOMAIN f} = S
    BY <2>2
  <2>. HIDE DEF S
  <2>. QED  BY <2>1, <2>3, FiniteImage
<1>5. \A T \in S : IsFiniteSet(T)
  BY <1>3
<1>6. IsFiniteSet(UNION S)
  <2>. HIDE DEF S
  <2>. QED  BY <1>4, <1>5, FS_UNION
<1>7. \A x : x \in UNION S <=> \E j \in 1..n : \E i \in E(j) : x = <<j, i>>
  OBVIOUS
<1>. QED  BY <1>2, <1>3, <1>6, <1>7

\* Adding up over the executed trades of the runs is adding up over the trades
\* of each run, when the others count for nothing.
Worth(val, runs, n) ==
    \A j \in 1..n : \A i \in DOMAIN runs[j].trades :
        val[j][i] \in Int /\ (i \notin Executed(runs[j].trades) => val[j][i] = 0)

\* A sum over the places is that of the runs' sums.
LEMMA SumOverPlaces ==
    ASSUME NEW runs, NEW n, Trading(runs, n), NEW val, Worth(val, runs, n),
           NEW f, \A x \in Places(runs) : f[x] = val[x[1]][x[2]],
           NEW g, \A j \in 1..n : g[j] = SumFunctionOnSet(val[j], DOMAIN runs[j].trades)
    PROVE  SumFunctionOnSet(f, Places(runs)) = SumFunctionOnSet(g, 1..n)
<1>0. \A j \in 1..n : \A i \in DOMAIN runs[j].trades :
        val[j][i] \in Int /\ (i \notin Executed(runs[j].trades) => val[j][i] = 0)
  BY DEF Worth
<1>1. PICK S : S = Places(runs)
  OBVIOUS
<1>2. /\ n \in Nat /\ IsFiniteSet(S) /\ IsFiniteSet(1..n)
      /\ \A x : x \in S <=> \E j \in 1..n : \E i \in Executed(runs[j].trades) : x = <<j, i>>
      /\ \A j \in 1..n : IsFiniteSet(DOMAIN runs[j].trades)
  <2>1. n \in Nat
    BY DEF Trading
  <2>2. IsFiniteSet(1..n)
    BY <2>1, FS_Interval
  <2>. QED  BY <1>1, <2>1, <2>2, PlacesSay
<1>3. \A x \in S : f[x] = val[x[1]][x[2]]
  BY <1>1
<1>4. ASSUME NEW x \in S
      PROVE  /\ x[1] \in 1..n /\ x[2] \in Executed(runs[x[1]].trades)
             /\ x[2] \in DOMAIN runs[x[1]].trades /\ f[x] \in Int /\ x = <<x[1], x[2]>>
  <2>1. PICK j \in 1..n : \E i \in Executed(runs[j].trades) : x = <<j, i>>
    BY <1>2
  <2>2. PICK i \in Executed(runs[j].trades) : x = <<j, i>>
    BY <2>1
  <2>3. x[1] = j /\ x[2] = i
    BY <2>2
  <2>4. i \in DOMAIN runs[j].trades
    BY DEF Executed
  <2>5. f[x] = val[j][i] /\ val[j][i] \in Int
    BY <1>0, <1>3, <2>3, <2>4
  <2>. QED  BY <2>2, <2>3, <2>4, <2>5
<1>5. PICK h : h = [x \in S |-> x[1]]
  OBVIOUS
<1>6. \A x \in S : h[x] = x[1]
  BY <1>5
<1>7. ASSUME NEW j \in 1..n
      PROVE  g[j] = SumFunctionOnSet(f, Group(S, h, j))
  <2>1. PICK D, T, v : D = DOMAIN runs[j].trades /\ T = Group(S, h, j) /\ v = val[j]
    OBVIOUS
  <2>2. \A x : x \in T <=> x \in S /\ x[1] = j
    BY <1>6, <2>1 DEF Group
  <2>3. IsFiniteSet(T) /\ IsFiniteSet(D)
    <3>1. T \subseteq S
      BY <2>2
    <3>. QED  BY <1>2, <2>1, <3>1, FS_Subset
  <2>4. PICK l : l = [i \in D |-> <<j, i>>]
    OBVIOUS
  <2>5. \A i \in D : l[i] = <<j, i>>
    BY <2>4
  <2>6. ASSUME NEW i \in D  PROVE v[i] \in Int /\ (l[i] \in T \/ v[i] = 0)
    <3>1. v[i] \in Int /\ (i \notin Executed(runs[j].trades) => v[i] = 0)
      BY <1>0, <2>1
    <3>2. i \in Executed(runs[j].trades) => <<j, i>> \in S
      BY <1>2
    <3>3. <<j, i>>[1] = j
      OBVIOUS
    <3>. QED  BY <2>2, <2>5, <3>1, <3>2, <3>3
  <2>7. ASSUME NEW x \in T  PROVE f[x] = SumFunctionOnSet(v, Group(D, l, x))
    <3>1. x \in S /\ x[1] = j /\ x = <<j, x[2]>>
      BY <1>4, <2>2
    <3>2. x[2] \in D
      BY <1>4, <2>1, <3>1
    <3>3. PICK i : i = x[2]
      OBVIOUS
    <3>4. x = <<j, i>> /\ i \in D
      BY <3>1, <3>2, <3>3
    <3>5. ASSUME NEW y \in D, <<j, y>> = <<j, i>>  PROVE y = i
      <4>1. <<j, y>>[2] = <<j, i>>[2]
        BY <3>5
      <4>. QED  BY <4>1
    <3>6. \A y : y \in Group(D, l, x) <=> y = i
      BY <2>5, <3>4, <3>5 DEF Group
    <3>7. Group(D, l, x) = {i}
      BY <3>6
    <3>8. v[i] \in Int
      BY <2>6, <3>4
    <3>9. SumFunctionOnSet(v, {i}) = v[i]
      BY <3>8, SumOfOne
    <3>10. f[x] = v[i]
      BY <1>3, <2>1, <3>1, <3>3
    <3>. QED  BY <3>7, <3>9, <3>10
  <2>8. SumFunctionOnSet(v, D) = SumFunctionOnSet(f, T)
    BY <2>3, <2>6, <2>7, SumByGroups
  <2>9. g[j] = SumFunctionOnSet(v, D)
    BY <2>1
  <2>. QED  BY <2>1, <2>8, <2>9
<1>8. \A x \in S : f[x] \in Int /\ (h[x] \in 1..n \/ f[x] = 0)
  BY <1>4, <1>6
<1>9. PICK N : N = 1..n
  OBVIOUS
<1>10. SumFunctionOnSet(f, S) = SumFunctionOnSet(g, N)
  <2>1. IsFiniteSet(N) /\ \A j \in N : g[j] = SumFunctionOnSet(f, Group(S, h, j))
    BY <1>2, <1>7, <1>9
  <2>2. \A x \in S : f[x] \in Int
    BY <1>8
  <2>3. \A x \in S : h[x] \in N \/ f[x] = 0
    BY <1>8, <1>9
  <2>4. \A j \in N : g[j] = SumFunctionOnSet(f, Group(S, h, j))
    BY <2>1
  <2>5. IsFiniteSet(N) /\ IsFiniteSet(S)
    BY <1>2, <2>1
  <2>. QED  BY <2>2, <2>3, <2>4, <2>5, SumByGroups
<1>. QED  BY <1>1, <1>9, <1>10

\* Adding up over the windows is adding up over those that have a run.
CitesOnce(cited, m, n) ==
    /\ m \in Nat /\ n \in Nat
    /\ \A j \in 1..n : cited[j] \in 1..m
    /\ \A i, j \in 1..n : cited[i] = cited[j] => i = j

CitedTerms(f, cited, m, n) ==
    \A k \in 1..m : f[k] \in Int /\ ((\E j \in 1..n : cited[j] = k) \/ f[k] = 0)

\* A sum over the windows is that over the cited ones.
LEMMA SumOverCited ==
    ASSUME NEW m, NEW n, NEW cited, CitesOnce(cited, m, n), NEW f, CitedTerms(f, cited, m, n),
           NEW g, \A j \in 1..n : g[j] = f[cited[j]]
    PROVE  SumFunctionOnSet(f, 1..m) = SumFunctionOnSet(g, 1..n)
<1>0. /\ m \in Nat /\ n \in Nat /\ (\A j \in 1..n : cited[j] \in 1..m)
      /\ \A i, j \in 1..n : cited[i] = cited[j] => i = j
      /\ \A k \in 1..m : f[k] \in Int /\ ((\E j \in 1..n : cited[j] = k) \/ f[k] = 0)
  BY DEF CitesOnce, CitedTerms
<1>1. PICK M, N : M = 1..m /\ N = 1..n
  OBVIOUS
<1>2. IsFiniteSet(M) /\ IsFiniteSet(N)
  BY <1>0, <1>1, FS_Interval
<1>3. PICK h : h = [k \in M |-> IF \E j \in N : cited[j] = k THEN CHOOSE j \in N : cited[j] = k ELSE 0]
  OBVIOUS
<1>4. ASSUME NEW k \in M, NEW j \in N, cited[j] = k  PROVE h[k] = j
  <2>1. h[k] = CHOOSE i \in N : cited[i] = k
    BY <1>3, <1>4
  <2>2. h[k] \in N /\ cited[h[k]] = k
    BY <1>4, <2>1
  <2>. QED  BY <1>0, <1>1, <1>4, <2>2
<1>5. ASSUME NEW k \in M, ~\E j \in N : cited[j] = k  PROVE h[k] = 0
  BY <1>3, <1>5
<1>6. \A k \in M : f[k] \in Int /\ (h[k] \in N \/ f[k] = 0)
  BY <1>0, <1>1, <1>4
<1>7. 0 \notin N
  BY <1>1
<1>8. ASSUME NEW j \in N  PROVE g[j] = SumFunctionOnSet(f, Group(M, h, j))
  <2>1. PICK k : k = cited[j]
    OBVIOUS
  <2>2. k \in M /\ h[k] = j
    BY <1>0, <1>1, <1>4, <2>1
  <2>3. ASSUME NEW x \in M, h[x] = j  PROVE x = k
    <3>1. PICK i \in N : cited[i] = x
      BY <1>5, <1>7, <2>3
    <3>2. i = j
      BY <1>4, <2>3, <3>1
    <3>. QED  BY <2>1, <3>1, <3>2
  <2>4. \A x : x \in Group(M, h, j) <=> x = k
    BY <2>2, <2>3 DEF Group
  <2>5. Group(M, h, j) = {k}
    BY <2>4
  <2>6. f[k] \in Int
    BY <1>0, <1>1, <2>2
  <2>7. SumFunctionOnSet(f, {k}) = f[k]
    BY <2>6, SumOfOne
  <2>. QED  BY <1>1, <2>1, <2>5, <2>7
<1>9. SumFunctionOnSet(f, M) = SumFunctionOnSet(g, N)
  BY <1>2, <1>6, <1>8, SumByGroups
<1>. QED  BY <1>1, <1>9

\* The number of the elements of a set is a sum of ones.
LEMMA SumOfMarks ==
    ASSUME NEW D, IsFiniteSet(D), NEW E \in SUBSET D, NEW f, \A x \in D : f[x] = IF x \in E THEN 1 ELSE 0
    PROVE  SumFunctionOnSet(f, D) = Cardinality(E)
<1>1. IsFiniteSet(E)
  BY FS_Subset
<1>2. PICK h : h = [x \in D |-> x]
  OBVIOUS
<1>3. \A x \in D : f[x] \in Int /\ (h[x] \in E \/ f[x] = 0)
  BY <1>2
<1>4. ASSUME NEW x \in E  PROVE f[x] = SumFunctionOnSet(f, Group(D, h, x))
  <2>1. \A y : y \in Group(D, h, x) <=> y = x
    BY <1>2 DEF Group
  <2>2. Group(D, h, x) = {x}
    BY <2>1
  <2>3. SumFunctionOnSet(f, {x}) = f[x]
    BY <1>3, SumOfOne
  <2>. QED  BY <2>2, <2>3
<1>5. SumFunctionOnSet(f, D) = SumFunctionOnSet(f, E)
  BY <1>1, <1>3, <1>4, SumByGroups
<1>6. \A x \in E : f[x] = 1
  OBVIOUS
<1>7. SumFunctionOnSet(f, E) = Cardinality(E)
  BY <1>1, <1>6, SumOfOnes
<1>. QED  BY <1>5, <1>7

\* The sum of a function is that over its domain.
LEMMA SumIs ==
    ASSUME NEW f, NEW D, DOMAIN f = D
    PROVE  SumFunction(f) = SumFunctionOnSet(f, D)
  BY DEF SumFunction

\* The net of all the trades is the sum of the runs' nets.
LEMMA NetOfRuns ==
    ASSUME NEW runs, NEW n, Trading(runs, n), NEW g, \A j \in 1..n : g[j] = NetOf(runs[j].trades)
    PROVE  /\ NetOf(AllTrades(runs)) = SumFunctionOnSet(g, 1..n)
           /\ \A j \in 1..n : g[j] \in Int
<1>1. PICK val : val = [j \in 1..n |-> [i \in DOMAIN runs[j].trades |-> runs[j].trades[i].net]]
  OBVIOUS
<1>2. ASSUME NEW j \in 1..n
      PROVE  /\ DOMAIN val[j] = DOMAIN runs[j].trades
             /\ \A i \in DOMAIN runs[j].trades : val[j][i] = runs[j].trades[i].net
             /\ val[j] = [i \in DOMAIN runs[j].trades |-> runs[j].trades[i].net]
  BY <1>1
<1>3. ASSUME NEW j \in 1..n, NEW i \in DOMAIN runs[j].trades
      PROVE  val[j][i] \in Int /\ (i \notin Executed(runs[j].trades) => val[j][i] = 0)
  <2>1. TradeCounts(runs[j].trades[i])
    BY DEF Trading
  <2>2. i \notin Executed(runs[j].trades) => runs[j].trades[i].outcome = "NO_ENTRY"
    BY DEF Executed, executed
  <2>3. val[j][i] = runs[j].trades[i].net
    BY <1>2
  <2>. QED  BY <2>1, <2>2, <2>3 DEF TradeCounts
<1>4. ASSUME NEW j \in 1..n  PROVE g[j] = SumFunctionOnSet(val[j], DOMAIN runs[j].trades)
  <2>1. NetOf(runs[j].trades) = SumFunction(val[j])
    BY <1>2 DEF NetOf
  <2>2. SumFunction(val[j]) = SumFunctionOnSet(val[j], DOMAIN runs[j].trades)
    BY <1>2, SumIs
  <2>. QED  BY <2>1, <2>2
<1>5. PICK f : f = [x \in Places(runs) |-> AllTrades(runs)[x].net]
  OBVIOUS
<1>6. NetOf(AllTrades(runs)) = SumFunctionOnSet(f, Places(runs))
  <2>1. NetOf(AllTrades(runs)) = SumFunction(f)
    BY <1>5 DEF NetOf, Places
  <2>2. DOMAIN f = Places(runs)
    BY <1>5
  <2>. QED  BY <2>1, <2>2, SumIs
<1>7. ASSUME NEW x \in Places(runs)  PROVE f[x] = val[x[1]][x[2]]
  <2>1. PICK j \in 1..n : \E i \in Executed(runs[j].trades) : x = <<j, i>>
    BY PlacesSay
  <2>2. PICK i \in Executed(runs[j].trades) : x = <<j, i>>
    BY <2>1
  <2>3. x[1] = j /\ x[2] = i /\ i \in DOMAIN runs[j].trades
    BY <2>2 DEF Executed
  <2>4. AllTrades(runs)[x] = runs[x[1]].trades[x[2]]
    BY DEF Places, AllTrades
  <2>5. f[x] = runs[j].trades[i].net
    BY <1>5, <2>3, <2>4
  <2>6. val[j][i] = runs[j].trades[i].net
    BY <1>2, <2>3
  <2>. QED  BY <2>3, <2>5, <2>6
<1>8. \A j \in 1..n : g[j] \in Int
  <2>1. ASSUME NEW j \in 1..n  PROVE g[j] \in Int
    <3>1. IsFiniteSet(DOMAIN runs[j].trades)
      BY PlacesSay
    <3>2. PICK v, D : v = val[j] /\ D = DOMAIN runs[j].trades
      OBVIOUS
    <3>3. IsFiniteSet(D) /\ \A i \in D : v[i] \in Int
      BY <1>3, <3>1, <3>2
    <3>4. SumFunctionOnSet(v, D) \in Int
      BY <3>3, SumSays
    <3>. QED  BY <1>4, <3>2, <3>4
  <2>. QED  BY <2>1
<1>9. SumFunctionOnSet(f, Places(runs)) = SumFunctionOnSet(g, 1..n)
  <2>1. Worth(val, runs, n)
    BY <1>3 DEF Worth
  <2>. QED  BY <1>4, <1>7, <2>1, SumOverPlaces
<1>. QED  BY <1>6, <1>8, <1>9

\* All the trades are as many as the runs' trades together.
LEMMA NumberOfTrades ==
    ASSUME NEW runs, NEW n, Trading(runs, n), NEW g, \A j \in 1..n : g[j] = Cardinality(Executed(runs[j].trades))
    PROVE  /\ Cardinality(Places(runs)) = SumFunctionOnSet(g, 1..n)
           /\ \A j \in 1..n : g[j] \in Int
<1>1. PICK val : val = [j \in 1..n |-> [i \in DOMAIN runs[j].trades |-> IF i \in Executed(runs[j].trades) THEN 1 ELSE 0]]
  OBVIOUS
<1>2. ASSUME NEW j \in 1..n, NEW i \in DOMAIN runs[j].trades
      PROVE  val[j][i] = IF i \in Executed(runs[j].trades) THEN 1 ELSE 0
  BY <1>1
<1>3. ASSUME NEW j \in 1..n
      PROVE  g[j] = SumFunctionOnSet(val[j], DOMAIN runs[j].trades) /\ g[j] \in Int
  <2>1. IsFiniteSet(DOMAIN runs[j].trades) /\ IsFiniteSet(Executed(runs[j].trades))
    BY PlacesSay
  <2>2. PICK v, D, E : v = val[j] /\ D = DOMAIN runs[j].trades /\ E = Executed(runs[j].trades)
    OBVIOUS
  <2>3. E \in SUBSET D
    BY <2>2 DEF Executed
  <2>4. \A i \in D : v[i] = IF i \in E THEN 1 ELSE 0
    BY <1>2, <2>2
  <2>5. SumFunctionOnSet(v, D) = Cardinality(E)
    BY <2>1, <2>2, <2>3, <2>4, SumOfMarks
  <2>6. Cardinality(E) \in Nat
    BY <2>1, <2>2, FS_CardinalityType
  <2>. QED  BY <2>2, <2>5, <2>6
<1>4. PICK f : f = [x \in Places(runs) |-> 1]
  OBVIOUS
<1>5. Cardinality(Places(runs)) = SumFunctionOnSet(f, Places(runs))
  <2>1. PICK S : S = Places(runs)
    OBVIOUS
  <2>2. IsFiniteSet(S) /\ \A x \in S : f[x] = 1
    BY <1>4, <2>1, PlacesSay
  <2>3. SumFunctionOnSet(f, S) = Cardinality(S)
    BY <2>2, SumOfOnes
  <2>. QED  BY <2>1, <2>3
<1>6. ASSUME NEW x \in Places(runs)  PROVE f[x] = val[x[1]][x[2]]
  <2>1. PICK j \in 1..n : \E i \in Executed(runs[j].trades) : x = <<j, i>>
    BY PlacesSay
  <2>2. PICK i \in Executed(runs[j].trades) : x = <<j, i>>
    BY <2>1
  <2>3. x[1] = j /\ x[2] = i /\ i \in DOMAIN runs[j].trades
    BY <2>2 DEF Executed
  <2>. QED  BY <1>2, <1>4, <2>3
<1>7. \A j \in 1..n : \A i \in DOMAIN runs[j].trades :
         val[j][i] \in Int /\ (i \notin Executed(runs[j].trades) => val[j][i] = 0)
  BY <1>2
<1>8. SumFunctionOnSet(f, Places(runs)) = SumFunctionOnSet(g, 1..n)
  <2>1. \A j \in 1..n : g[j] = SumFunctionOnSet(val[j], DOMAIN runs[j].trades)
    BY <1>3
  <2>2. Worth(val, runs, n)
    BY <1>7 DEF Worth
  <2>. QED  BY <1>6, <2>1, <2>2, SumOverPlaces
<1>. QED  BY <1>3, <1>5, <1>8

\* The totals of a study are those of the executed trades of its runs.
LEMMA StudyAddsUp ==
    ASSUME NEW s, NEW runs, NEW cited, NEW R, Reads(s, runs, cited, R)
    PROVE  /\ \E n \in Nat : DOMAIN cited = 1..n /\ Trading(runs, n)
           /\ NetOf(AllTrades(runs)) = NetIn(s.windows)
           /\ Cardinality(Places(runs)) = ExecutedIn(s.windows)
<1>1. PICK w : w = s.windows
  OBVIOUS
<1>2. ReadsOf(s, w, runs, cited, R)
  BY <1>1 DEF Reads
<1>3. PICK m \in Nat \ {0} : DOMAIN w = 1..m
  BY <1>2 DEF ReadsOf
<1>4. PICK n \in Nat : DOMAIN cited = 1..n
  BY <1>2 DEF ReadsOf
<1>5. Trading(runs, n)
  <2>1. DOMAIN runs = 1..n /\ \A j \in 1..n : SurvivorRun(s, w[cited[j]], runs[j])
    BY <1>2, <1>4 DEF ReadsOf
  <2>. QED  BY <2>1 DEF Trading, SurvivorRun, TradeOk
<1>6. /\ \A j \in 1..n : cited[j] \in 1..m
      /\ \A i, j \in 1..n : cited[i] = cited[j] => i = j
      /\ \A k \in 1..m : (\E j \in 1..n : cited[j] = k) \/ (w[k].net = 0 /\ w[k].executed = 0)
      /\ \A j \in 1..n : /\ w[cited[j]].net = NetOf(runs[j].trades)
                         /\ w[cited[j]].executed = Cardinality(Executed(runs[j].trades))
  BY <1>2, <1>3, <1>4 DEF ReadsOf
<1>7. NetOf(AllTrades(runs)) = NetIn(w)
  <2>1. PICK f, g : f = [k \in 1..m |-> w[k].net] /\ g = [j \in 1..n |-> NetOf(runs[j].trades)]
    OBVIOUS
  <2>2. \A j \in 1..n : g[j] = NetOf(runs[j].trades)
    BY <2>1
  <2>3. NetOf(AllTrades(runs)) = SumFunctionOnSet(g, 1..n) /\ \A j \in 1..n : g[j] \in Int
    BY <1>5, <2>2, NetOfRuns
  <2>4. \A j \in 1..n : g[j] = f[cited[j]]
    BY <1>6, <2>1
  <2>5. ASSUME NEW k \in 1..m  PROVE f[k] \in Int /\ ((\E j \in 1..n : cited[j] = k) \/ f[k] = 0)
    <3>1. f[k] = w[k].net
      BY <2>1
    <3>. QED  BY <1>6, <2>3, <2>4, <3>1
  <2>6. SumFunctionOnSet(f, 1..m) = SumFunctionOnSet(g, 1..n)
    <3>1. CitesOnce(cited, m, n)
      BY <1>6 DEF CitesOnce
    <3>2. CitedTerms(f, cited, m, n)
      BY <2>5 DEF CitedTerms
    <3>. QED  BY <2>4, <3>1, <3>2, SumOverCited
  <2>7. NetIn(w) = SumFunction(f) /\ DOMAIN f = 1..m
    BY <1>3, <2>1 DEF NetIn
  <2>. QED  BY <2>3, <2>6, <2>7, SumIs
<1>8. Cardinality(Places(runs)) = ExecutedIn(w)
  <2>1. PICK f, g : f = [k \in 1..m |-> w[k].executed] /\ g = [j \in 1..n |-> Cardinality(Executed(runs[j].trades))]
    OBVIOUS
  <2>2. \A j \in 1..n : g[j] = Cardinality(Executed(runs[j].trades))
    BY <2>1
  <2>3. Cardinality(Places(runs)) = SumFunctionOnSet(g, 1..n) /\ \A j \in 1..n : g[j] \in Int
    BY <1>5, <2>2, NumberOfTrades
  <2>4. \A j \in 1..n : g[j] = f[cited[j]]
    BY <1>6, <2>1
  <2>5. ASSUME NEW k \in 1..m  PROVE f[k] \in Int /\ ((\E j \in 1..n : cited[j] = k) \/ f[k] = 0)
    <3>1. f[k] = w[k].executed
      BY <2>1
    <3>2. CASE \E j \in 1..n : cited[j] = k
      <4>1. PICK j \in 1..n : cited[j] = k
        BY <3>2
      <4>2. g[j] = f[k] /\ g[j] \in Int
        BY <2>3, <2>4, <4>1
      <4>. QED  BY <3>2, <4>2
    <3>3. CASE ~\E j \in 1..n : cited[j] = k
      <4>1. f[k] = 0
        BY <1>6, <3>1, <3>3
      <4>. QED  BY <4>1
    <3>. QED  BY <3>2, <3>3
  <2>6. SumFunctionOnSet(f, 1..m) = SumFunctionOnSet(g, 1..n)
    <3>1. CitesOnce(cited, m, n)
      BY <1>6 DEF CitesOnce
    <3>2. CitedTerms(f, cited, m, n)
      BY <2>5 DEF CitedTerms
    <3>. QED  BY <2>4, <3>1, <3>2, SumOverCited
  <2>7. ExecutedIn(w) = SumFunction(f) /\ DOMAIN f = 1..m
    BY <1>3, <2>1 DEF ExecutedIn
  <2>. QED  BY <2>3, <2>6, <2>7, SumIs
<1>. QED  BY <1>1, <1>4, <1>5, <1>7, <1>8

\* Starting a statistical report keeps the invariant.
LEMMA StatisticsBegins ==
    ASSUME EvidenceInv, NEW p \in Procs, NEW c, RunStatisticalEvidenceAnalysis(p, c)
    PROVE  EvidenceInv'
<1>1. PICK s \in db.survivorship : \E excludes_zero :
         Begin(p, <<Call("statistics", build_statistical_evidence_report(Identity(c.gov, 0), s,
                                                                        WindowRuns(s), excludes_zero))>>)
  BY DEF RunStatisticalEvidenceAnalysis, NamedStudies
<1>2. PICK zero : Begin(p, <<Call("statistics", build_statistical_evidence_report(Identity(c.gov, 0), s,
                                                                        WindowRuns(s), zero))>>)
  BY <1>1
<1>3. PICK runs, cited : runs = WindowRuns(s) /\ cited = Cited(s.windows)
  OBVIOUS
<1>4. PICK row : row = build_statistical_evidence_report(Identity(c.gov, 0), s, runs, zero)
  OBVIOUS
<1>5. PICK calls : calls = <<Call("statistics", row)>>
  OBVIOUS
<1>6. IsSeq(calls) /\ \A into : RowsIn(calls, into) = IF "statistics" = into THEN {row} ELSE {}
  <2>1. PICK a : a = Call("statistics", row)
    OBVIOUS
  <2>2. a.into = "statistics" /\ a.row = row /\ calls = <<a>>
    BY <1>5, <2>1 DEF Call
  <2>. QED  BY <2>2, OneCall
<1>7. row.study = s.runtime /\ row.net = _quantize(NetOf(AllTrades(runs))) /\ row.trades = Cardinality(Places(runs))
  BY <1>4 DEF build_statistical_evidence_report, Places
<1>8. Reads(s, runs, cited, db.runs)
  BY <1>3, StudyReads
<1>9. NetOf(AllTrades(runs)) = NetIn(s.windows) /\ Cardinality(Places(runs)) = ExecutedIn(s.windows)
  BY <1>8, StudyAddsUp
<1>10. s.executed = ExecutedIn(s.windows) /\ s.net = NetIn(s.windows)
  <2>1. s \in Rows(db, todo, "survivorship")
    BY DEF Rows
  <2>. QED  BY <2>1 DEF EvidenceInv, InvOf, SurvivorshipsOk, SurvivorshipOk
<1>11. StatisticsOk(row, db)
  BY <1>7, <1>9, <1>10 DEF StatisticsOk
<1>12. New(calls, db, started + 1)
  <2>1. /\ RowsIn(calls, "runs") = {} /\ RowsIn(calls, "survivorship") = {} /\ RowsIn(calls, "portfolios") = {}
        /\ \A into \in StudyTables : RowsIn(calls, into) = {}
    BY <1>6 DEF StudyTables
  <2>2. RowsIn(calls, "statistics") = {row}
    BY <1>6
  <2>. QED  BY <1>6, <1>11, <2>1, <2>2 DEF New, NewRuns
<1>13. Begin(p, calls)
  BY <1>2, <1>3, <1>4, <1>5
<1>. QED  BY <1>12, <1>13, Begins

------------------------------------------------------------------------------
(* The portfolio *)

Opportunity(w, runs, cited, j, i) ==
    [window |-> w[cited[j]].gov, sequence |-> i, trade |-> runs[j].trades[i]]

IsPool(P, w, runs, cited, n) ==
    \A x : x \in P <=> \E j \in 1..n : \E i \in Executed(runs[j].trades) : x = Opportunity(w, runs, cited, j, i)

\* The opportunities are the executed trades of the study's runs, each once.
LEMMA PoolSays ==
    ASSUME NEW s, NEW runs, NEW cited, NEW R, Reads(s, runs, cited, R), NEW w, w = s.windows,
           NEW n, DOMAIN cited = 1..n
    PROVE  IsPool(Pooled(s, runs), w, runs, cited, n)
<1>0. SUFFICES ASSUME NEW x
               PROVE  x \in Pooled(s, runs) <=>
                         \E j \in 1..n : \E i \in Executed(runs[j].trades) : x = Opportunity(w, runs, cited, j, i)
  BY DEF IsPool
<1>. DEFINE matching(k) == {j \in DOMAIN runs : runs[j].runtime = w[k].runtime}
            of(k, j) == {[window |-> w[k].gov, sequence |-> i, trade |-> runs[j].trades[i]] :
                            i \in Executed(runs[j].trades)}
<1>1. x \in Pooled(s, runs) <=> \E k \in DOMAIN w : \E j \in matching(k) : x \in of(k, j)
  BY DEF Pooled
<1>2. ReadsOf(s, w, runs, cited, R)
  BY DEF Reads
<1>3. /\ DOMAIN runs = 1..n
      /\ \A j \in 1..n : cited[j] \in DOMAIN w /\ runs[j].runtime = w[cited[j]].runtime
      /\ \A j \in 1..n : \A k \in DOMAIN w : runs[j].runtime = w[k].runtime => k = cited[j]
  BY <1>2 DEF ReadsOf
<1>4. ASSUME NEW k \in DOMAIN w, NEW j \in matching(k), x \in of(k, j)
      PROVE  \E l \in 1..n : \E i \in Executed(runs[l].trades) : x = Opportunity(w, runs, cited, l, i)
  <2>1. j \in 1..n /\ k = cited[j]
    BY <1>3
  <2>. QED  BY <1>4, <2>1 DEF Opportunity
<1>5. ASSUME NEW j \in 1..n, NEW i \in Executed(runs[j].trades), x = Opportunity(w, runs, cited, j, i)
      PROVE  \E k \in DOMAIN w : \E l \in matching(k) : x \in of(k, l)
  <2>1. PICK k \in DOMAIN w : k = cited[j]
    BY <1>3
  <2>2. j \in matching(k)
    BY <1>3, <2>1
  <2>3. x \in of(k, j)
    BY <1>5, <2>1 DEF Opportunity
  <2>. QED  BY <2>2, <2>3
<1>. HIDE DEF matching, of
<1>. QED  BY <1>1, <1>4, <1>5

\* An opportunity is a trade of the run of its window.
LEMMA OpportunitySays ==
    ASSUME NEW w, NEW runs, NEW cited, NEW j, NEW i, NEW o, o = Opportunity(w, runs, cited, j, i)
    PROVE  o.window = w[cited[j]].gov /\ o.sequence = i /\ o.trade = runs[j].trades[i]
  BY DEF Opportunity

\* The pool has one opportunity for each executed trade, in order.
LEMMA PoolIsSorted ==
    ASSUME NEW s, NEW runs, NEW cited, NEW R, Reads(s, runs, cited, R)
    PROVE  /\ Cardinality(Pooled(s, runs)) = Cardinality(Places(runs))
           /\ Sorts(_pool_opportunities(s, runs),
                    [o \in Pooled(s, runs) |-> <<o.trade.entry, o.window, o.sequence>>])
<1>1. PICK w, P, S : w = s.windows /\ P = Pooled(s, runs) /\ S = Places(runs)
  OBVIOUS
<1>2. PICK n \in Nat : DOMAIN cited = 1..n /\ Trading(runs, n)
  BY StudyAddsUp
<1>3. \A x : x \in P <=> \E j \in 1..n : \E i \in Executed(runs[j].trades) : x = Opportunity(w, runs, cited, j, i)
  <2>1. IsPool(P, w, runs, cited, n)
    BY <1>1, <1>2, PoolSays
  <2>. QED  BY <2>1 DEF IsPool
<1>4. IsFiniteSet(S) /\ \A x : x \in S <=> \E j \in 1..n : \E i \in Executed(runs[j].trades) : x = <<j, i>>
  BY <1>1, <1>2, PlacesSay
<1>5. /\ \A j \in 1..n : w[cited[j]].gov \in Nat /\ SurvivorRun(s, w[cited[j]], runs[j])
      /\ \A i, j \in 1..n : w[cited[i]].gov = w[cited[j]].gov => i = j
  BY <1>1, <1>2 DEF Reads, ReadsOf
<1>6. ASSUME NEW x \in S
      PROVE  /\ x[1] \in 1..n /\ x[2] \in Executed(runs[x[1]].trades) /\ x = <<x[1], x[2]>>
  <2>1. PICK j \in 1..n : \E i \in Executed(runs[j].trades) : x = <<j, i>>
    BY <1>4
  <2>2. PICK i \in Executed(runs[j].trades) : x = <<j, i>>
    BY <2>1
  <2>3. x[1] = j /\ x[2] = i
    BY <2>2
  <2>. QED  BY <2>2, <2>3
<1>7. PICK c : c = [x \in S |-> Opportunity(w, runs, cited, x[1], x[2])]
  OBVIOUS
<1>8. ASSUME NEW x \in S
      PROVE  c[x] = Opportunity(w, runs, cited, x[1], x[2]) /\ c[x] \in P
  <2>1. c[x] = Opportunity(w, runs, cited, x[1], x[2])
    BY <1>7
  <2>. QED  BY <1>3, <1>6, <2>1
<1>9. ASSUME NEW o \in P  PROVE \E x \in S : c[x] = o
  <2>1. PICK j \in 1..n : \E i \in Executed(runs[j].trades) : o = Opportunity(w, runs, cited, j, i)
    BY <1>3
  <2>2. PICK i \in Executed(runs[j].trades) : o = Opportunity(w, runs, cited, j, i)
    BY <2>1
  <2>3. PICK x : x = <<j, i>>
    OBVIOUS
  <2>4. x \in S /\ x[1] = j /\ x[2] = i
    BY <1>4, <2>3
  <2>. QED  BY <1>8, <2>2, <2>4
<1>10. ASSUME NEW x \in S, NEW y \in S, c[x].window = c[y].window, c[x].sequence = c[y].sequence
       PROVE  x = y
  <2>1. PICK i, j, k, l : i = x[1] /\ j = x[2] /\ k = y[1] /\ l = y[2]
    OBVIOUS
  <2>2. c[x] = Opportunity(w, runs, cited, i, j) /\ c[y] = Opportunity(w, runs, cited, k, l)
    BY <1>8, <2>1
  <2>3. w[cited[i]].gov = w[cited[k]].gov /\ j = l
    BY <1>10, <2>2, OpportunitySays
  <2>4. i \in 1..n /\ k \in 1..n /\ x = <<i, j>> /\ y = <<k, l>>
    BY <1>6, <2>1
  <2>5. i = k
    BY <1>5, <2>3, <2>4
  <2>. QED  BY <2>3, <2>4, <2>5
<1>11. c \in Bijection(S, P)
  <2>1. c \in [S -> P]
    BY <1>7, <1>8
  <2>2. \A x, y \in S : c[x] = c[y] => x = y
    BY <1>10
  <2>3. \A o \in P : \E x \in S : c[x] = o
    BY <1>9
  <2>4. c \in Injection(S, P)
    BY <2>1, <2>2 DEF Injection, IsInjective
  <2>5. c \in Surjection(S, P)
    BY <2>1, <2>3 DEF Surjection
  <2>. QED  BY <2>4, <2>5 DEF Bijection
<1>12. IsFiniteSet(P) /\ Cardinality(P) = Cardinality(S)
  <2>1. ExistsBijection(S, P)
    BY <1>11 DEF ExistsBijection
  <2>. QED  BY <1>4, <2>1, FS_Bijection
<1>13. PICK key : key = [o \in P |-> <<o.trade.entry, o.window, o.sequence>>]
  OBVIOUS
<1>14. DOMAIN key = P /\ \A o \in P : key[o] = <<o.trade.entry, o.window, o.sequence>>
  BY <1>13
<1>15. ASSUME NEW o \in P
       PROVE  Tuple(key[o], 3) /\ key[o][2] = o.window /\ key[o][3] = o.sequence
  <2>1. PICK j \in 1..n : \E i \in Executed(runs[j].trades) : o = Opportunity(w, runs, cited, j, i)
    BY <1>3
  <2>2. PICK i \in Executed(runs[j].trades) : o = Opportunity(w, runs, cited, j, i)
    BY <2>1
  <2>3. o.window = w[cited[j]].gov /\ o.sequence = i /\ o.trade = runs[j].trades[i]
    BY <2>2, OpportunitySays
  <2>4. i \in DOMAIN runs[j].trades
    BY DEF Executed
  <2>5. i \in Nat /\ runs[j].trades[i].entry \in Nat
    BY <1>5, <2>4 DEF SurvivorRun, TradeOk
  <2>6. PICK a, b : a = o.trade.entry /\ b = o.window
    OBVIOUS
  <2>7. a \in Int /\ b \in Int /\ i \in Int /\ key[o] = <<a, b, i>>
    BY <1>5, <1>14, <2>3, <2>5, <2>6
  <2>. QED  BY <2>3, <2>6, <2>7 DEF Tuple
<1>16. ASSUME NEW o \in P, NEW q \in P, \A i \in 1..3 : key[o][i] = key[q][i]
       PROVE  o = q
  <2>1. o.window = q.window /\ o.sequence = q.sequence
    BY <1>15, <1>16
  <2>2. PICK x \in S : c[x] = o
    BY <1>9
  <2>3. PICK y \in S : c[y] = q
    BY <1>9
  <2>. QED  BY <1>10, <2>1, <2>2, <2>3
<1>17. Keyed(key, 3)
  BY <1>12, <1>14, <1>15, <1>16 DEF Keyed
<1>18. Sorts(InOrder(key), key)
  BY <1>17, SortedByKey
<1>19. _pool_opportunities(s, runs) = InOrder(key)
  BY <1>1, <1>13 DEF _pool_opportunities
<1>. QED  BY <1>1, <1>12, <1>13, <1>18, <1>19

\* A report decides on each opportunity once.
LEMMA ReportDecides ==
    ASSUME NEW s, NEW runs, NEW cited, NEW R, Reads(s, runs, cited, R), s.executed = ExecutedIn(s.windows),
           NEW identity, NEW policy,
           NEW report, report = build_portfolio_evidence_report(identity, s, runs, policy)
    PROVE  Decides(report, s, R)
<1>1. PICK w, P : w = s.windows /\ P = Pooled(s, runs)
  OBVIOUS
<1>2. PICK n \in Nat : DOMAIN cited = 1..n /\ Trading(runs, n)
  BY StudyAddsUp
<1>3. \A x : x \in P <=> \E j \in 1..n : \E i \in Executed(runs[j].trades) : x = Opportunity(w, runs, cited, j, i)
  <2>1. IsPool(P, w, runs, cited, n)
    BY <1>1, <1>2, PoolSays
  <2>. QED  BY <2>1 DEF IsPool
<1>4. PICK pool, outcomes : /\ pool = _pool_opportunities(s, runs)
                            /\ outcomes = _simulate_capital_allocation(pool, policy).outcomes
  OBVIOUS
<1>5. PICK N : N = Cardinality(P)
  OBVIOUS
<1>6. /\ N \in Nat /\ DOMAIN pool = 1..N /\ (\A k \in 1..N : pool[k] \in P)
      /\ (\A x \in P : \E k \in 1..N : pool[k] = x)
      /\ N = ExecutedIn(s.windows)
  <2>1. PICK key : key = [o \in P |-> <<o.trade.entry, o.window, o.sequence>>]
    OBVIOUS
  <2>2. DOMAIN key = P
    BY <2>1
  <2>3. Sorts(pool, key) /\ Cardinality(P) = Cardinality(Places(runs))
    BY <1>1, <1>4, <2>1, PoolIsSorted
  <2>4. Cardinality(Places(runs)) = ExecutedIn(s.windows)
    BY StudyAddsUp
  <2>. QED  BY <1>5, <2>2, <2>3, <2>4 DEF Sorts
<1>7. PICK D : D = report.decisions
  OBVIOUS
<1>8. D = [k \in 1..N |-> Decided(pool[k], outcomes[k])]
  BY <1>4, <1>6, <1>7 DEF build_portfolio_evidence_report
<1>9. Len(D) = N
  <2>1. D = [k \in 1..N |-> D[k]]
    BY <1>8
  <2>. QED  BY <1>6, <2>1, ListSays
<1>10. DOMAIN D = 1..N /\ \A k \in 1..N : D[k].trade = pool[k].trade /\ D[k].window = pool[k].window
  BY <1>8 DEF Decided
<1>11. \A d : d \in Range(D) <=> \E k \in 1..N : d = D[k]
  BY <1>10 DEF Range
<1>12. /\ \A j \in 1..n : /\ cited[j] \in DOMAIN w /\ runs[j] \in R
                           /\ runs[j].runtime = w[cited[j]].runtime
       /\ \A i, j \in 1..n : w[cited[i]].gov = w[cited[j]].gov => i = j
       /\ \A k \in DOMAIN w : \A r \in R : r.runtime = w[k].runtime =>
             \E j \in 1..n : cited[j] = k /\ runs[j] = r
  <2>1. ReadsOf(s, w, runs, cited, R)
    BY <1>1 DEF Reads
  <2>2. \A j \in 1..n : cited[j] \in DOMAIN w /\ runs[j] \in R /\ runs[j].runtime = w[cited[j]].runtime
    BY <1>2, <2>1 DEF ReadsOf
  <2>3. \A i, j \in 1..n : w[cited[i]].gov = w[cited[j]].gov => i = j
    BY <1>2, <2>1 DEF ReadsOf
  <2>4. \A k \in DOMAIN w : \A r \in R : r.runtime = w[k].runtime =>
             \E j \in DOMAIN cited : cited[j] = k /\ runs[j] = r
    BY <2>1, Zenon DEF ReadsOf
  <2>5. \A k \in DOMAIN w : \A r \in R : r.runtime = w[k].runtime =>
             \E j \in 1..n : cited[j] = k /\ runs[j] = r
    BY <1>2, <2>4
  <2>. QED  BY <2>2, <2>3, <2>5
<1>13. ASSUME NEW d \in Range(D)
       PROVE  \E j \in 1..n : \E i \in Executed(runs[j].trades) :
                 d.window = w[cited[j]].gov /\ d.trade = runs[j].trades[i]
  <2>1. PICK k \in 1..N : d = D[k]
    BY <1>11
  <2>2. PICK o \in P : o = pool[k]
    BY <1>6
  <2>3. PICK j \in 1..n : \E i \in Executed(runs[j].trades) : o = Opportunity(w, runs, cited, j, i)
    BY <1>3
  <2>4. PICK i \in Executed(runs[j].trades) : o = Opportunity(w, runs, cited, j, i)
    BY <2>3
  <2>5. o.window = w[cited[j]].gov /\ o.trade = runs[j].trades[i]
    BY <2>4, OpportunitySays
  <2>6. d.window = w[cited[j]].gov /\ d.trade = runs[j].trades[i]
    BY <1>10, <2>1, <2>2, <2>5
  <2>. QED  BY <2>6
<1>14. ASSUME NEW j \in 1..n, NEW i \in Executed(runs[j].trades)
       PROVE  \E d \in Range(D) : d.window = w[cited[j]].gov /\ d.trade = runs[j].trades[i]
  <2>1. PICK o : o = Opportunity(w, runs, cited, j, i)
    OBVIOUS
  <2>2. o \in P
    BY <1>3, <2>1
  <2>3. PICK k \in 1..N : pool[k] = o
    BY <1>6, <2>2
  <2>4. o.window = w[cited[j]].gov /\ o.trade = runs[j].trades[i]
    BY <2>1, OpportunitySays
  <2>5. D[k] \in Range(D)
    BY <1>11
  <2>6. D[k].window = w[cited[j]].gov /\ D[k].trade = runs[j].trades[i]
    BY <1>10, <2>3, <2>4
  <2>. QED  BY <2>5, <2>6
<1>15. ASSUME NEW k \in DOMAIN w, NEW r \in R, r.runtime = w[k].runtime
       PROVE  {d.trade : d \in {e \in Range(D) : e.window = w[k].gov}} = {r.trades[i] : i \in Executed(r.trades)}
  <2>1. PICK j \in 1..n : cited[j] = k /\ runs[j] = r
    BY <1>12, <1>15
  <2>2. ASSUME NEW d \in Range(D), d.window = w[k].gov
        PROVE  \E i \in Executed(r.trades) : d.trade = r.trades[i]
    <3>1. PICK l \in 1..n : \E i \in Executed(runs[l].trades) :
                 d.window = w[cited[l]].gov /\ d.trade = runs[l].trades[i]
      BY <1>13
    <3>2. l = j
      BY <1>12, <2>1, <2>2, <3>1
    <3>. QED  BY <2>1, <3>1, <3>2
  <2>3. ASSUME NEW i \in Executed(r.trades)
        PROVE  \E d \in Range(D) : d.window = w[k].gov /\ d.trade = r.trades[i]
    BY <1>14, <2>1
  <2>. QED  BY <2>2, <2>3
<1>16. ASSUME NEW d \in Range(D)
       PROVE  \E k \in DOMAIN w : \E r \in R :
                 r.runtime = w[k].runtime /\ \E i \in DOMAIN r.trades : r.trades[i] = d.trade
  <2>1. PICK j \in 1..n : \E i \in Executed(runs[j].trades) :
                 d.window = w[cited[j]].gov /\ d.trade = runs[j].trades[i]
    BY <1>13
  <2>2. PICK i \in Executed(runs[j].trades) : d.trade = runs[j].trades[i]
    BY <2>1
  <2>3. i \in DOMAIN runs[j].trades
    BY DEF Executed
  <2>4. PICK k \in DOMAIN w : k = cited[j]
    BY <1>12
  <2>. QED  BY <1>12, <2>2, <2>3, <2>4
<1>17. Len(D) = s.executed
  BY <1>6, <1>9
<1>18. ASSUME NEW k \in DOMAIN s.windows, NEW r \in R, r.runtime = s.windows[k].runtime
       PROVE  {d.trade : d \in {e \in Range(report.decisions) : e.window = s.windows[k].gov}}
                = {r.trades[i] : i \in Executed(r.trades)}
  <2>1. k \in DOMAIN w /\ r.runtime = w[k].runtime
    BY <1>1, <1>18
  <2>2. {d.trade : d \in {e \in Range(D) : e.window = w[k].gov}} = {r.trades[i] : i \in Executed(r.trades)}
    BY <1>15, <2>1
  <2>. QED  BY <1>1, <1>7, <2>2, Zenon
<1>19. ASSUME NEW d \in Range(report.decisions)
       PROVE  \E k \in DOMAIN s.windows : \E r \in R :
                 r.runtime = s.windows[k].runtime /\ \E i \in DOMAIN r.trades : r.trades[i] = d.trade
  BY <1>1, <1>7, <1>16
<1>20. Len(report.decisions) = s.executed
  BY <1>7, <1>17
<1>. QED  BY <1>18, <1>19, <1>20, Zenon DEF Decides

------------------------------------------------------------------------------
(* The simulation of a portfolio, one event at a time *)

Before(pool, policy) ==
    [available |-> policy.capital, occupied |-> 0, held |-> {}, realized |-> 0,
     outcomes |-> [i \in DOMAIN pool |-> "PENDING"], curve |-> <<>>, peak |-> 0]

After(pool, policy, s, event) ==
    IF event.kind = "OPEN" THEN Open(s, event.of, pool[event.of].trade, policy)
    ELSE IF event.of \in s.held THEN Close(s, event.of, pool[event.of].trade)
    ELSE s

Turn(pool, policy, s, event) ==
    LET after == After(pool, policy, s, event)
        equity == _quantize_money(policy.capital + after.realized, 1)
    IN  IF after.held = s.held THEN after
        ELSE [after EXCEPT !.curve = Append(@, equity), !.peak = Max({@, Cardinality(after.held)})]

IsFold(g, pool, policy, events, S) ==
    g = [T \in SUBSET S |-> IF T = {} THEN Before(pool, policy)
                            ELSE Turn(pool, policy, g[T \ {Max(T)}], events[Max(T)])]

FoldOn(pool, policy, events, S) == (CHOOSE g : IsFold(g, pool, policy, events, S))[S]

\* The simulation folds the timeline.
LEMMA SimulationFolds ==
    ASSUME NEW pool, NEW policy, NEW events, events = _build_event_timeline(pool)
    PROVE  _simulate_capital_allocation(pool, policy) = FoldOn(pool, policy, events, DOMAIN events)
  BY DEF _simulate_capital_allocation, FoldLeft, MapThenFoldSet, FoldOn, IsFold, Turn, After, Before

\* Any two folds of one sequence of events agree.
LEMMA FoldIsUnique ==
    ASSUME NEW pool, NEW policy, NEW events, NEW S \in SUBSET Nat, IsFiniteSet(S),
           NEW g, IsFold(g, pool, policy, events, S), NEW h, IsFold(h, pool, policy, events, S)
    PROVE  g[S] = h[S]
<1>. DEFINE B == {T \in SUBSET S : g[T] # h[T]}
<1>1. SUFFICES ASSUME B # {} PROVE FALSE
  OBVIOUS
<1>2. \A T \in B : IsFiniteSet(T)
  BY FS_Subset
<1>3. PICK T \in B : \A U \in B : Cardinality(T) <= Cardinality(U)
  <2>. HIDE DEF B
  <2>. QED  BY <1>1, <1>2, SmallestSet
<1>4. g[T] = IF T = {} THEN Before(pool, policy) ELSE Turn(pool, policy, g[T \ {Max(T)}], events[Max(T)])
  BY <1>3, Zenon DEF IsFold
<1>5. h[T] = IF T = {} THEN Before(pool, policy) ELSE Turn(pool, policy, h[T \ {Max(T)}], events[Max(T)])
  BY <1>3, Zenon DEF IsFold
<1>6. T # {}
  BY <1>3, <1>4, <1>5, Zenon
<1>7. Max(T) \in T
  <2>1. T \in SUBSET Nat /\ IsFiniteSet(T)
    BY <1>2, <1>3
  <2>. QED  BY <1>6, <2>1, Greatest
<1>8. T \ {Max(T)} \in SUBSET T /\ T \ {Max(T)} # T
  BY <1>7
<1>9. T \ {Max(T)} \notin B
  <2>1. Cardinality(T \ {Max(T)}) < Cardinality(T) /\ Cardinality(T) \in Nat
        /\ Cardinality(T \ {Max(T)}) \in Nat
    BY <1>2, <1>3, <1>8, SmallerPart
  <2>. HIDE DEF B
  <2>. QED  BY <1>3, <2>1
<1>10. g[T \ {Max(T)}] = h[T \ {Max(T)}] /\ g[T] # h[T]
  BY <1>3, <1>8, <1>9
<1>. QED  BY <1>4, <1>5, <1>6, <1>10, Zenon

\* A fold takes one event at a time.
LEMMA FoldStep ==
    ASSUME NEW pool, NEW policy, NEW events, NEW S \in SUBSET Nat, IsFiniteSet(S)
    PROVE  FoldOn(pool, policy, events, S) =
             IF S = {} THEN Before(pool, policy)
             ELSE Turn(pool, policy, FoldOn(pool, policy, events, S \ {Max(S)}), events[Max(S)])
<1>. DEFINE F(T) == FoldOn(pool, policy, events, T)
            Folded(T) == IF T = {} THEN Before(pool, policy)
                         ELSE Turn(pool, policy, F(T \ {Max(T)}), events[Max(T)])
            B == {T \in SUBSET S : F(T) # Folded(T)}
<1>1. ASSUME NEW T \in SUBSET S, \A U \in SUBSET T : U # T => F(U) = Folded(U)
      PROVE  F(T) = Folded(T)
  <2>. DEFINE h == [U \in SUBSET T |-> Folded(U)]
  <2>1. IsFiniteSet(T)
    BY FS_Subset
  <2>2. ASSUME NEW U \in SUBSET T, U # {}
        PROVE  U \ {Max(U)} \in SUBSET T /\ Folded(U \ {Max(U)}) = F(U \ {Max(U)})
    <3>1. Max(U) \in U
      <4>1. U \in SUBSET Nat /\ IsFiniteSet(U)
        BY <2>1, FS_Subset
      <4>. QED  BY <2>2, <4>1, Greatest
    <3>2. U \ {Max(U)} # T
      BY <3>1
    <3>. HIDE DEF Folded, F
    <3>. QED  BY <1>1, <3>2
  <2>3. IsFold(h, pool, policy, events, T)
    <3>1. \A U \in SUBSET T : U # {} => h[U \ {Max(U)}] = F(U \ {Max(U)})
      <4>. HIDE DEF Folded, F
      <4>. QED  BY <2>2
    <3>2. \A U \in SUBSET T : Folded(U) = IF U = {} THEN Before(pool, policy)
                                          ELSE Turn(pool, policy, h[U \ {Max(U)}], events[Max(U)])
      <4>. HIDE DEF F, h
      <4>. QED  BY <3>1, Zenon
    <3>. HIDE DEF Folded
    <3>. QED  BY <3>2, Zenon DEF IsFold
  <2>. HIDE DEF h
  <2>4. IsFold(CHOOSE g : IsFold(g, pool, policy, events, T), pool, policy, events, T)
    BY <2>3
  <2>5. (CHOOSE g : IsFold(g, pool, policy, events, T))[T] = h[T]
    <3>1. PICK k : k = CHOOSE g : IsFold(g, pool, policy, events, T)
      OBVIOUS
    <3>2. T \in SUBSET Nat
      OBVIOUS
    <3>3. IsFold(k, pool, policy, events, T)
      BY <2>4, <3>1
    <3>4. k[T] = h[T]
      BY <2>1, <2>3, <3>2, <3>3, FoldIsUnique
    <3>. QED  BY <3>1, <3>4
  <2>6. h[T] = Folded(T)
    <3>. HIDE DEF Folded
    <3>. QED  BY DEF h
  <2>. HIDE DEF Folded
  <2>. QED  BY <2>5, <2>6, Zenon DEF FoldOn
<1>. HIDE DEF Folded, F
<1>2. B = {}
  <2>1. SUFFICES ASSUME B # {} PROVE FALSE
    OBVIOUS
  <2>2. \A T \in B : IsFiniteSet(T)
    BY FS_Subset
  <2>3. PICK T \in B : \A U \in B : Cardinality(T) <= Cardinality(U)
    <3>. HIDE DEF B
    <3>. QED  BY <2>1, <2>2, SmallestSet
  <2>4. ASSUME NEW U \in SUBSET T, U # T  PROVE U \notin B
    <3>1. Cardinality(U) < Cardinality(T) /\ Cardinality(U) \in Nat /\ Cardinality(T) \in Nat
      BY <2>2, <2>3, <2>4, SmallerPart
    <3>. HIDE DEF B
    <3>. QED  BY <2>3, <3>1
  <2>. QED  BY <1>1, <2>3, <2>4
<1>3. F(S) = Folded(S)
  BY <1>2
<1>. QED  BY <1>3, Zenon DEF Folded, F

\* The states of a simulation: each is the one before it, one event later.
Simulates(g, pool, policy, events, N) ==
    /\ g[0] = Before(pool, policy)
    /\ \A n \in 1..N : g[n] = Turn(pool, policy, g[n - 1], events[n])

\* The simulation goes through such states to its last.
LEMMA SimulationSays ==
    ASSUME NEW pool, NEW policy, NEW N \in Nat,
           NEW events, events = _build_event_timeline(pool), DOMAIN events = 1..N
    PROVE  \E g : /\ Simulates(g, pool, policy, events, N)
                  /\ _simulate_capital_allocation(pool, policy) = g[N]
<1>. DEFINE F(n) == FoldOn(pool, policy, events, 1..n)
            g == [n \in 0..N |-> F(n)]
<1>1. F(0) = Before(pool, policy)
  <2>1. 1..0 = {} /\ {} \in SUBSET Nat /\ IsFiniteSet({}) /\ 0 \in Nat
    BY FS_EmptySet
  <2>2. FoldOn(pool, policy, events, {}) = Before(pool, policy)
    BY <2>1, FoldStep
  <2>. QED  BY <2>1, <2>2
<1>2. ASSUME NEW n \in 1..N
      PROVE  F(n) = Turn(pool, policy, F(n - 1), events[n])
  <2>1. /\ 1..n \in SUBSET Nat /\ n \in Nat /\ (\A x \in 1..n : x <= n) /\ 1..n # {}
        /\ 1 \in Int /\ n \in Int
    OBVIOUS
  <2>2. IsFiniteSet(1..n)
    BY <2>1, FS_Interval
  <2>3. Max(1..n) = n
    <3>1. Max(1..n) \in 1..n /\ \A y \in 1..n : Max(1..n) >= y
      BY <2>1, NatMax
    <3>2. PICK z : z = Max(1..n)
      OBVIOUS
    <3>3. z \in 1..n /\ z >= n
      BY <2>1, <3>1, <3>2
    <3>. QED  BY <3>2, <3>3
  <2>4. (1..n) \ {n} = 1..(n - 1)
    OBVIOUS
  <2>5. PICK S : S = 1..n
    OBVIOUS
  <2>6. FoldOn(pool, policy, events, S) = Turn(pool, policy, FoldOn(pool, policy, events, S \ {Max(S)}), events[Max(S)])
    BY <2>1, <2>2, <2>5, FoldStep
  <2>. QED  BY <2>3, <2>4, <2>5, <2>6
<1>3. F(N) = _simulate_capital_allocation(pool, policy)
  BY SimulationFolds
<1>. HIDE DEF F
<1>4. g[0] = F(0) /\ g[N] = F(N)
  OBVIOUS
<1>5. \A n \in 1..N : g[n] = F(n) /\ g[n - 1] = F(n - 1)
  OBVIOUS
<1>. HIDE DEF g
<1>6. Simulates(g, pool, policy, events, N)
  BY <1>1, <1>2, <1>4, <1>5 DEF Simulates
<1>. QED  BY <1>3, <1>4, <1>6

------------------------------------------------------------------------------
(* The timeline *)

PoolFits(pool, m) ==
    /\ m \in Nat /\ DOMAIN pool = 1..m
    /\ \A i \in 1..m :
          LET t == pool[i].trade
          IN  /\ pool[i].sequence \in Nat /\ t.symbol \in Nat /\ t.rank \in Nat
              /\ t.risk \in Nat /\ t.net \in Int
              /\ t.entry \in Nat /\ t.exit \in Nat /\ t.entry <= t.exit

OpenKey(pool, i) ==
    <<pool[i].trade.entry, 1, pool[i].trade.rank, pool[i].trade.symbol, pool[i].sequence, i>>
CloseKey(pool, i) ==
    <<pool[i].trade.exit, IF pool[i].trade.exit = pool[i].trade.entry THEN 2 ELSE 0,
      pool[i].trade.rank, pool[i].trade.symbol, pool[i].sequence, i>>
ShortKey(pool, i) ==
    <<pool[i].trade.entry, pool[i].trade.rank, pool[i].trade.symbol, pool[i].sequence, i>>

\* The first places of two tuples may tell their order.
LEMMA FirstTells ==
    ASSUME NEW a, NEW b, Tuple(a, 6), Tuple(b, 6)
    PROVE  /\ a[1] < b[1] => Precedes(a, b) /\ ~Precedes(b, a)
           /\ a[1] = b[1] /\ a[2] < b[2] => Precedes(a, b) /\ ~Precedes(b, a)
<1>1. DOMAIN a = 1..6 /\ 1 \in 1..6 /\ 2 \in 1..6 /\ 6 \in Nat
  BY DEF Tuple
<1>2. a[1] < b[1] => Precedes(a, b)
  <2>1. \A j \in 1..(1 - 1) : a[j] = b[j]
    OBVIOUS
  <2>. QED  BY <1>1, <2>1 DEF Precedes
<1>3. a[1] = b[1] /\ a[2] < b[2] => Precedes(a, b)
  <2>1. ASSUME a[1] = b[1]  PROVE \A j \in 1..(2 - 1) : a[j] = b[j]
    BY <2>1
  <2>. QED  BY <1>1, <2>1 DEF Precedes
<1>4. Precedes(a, b) => ~Precedes(b, a)
  BY <1>1, PrecedesIsStrict
<1>. QED  BY <1>2, <1>3, <1>4

\* The keys of events, entry by entry.
LEMMA KeysSay ==
    ASSUME NEW pool, NEW m, PoolFits(pool, m), NEW i \in 1..m
    PROVE  /\ Tuple(OpenKey(pool, i), 6) /\ Tuple(CloseKey(pool, i), 6) /\ Tuple(ShortKey(pool, i), 5)
           /\ OpenKey(pool, i)[1] = pool[i].trade.entry /\ OpenKey(pool, i)[2] = 1 /\ OpenKey(pool, i)[6] = i
           /\ CloseKey(pool, i)[1] = pool[i].trade.exit /\ CloseKey(pool, i)[6] = i
           /\ CloseKey(pool, i)[2] = (IF pool[i].trade.exit = pool[i].trade.entry THEN 2 ELSE 0)
           /\ ShortKey(pool, i)[1] = OpenKey(pool, i)[1]
           /\ \A k \in 2..5 : ShortKey(pool, i)[k] = OpenKey(pool, i)[k + 1]
<1>1. PICK a, b, r, u, s : /\ a = pool[i].trade.entry /\ b = pool[i].trade.exit /\ r = pool[i].trade.rank
                           /\ u = pool[i].trade.symbol /\ s = pool[i].sequence
  OBVIOUS
<1>2. a \in Int /\ b \in Int /\ r \in Int /\ u \in Int /\ s \in Int /\ i \in Int
  BY <1>1 DEF PoolFits
<1>3. PICK flag \in {0, 2} : flag = IF b = a THEN 2 ELSE 0
  OBVIOUS
<1>4. PICK x, y, z : x = <<a, 1, r, u, s, i>> /\ y = <<b, flag, r, u, s, i>> /\ z = <<a, r, u, s, i>>
  OBVIOUS
<1>5. x = OpenKey(pool, i) /\ y = CloseKey(pool, i) /\ z = ShortKey(pool, i)
  BY <1>1, <1>3, <1>4 DEF OpenKey, CloseKey, ShortKey
<1>6. Tuple(x, 6) /\ Tuple(y, 6) /\ Tuple(z, 5)
  BY <1>2, <1>3, <1>4 DEF Tuple
<1>7. /\ x[1] = a /\ x[2] = 1 /\ x[6] = i /\ y[1] = b /\ y[2] = flag /\ y[6] = i /\ z[1] = a
      /\ z[2] = x[3] /\ z[3] = x[4] /\ z[4] = x[5] /\ z[5] = x[6]
  BY <1>4
<1>8. \A k \in 2..5 : k = 2 \/ k = 3 \/ k = 4 \/ k = 5
  OBVIOUS
<1>9. \A k \in 2..5 : z[k] = x[k + 1]
  BY <1>7, <1>8
<1>. QED  BY <1>1, <1>3, <1>5, <1>6, <1>7, <1>9

\* A position opens before it closes; it has closed when another opens if it
\* left at an earlier instant, or at the same one and had opened before; and
\* those opened ahead are those of smaller keys.
LEMMA KeysCompare ==
    ASSUME NEW pool, NEW m, PoolFits(pool, m), NEW i \in 1..m, NEW j \in 1..m
    PROVE  /\ Precedes(OpenKey(pool, i), CloseKey(pool, i))
           /\ Precedes(CloseKey(pool, j), OpenKey(pool, i)) <=> ClosedBy(pool[j].trade, pool[i].trade.entry)
           /\ Precedes(OpenKey(pool, j), OpenKey(pool, i)) <=> Precedes(ShortKey(pool, j), ShortKey(pool, i))
<1>1. PICK a, b, c, d, x, y : /\ a = OpenKey(pool, i) /\ b = CloseKey(pool, i) /\ x = ShortKey(pool, i)
                              /\ c = OpenKey(pool, j) /\ d = CloseKey(pool, j) /\ y = ShortKey(pool, j)
  OBVIOUS
<1>2. PICK in, out, from, to : /\ in = pool[i].trade.entry /\ out = pool[i].trade.exit
                               /\ from = pool[j].trade.entry /\ to = pool[j].trade.exit
  OBVIOUS
<1>3. in \in Nat /\ out \in Nat /\ from \in Nat /\ to \in Nat /\ in <= out /\ from <= to
  BY <1>2 DEF PoolFits
<1>4. /\ Tuple(a, 6) /\ Tuple(b, 6) /\ Tuple(c, 6) /\ Tuple(d, 6) /\ Tuple(x, 5) /\ Tuple(y, 5)
      /\ a[1] = in /\ a[2] = 1 /\ b[1] = out /\ b[2] = (IF out = in THEN 2 ELSE 0)
      /\ c[1] = from /\ c[2] = 1 /\ d[1] = to /\ d[2] = (IF to = from THEN 2 ELSE 0)
  BY <1>1, <1>2, KeysSay
<1>5. /\ x[1] = a[1] /\ y[1] = c[1]
      /\ \A k \in 2..5 : x[k] = a[k + 1] /\ y[k] = c[k + 1]
  BY <1>1, KeysSay
<1>6. Precedes(a, b)
  BY <1>3, <1>4, FirstTells
<1>7. Precedes(d, a) <=> (to < in \/ (to = in /\ from < in))
  BY <1>3, <1>4, FirstTells
<1>8. Precedes(c, a) => Precedes(y, x)
  <2>1. SUFFICES ASSUME Precedes(c, a) PROVE Precedes(y, x)
    OBVIOUS
  <2>2. PICK k \in 1..6 : c[k] < a[k] /\ \A l \in 1..(k - 1) : c[l] = a[l]
    BY <1>4, <2>1 DEF Precedes, Tuple
  <2>3. CASE k = 1
    <3>1. y[1] < x[1] /\ 1 \in DOMAIN y /\ \A l \in 1..(1 - 1) : y[l] = x[l]
      BY <1>4, <1>5, <2>2, <2>3 DEF Tuple
    <3>. QED  BY <3>1 DEF Precedes
  <2>4. CASE k = 2
    BY <1>4, <2>2, <2>4
  <2>5. CASE k >= 3
    <3>1. PICK h : h = k - 1
      OBVIOUS
    <3>2. h \in 2..5 /\ h + 1 = k
      BY <2>5, <3>1
    <3>3. y[h] < x[h] /\ h \in DOMAIN y
      BY <1>4, <1>5, <2>2, <3>2 DEF Tuple
    <3>4. ASSUME NEW l \in 1..(h - 1)  PROVE y[l] = x[l]
      <4>1. CASE l = 1
        <5>1. 1 \in 1..(k - 1)
          BY <2>5
        <5>. QED  BY <1>5, <2>2, <4>1, <5>1
      <4>2. CASE l # 1
        <5>1. l \in 2..5 /\ l + 1 \in 1..(k - 1)
          BY <3>2, <4>2
        <5>. QED  BY <1>5, <2>2, <5>1
      <4>. QED  BY <4>1, <4>2
    <3>. QED  BY <3>3, <3>4 DEF Precedes
  <2>. QED  BY <2>3, <2>4, <2>5
<1>9. Precedes(y, x) => Precedes(c, a)
  <2>1. SUFFICES ASSUME Precedes(y, x) PROVE Precedes(c, a)
    OBVIOUS
  <2>2. PICK k \in 1..5 : y[k] < x[k] /\ \A l \in 1..(k - 1) : y[l] = x[l]
    BY <1>4, <2>1 DEF Precedes, Tuple
  <2>3. CASE k = 1
    <3>1. c[1] < a[1] /\ 1 \in DOMAIN c /\ \A l \in 1..(1 - 1) : c[l] = a[l]
      BY <1>4, <1>5, <2>2, <2>3 DEF Tuple
    <3>. QED  BY <3>1 DEF Precedes
  <2>4. CASE k >= 2
    <3>1. PICK h : h = k + 1
      OBVIOUS
    <3>2. k \in 2..5 /\ h \in 3..6
      BY <2>4, <3>1
    <3>3. c[h] < a[h] /\ h \in DOMAIN c
      BY <1>4, <1>5, <2>2, <3>1, <3>2 DEF Tuple
    <3>4. ASSUME NEW l \in 1..(h - 1)  PROVE c[l] = a[l]
      <4>1. CASE l = 1
        <5>1. 1 \in 1..(k - 1)
          BY <2>4
        <5>. QED  BY <1>5, <2>2, <4>1, <5>1
      <4>2. CASE l = 2
        BY <1>4, <4>2
      <4>3. CASE l >= 3
        <5>1. PICK q : q = l - 1
          OBVIOUS
        <5>2. q \in 2..5 /\ q \in 1..(k - 1) /\ q + 1 = l
          BY <3>1, <3>2, <4>3, <5>1
        <5>3. y[q] = x[q]
          BY <2>2, <5>2
        <5>. QED  BY <1>5, <5>2, <5>3
      <4>. QED  BY <4>1, <4>2, <4>3
    <3>. QED  BY <3>3, <3>4 DEF Precedes
  <2>. QED  BY <2>3, <2>4
<1>. QED  BY <1>1, <1>2, <1>6, <1>7, <1>8, <1>9 DEF ClosedBy

Opening(pool, i) == [kind |-> "OPEN", of |-> i, key |-> OpenKey(pool, i)]
Closing(pool, i) == [kind |-> "CLOSE", of |-> i, key |-> CloseKey(pool, i)]

\* Where in a timeline of N events each position opens and closes.
Timeline(events, pool, m, N, op, cl) ==
    /\ N \in Nat /\ DOMAIN events = 1..N
    /\ \A i \in 1..m : op[i] \in 1..N /\ cl[i] \in 1..N /\ op[i] < cl[i]
    /\ \A i \in 1..m : /\ events[op[i]].kind = "OPEN" /\ events[op[i]].of = i
                       /\ events[cl[i]].kind = "CLOSE" /\ events[cl[i]].of = i
    /\ \A n \in 1..N : \E i \in 1..m : n = op[i] \/ n = cl[i]
    /\ \A i, j \in 1..m : cl[j] < op[i] <=> ClosedBy(pool[j].trade, pool[i].trade.entry)
    /\ \A i, j \in 1..m : op[j] < op[i] <=> Precedes(ShortKey(pool, j), ShortKey(pool, i))

\* The timeline has the two events of each position, in the order of their
\* keys.
LEMMA TimelineSays ==
    ASSUME NEW pool, NEW m, PoolFits(pool, m), NEW events, events = _build_event_timeline(pool)
    PROVE  \E N, op, cl : Timeline(events, pool, m, N, op, cl)
<1>1. m \in Nat /\ DOMAIN pool = 1..m
  BY DEF PoolFits
<1>. DEFINE E == {Opening(pool, i) : i \in 1..m} \cup {Closing(pool, i) : i \in 1..m}
            key == [e \in E |-> e.key]
<1>2. events = InOrder(key)
  BY <1>1 DEF _build_event_timeline, Opening, Closing, OpenKey, CloseKey
<1>3. \A i \in 1..m : /\ Opening(pool, i).kind = "OPEN" /\ Opening(pool, i).of = i
                      /\ Opening(pool, i).key = OpenKey(pool, i)
                      /\ Closing(pool, i).kind = "CLOSE" /\ Closing(pool, i).of = i
                      /\ Closing(pool, i).key = CloseKey(pool, i)
  BY DEF Opening, Closing
<1>4. IsFiniteSet(E)
  <2>1. PICK f, g : f = [i \in 1..m |-> Opening(pool, i)] /\ g = [i \in 1..m |-> Closing(pool, i)]
    OBVIOUS
  <2>2. IsFiniteSet(DOMAIN f) /\ IsFiniteSet(DOMAIN g)
    <3>1. 1 \in Int /\ m \in Int
      BY <1>1
    <3>2. IsFiniteSet(1..m)
      BY <3>1, FS_Interval
    <3>. QED  BY <2>1, <3>2
  <2>3. PICK F, G : F = {f[x] : x \in DOMAIN f} /\ G = {g[x] : x \in DOMAIN g}
    OBVIOUS
  <2>4. IsFiniteSet(F) /\ IsFiniteSet(G)
    BY <2>2, <2>3, FiniteImage
  <2>5. IsFiniteSet(F \cup G)
    BY <2>4, FS_Union
  <2>6. E = F \cup G
    BY <2>1, <2>3
  <2>. QED  BY <2>5, <2>6
<1>5. \A e \in E : \E i \in 1..m : e = Opening(pool, i) \/ e = Closing(pool, i)
  OBVIOUS
<1>6. \A i \in 1..m : Opening(pool, i) \in E /\ Closing(pool, i) \in E
  OBVIOUS
<1>7. DOMAIN key = E /\ \A e \in E : key[e] = e.key
  OBVIOUS
<1>. HIDE DEF E, key
<1>8. Keyed(key, 6)
  <2>1. ASSUME NEW e \in E  PROVE Tuple(key[e], 6)
    <3>1. PICK i \in 1..m : e = Opening(pool, i) \/ e = Closing(pool, i)
      BY <1>5
    <3>. QED  BY <1>3, <1>7, <3>1, KeysSay
  <2>2. ASSUME NEW d \in E, NEW e \in E, \A k \in 1..6 : key[d][k] = key[e][k]
        PROVE  d = e
    <3>1. key[d][2] = key[e][2] /\ key[d][6] = key[e][6]
      BY <2>2
    <3>2. PICK i \in 1..m : d = Opening(pool, i) \/ d = Closing(pool, i)
      BY <1>5
    <3>3. PICK j \in 1..m : e = Opening(pool, j) \/ e = Closing(pool, j)
      BY <1>5
    <3>4. key[d][6] = i /\ key[e][6] = j
      BY <1>3, <1>7, <3>2, <3>3, KeysSay
    <3>5. i = j
      BY <3>1, <3>4
    <3>6. /\ d = Opening(pool, i) => key[d][2] = 1
          /\ e = Opening(pool, j) => key[e][2] = 1
          /\ d = Closing(pool, i) => key[d][2] # 1
          /\ e = Closing(pool, j) => key[e][2] # 1
      BY <1>3, <1>7, KeysSay
    <3>. QED  BY <3>1, <3>2, <3>3, <3>5, <3>6
  <2>. QED  BY <1>4, <1>7, <2>1, <2>2 DEF Keyed
<1>9. Sorts(events, key)
  <2>1. 6 \in Nat
    OBVIOUS
  <2>. QED  BY <1>2, <1>8, <2>1, SortedByKey
<1>10. PICK N : N = Cardinality(E)
  OBVIOUS
<1>11. /\ N \in Nat /\ DOMAIN events = 1..N
       /\ \A n \in 1..N : events[n] \in E
       /\ \A e \in E : \E n \in 1..N : events[n] = e
  BY <1>7, <1>9, <1>10 DEF Sorts
<1>12. \A j, k \in 1..N : j < k <=> Precedes(events[j].key, events[k].key)
  <2>1. \A j, k \in 1..N : j < k <=> Precedes(key[events[j]], key[events[k]])
    BY <1>9, <1>11 DEF Sorts
  <2>. QED  BY <1>7, <1>11, <2>1
<1>. DEFINE opening == [i \in 1..m |-> CHOOSE n \in 1..N : events[n] = Opening(pool, i)]
            closing == [i \in 1..m |-> CHOOSE n \in 1..N : events[n] = Closing(pool, i)]
<1>13. \A i \in 1..m : /\ opening[i] \in 1..N /\ events[opening[i]] = Opening(pool, i)
                       /\ closing[i] \in 1..N /\ events[closing[i]] = Closing(pool, i)
  BY <1>6, <1>11
<1>14. PICK op, cl : op = opening /\ cl = closing
  OBVIOUS
<1>15. \A i \in 1..m : /\ op[i] \in 1..N /\ events[op[i]] = Opening(pool, i)
                       /\ cl[i] \in 1..N /\ events[cl[i]] = Closing(pool, i)
  BY <1>13, <1>14
<1>. HIDE DEF opening, closing
<1>16. \A i \in 1..m : /\ events[op[i]].key = OpenKey(pool, i) /\ events[cl[i]].key = CloseKey(pool, i)
                       /\ events[op[i]].kind = "OPEN" /\ events[op[i]].of = i
                       /\ events[cl[i]].kind = "CLOSE" /\ events[cl[i]].of = i
  BY <1>3, <1>15
<1>17. ASSUME NEW i \in 1..m, NEW j \in 1..m
       PROVE  /\ op[i] < cl[i]
              /\ cl[j] < op[i] <=> ClosedBy(pool[j].trade, pool[i].trade.entry)
              /\ op[j] < op[i] <=> Precedes(ShortKey(pool, j), ShortKey(pool, i))
  <2>1. /\ op[i] < cl[i] <=> Precedes(OpenKey(pool, i), CloseKey(pool, i))
        /\ cl[j] < op[i] <=> Precedes(CloseKey(pool, j), OpenKey(pool, i))
        /\ op[j] < op[i] <=> Precedes(OpenKey(pool, j), OpenKey(pool, i))
    BY <1>12, <1>15, <1>16
  <2>. QED  BY <2>1, KeysCompare
<1>18. ASSUME NEW n \in 1..N  PROVE \E i \in 1..m : n = op[i] \/ n = cl[i]
  <2>1. PICK i \in 1..m : events[n] = Opening(pool, i) \/ events[n] = Closing(pool, i)
    BY <1>5, <1>11
  <2>2. \A j, k \in 1..N : events[j] = events[k] => j = k
    BY <1>9, <1>11 DEF Sorts
  <2>. QED  BY <1>15, <2>1, <2>2
<1>19. Timeline(events, pool, m, N, op, cl)
  BY <1>11, <1>15, <1>16, <1>17, <1>18 DEF Timeline
<1>. QED  BY <1>19

------------------------------------------------------------------------------
(* What an event does *)

StateShape(s, m) ==
    /\ DOMAIN s = {"available", "occupied", "held", "realized", "outcomes", "curve", "peak"}
    /\ DOMAIN s.outcomes = 1..m

\* What a position is decided when it would open.
DecisionOn(s, trade, policy) ==
    IF s.available < Million * trade.risk THEN "INSUFFICIENT_AVAILABLE_CAPITAL"
    ELSE IF Cardinality(s.held) >= policy.concurrent THEN "MAX_CONCURRENT_POSITIONS"
    ELSE IF Million * (s.occupied + trade.risk) > UtilizationLimit(policy)
         THEN "MAX_CAPITAL_UTILIZATION_EXCEEDED"
    ELSE "ALLOCATED"

Opened(s, o, i, trade) ==
    o.available = s.available - Million * trade.risk /\ o.occupied = s.occupied + trade.risk /\ o.held = s.held \cup {i}
Closed(s, o, i, trade) ==
    o.available = s.available + Million * trade.risk + trade.net /\ o.occupied = s.occupied - trade.risk /\ o.held = s.held \ {i}
Same(s, o) == o.available = s.available /\ o.occupied = s.occupied /\ o.held = s.held

\* An opening decides on its own position, and on no other.
LEMMA OpenSays ==
    ASSUME NEW m \in Nat, NEW s, StateShape(s, m), NEW i \in 1..m, NEW trade, NEW policy,
           NEW d, d = DecisionOn(s, trade, policy), NEW o, o = Open(s, i, trade, policy)
    PROVE  /\ StateShape(o, m) /\ o.outcomes[i] = d
           /\ \A j \in 1..m : j # i => o.outcomes[j] = s.outcomes[j]
           /\ o.realized = s.realized /\ o.curve = s.curve /\ o.peak = s.peak
           /\ d = "ALLOCATED" => Opened(s, o, i, trade)
           /\ d # "ALLOCATED" => Same(s, o)
<1>1. CASE d # "ALLOCATED"
  <2>1. o = [s EXCEPT !.outcomes[i] = d]
    BY <1>1 DEF Open, DecisionOn
  <2>. QED  BY <1>1, <2>1 DEF StateShape, Same
<1>2. CASE d = "ALLOCATED"
  <2>1. PICK a, b : a = s.available - Million * trade.risk /\ b = s.occupied + trade.risk
    OBVIOUS
  <2>2. /\ ~(s.available < Million * trade.risk) /\ ~(Cardinality(s.held) >= policy.concurrent)
        /\ ~(Million * (s.occupied + trade.risk) > UtilizationLimit(policy))
    <3>1. PICK p, q, r : /\ p = (s.available < Million * trade.risk) /\ q = (Cardinality(s.held) >= policy.concurrent)
                         /\ r = (Million * (s.occupied + trade.risk) > UtilizationLimit(policy))
      OBVIOUS
    <3>2. d = IF p THEN "INSUFFICIENT_AVAILABLE_CAPITAL" ELSE IF q THEN "MAX_CONCURRENT_POSITIONS"
              ELSE IF r THEN "MAX_CAPITAL_UTILIZATION_EXCEEDED" ELSE "ALLOCATED"
      BY <3>1, Zenon DEF DecisionOn
    <3>3. ~p /\ ~q /\ ~r
      BY <1>2, <3>2
    <3>. QED  BY <3>1, <3>3
  <2>3. PICK h, u : h = s.held \cup {i} /\ u = [s.outcomes EXCEPT ![i] = "ALLOCATED"]
    OBVIOUS
  <2>4. o = [s EXCEPT !.available = a, !.occupied = b, !.held = h, !.outcomes = u]
    BY <2>1, <2>2, <2>3, Zenon DEF Open
  <2>5. /\ DOMAIN o = DOMAIN s /\ o.available = a /\ o.occupied = b /\ o.held = h /\ o.outcomes = u
        /\ o.realized = s.realized /\ o.curve = s.curve /\ o.peak = s.peak
    BY <2>4 DEF StateShape
  <2>6. DOMAIN u = 1..m /\ u[i] = "ALLOCATED" /\ \A j \in 1..m : j # i => u[j] = s.outcomes[j]
    BY <2>3 DEF StateShape
  <2>7. StateShape(o, m) /\ Opened(s, o, i, trade)
    BY <2>1, <2>3, <2>5, <2>6 DEF StateShape, Opened
  <2>. QED  BY <1>2, <2>5, <2>6, <2>7
<1>. QED  BY <1>1, <1>2

\* A closing of an open position returns its reservation and its result.
LEMMA CloseSays ==
    ASSUME NEW m \in Nat, NEW s, StateShape(s, m), NEW i, NEW trade, NEW o, o = Close(s, i, trade)
    PROVE  /\ StateShape(o, m) /\ o.outcomes = s.outcomes
           /\ o.realized = s.realized + trade.net /\ o.curve = s.curve /\ o.peak = s.peak
           /\ Closed(s, o, i, trade)
<1>1. PICK a, b, c : /\ a = s.available + Million * trade.risk + trade.net /\ b = s.occupied - trade.risk
                     /\ c = s.realized + trade.net
  OBVIOUS
<1>2. o = [s EXCEPT !.available = a, !.occupied = b, !.held = @ \ {i}, !.realized = c]
  BY <1>1 DEF Close
<1>. QED  BY <1>1, <1>2 DEF StateShape, Closed

\* What a turn adds to what an event did: a point of the curve, and the most
\* positions held at once, when what is held changes.
Drawn(s, a, t, policy) ==
    /\ t.realized = a.realized /\ Same(a, t)
    /\ a.held = s.held => t.curve = a.curve /\ t.peak = a.peak
    /\ a.held # s.held => /\ t.curve = Append(a.curve, _quantize_money(policy.capital + a.realized, 1))
                          /\ t.peak = Max({a.peak, Cardinality(a.held)})

\* A turn draws the curve when what is held changes, and keeps the rest.
LEMMA TurnSays ==
    ASSUME NEW m \in Nat, NEW pool, NEW policy, NEW s, NEW event, NEW a, a = After(pool, policy, s, event), StateShape(a, m),
           NEW t, t = Turn(pool, policy, s, event)
    PROVE  StateShape(t, m) /\ t.outcomes = a.outcomes /\ Drawn(s, a, t, policy)
<1>1. CASE a.held = s.held
  <2>1. t = a
    BY <1>1 DEF Turn
  <2>. QED  BY <1>1, <2>1 DEF Same, Drawn
<1>2. CASE a.held # s.held
  <2>1. PICK c, p : /\ c = Append(a.curve, _quantize_money(policy.capital + a.realized, 1))
                    /\ p = Max({a.peak, Cardinality(a.held)})
    OBVIOUS
  <2>2. t = [a EXCEPT !.curve = c, !.peak = p]
    BY <1>2, <2>1 DEF Turn
  <2>3. /\ StateShape(t, m) /\ t.outcomes = a.outcomes /\ t.realized = a.realized /\ Same(a, t)
        /\ t.curve = c /\ t.peak = p
    BY <2>2 DEF StateShape, Same
  <2>. QED  BY <1>2, <2>1, <2>3 DEF Drawn
<1>. QED  BY <1>1, <1>2

\* The event of an opening, and of a closing.
LEMMA EventSays ==
    ASSUME NEW m \in Nat, NEW pool, NEW policy, NEW s, StateShape(s, m), NEW event, event.of \in 1..m,
           event.kind \in {"OPEN", "CLOSE"},
           NEW a, a = After(pool, policy, s, event)
    PROVE  /\ event.kind = "OPEN" => a = Open(s, event.of, pool[event.of].trade, policy)
           /\ event.kind = "CLOSE" /\ event.of \in s.held => a = Close(s, event.of, pool[event.of].trade)
           /\ event.kind = "CLOSE" /\ event.of \notin s.held => a = s
           /\ StateShape(a, m)
           /\ \A j \in 1..m : event.kind = "CLOSE" \/ j # event.of => a.outcomes[j] = s.outcomes[j]
<1>1. PICK i, trade : i = event.of /\ trade = pool[i].trade
  OBVIOUS
<1>2. CASE event.kind = "OPEN"
  <2>1. a = Open(s, i, trade, policy)
    BY <1>1, <1>2 DEF After
  <2>. QED  BY <1>1, <1>2, <2>1, OpenSays
<1>3. CASE event.kind = "CLOSE" /\ i \in s.held
  <2>1. a = Close(s, i, trade)
    BY <1>1, <1>3 DEF After
  <2>. QED  BY <1>1, <1>3, <2>1, CloseSays
<1>4. CASE event.kind = "CLOSE" /\ i \notin s.held
  BY <1>1, <1>4 DEF After
<1>. QED  BY <1>1, <1>2, <1>3, <1>4

\* Every position is decided on at its opening.
DecidedWell(g, pool, policy, op, m) ==
    \A i \in 1..m : g[op[i]].outcomes[i] = DecisionOn(g[op[i] - 1], pool[i].trade, policy)

\* No later event changes a decision.
DecidedOnce(g, op, N, m) == \A i \in 1..m : g[N].outcomes[i] = g[op[i]].outcomes[i]

\* Every state has its shape, a decision stays as it was taken, and it was
\* taken on the state before the position's opening.
LEMMA DecisionsStay ==
    ASSUME NEW pool, NEW policy, NEW m \in Nat, DOMAIN pool = 1..m,
           NEW events, NEW N, NEW op, NEW cl, Timeline(events, pool, m, N, op, cl),
           NEW g, Simulates(g, pool, policy, events, N)
    PROVE  /\ \A n \in 0..N : StateShape(g[n], m)
           /\ DecidedWell(g, pool, policy, op, m)
           /\ DecidedOnce(g, op, N, m)
<1>1. N \in Nat /\ \A i \in 1..m : op[i] \in 1..N
  BY DEF Timeline
<1>2. \A n \in 1..N : /\ events[n].kind \in {"OPEN", "CLOSE"} /\ events[n].of \in 1..m
                      /\ events[n].kind = "OPEN" => n = op[events[n].of]
  <2>. SUFFICES ASSUME NEW n \in 1..N
                PROVE  /\ events[n].kind \in {"OPEN", "CLOSE"} /\ events[n].of \in 1..m
                       /\ events[n].kind = "OPEN" => n = op[events[n].of]
    OBVIOUS
  <2>1. PICK i \in 1..m : n = op[i] \/ n = cl[i]
    BY DEF Timeline
  <2>2. /\ events[op[i]].kind = "OPEN" /\ events[op[i]].of = i
        /\ events[cl[i]].kind = "CLOSE" /\ events[cl[i]].of = i
    BY DEF Timeline
  <2>. QED  BY <2>1, <2>2
<1>3. ASSUME NEW n \in 1..N, StateShape(g[n - 1], m)
      PROVE  /\ StateShape(g[n], m)
             /\ \A j \in 1..m : n # op[j] => g[n].outcomes[j] = g[n - 1].outcomes[j]
  <2>1. PICK s, t, e, a : s = g[n - 1] /\ t = g[n] /\ e = events[n] /\ a = After(pool, policy, g[n - 1], events[n])
    OBVIOUS
  <2>2. t = Turn(pool, policy, s, e) /\ a = After(pool, policy, s, e) /\ StateShape(s, m)
    BY <1>3, <2>1 DEF Simulates
  <2>3. e.kind \in {"OPEN", "CLOSE"} /\ e.of \in 1..m /\ (e.kind = "OPEN" => n = op[e.of])
    BY <1>2, <2>1
  <2>4. /\ StateShape(a, m)
        /\ \A j \in 1..m : e.kind = "CLOSE" \/ j # e.of => a.outcomes[j] = s.outcomes[j]
    <3>1. e.of \in 1..m /\ e.kind \in {"OPEN", "CLOSE"} /\ StateShape(s, m) /\ a = After(pool, policy, s, e)
      BY <2>2, <2>3
    <3>. QED  BY <3>1, EventSays
  <2>5. StateShape(t, m) /\ t.outcomes = a.outcomes
    <3>1. t = Turn(pool, policy, s, e) /\ a = After(pool, policy, s, e) /\ StateShape(a, m)
      BY <2>2, <2>4
    <3>. QED  BY <3>1, TurnSays
  <2>. QED  BY <2>1, <2>3, <2>4, <2>5
<1>4. \A n \in 0..N : StateShape(g[n], m)
  <2>. DEFINE B == {n \in 0..N : ~StateShape(g[n], m)}
  <2>1. SUFFICES ASSUME B # {} PROVE FALSE
    OBVIOUS
  <2>2. B \in SUBSET Nat
    OBVIOUS
  <2>3. PICK n \in B : \A k \in B : n <= k
    <3>. HIDE DEF B
    <3>. QED  BY <2>1, <2>2, NatMin
  <2>4. StateShape(g[0], m)
    BY DEF Simulates, Before, StateShape
  <2>5. n \in 1..N /\ n - 1 \in 0..N /\ n - 1 \notin B
    BY <1>1, <2>3, <2>4
  <2>. QED  BY <1>3, <2>3, <2>5
<1>5. DecidedWell(g, pool, policy, op, m)
  <2>. SUFFICES ASSUME NEW i \in 1..m PROVE g[op[i]].outcomes[i] = DecisionOn(g[op[i] - 1], pool[i].trade, policy)
    BY DEF DecidedWell
  <2>1. PICK n \in 1..N : n = op[i]
    BY <1>1
  <2>2. PICK s, t, e, a : s = g[n - 1] /\ t = g[n] /\ e = events[n] /\ a = After(pool, policy, g[n - 1], events[n])
    OBVIOUS
  <2>3. t = Turn(pool, policy, s, e) /\ a = After(pool, policy, s, e)
    BY <2>2 DEF Simulates
  <2>4. e.kind = "OPEN" /\ e.of = i
    BY <2>1, <2>2 DEF Timeline
  <2>5. StateShape(s, m)
    <3>1. n - 1 \in 0..N
      BY <1>1
    <3>. QED  BY <1>4, <2>2, <3>1
  <2>6. a = Open(s, i, pool[i].trade, policy) /\ StateShape(a, m)
    BY <2>3, <2>4, <2>5, EventSays
  <2>7. a.outcomes[i] = DecisionOn(s, pool[i].trade, policy)
    BY <2>5, <2>6, OpenSays
  <2>8. t.outcomes = a.outcomes
    <3>1. t = Turn(pool, policy, s, e) /\ a = After(pool, policy, s, e) /\ StateShape(a, m)
      BY <2>3, <2>6
    <3>. QED  BY <3>1, TurnSays
  <2>. QED  BY <2>1, <2>2, <2>7, <2>8
<1>6. ASSUME NEW i \in 1..m  PROVE g[N].outcomes[i] = g[op[i]].outcomes[i]
  <2>. DEFINE B == {n \in op[i]..N : g[n].outcomes[i] # g[op[i]].outcomes[i]}
  <2>0. op[i] \in 1..N
    BY <1>1
  <2>1. SUFFICES ASSUME B # {} PROVE FALSE
    BY <1>1, <2>0
  <2>2. B \in SUBSET Nat
    BY <1>1, <2>0
  <2>3. PICK n \in B : \A k \in B : n <= k
    <3>. HIDE DEF B
    <3>. QED  BY <2>1, <2>2, NatMin
  <2>4. n # op[i] /\ n \in op[i]..N
    BY <2>3
  <2>5. n \in 1..N /\ n - 1 \in op[i]..N /\ n - 1 \in 0..N /\ n - 1 \notin B
    <3>1. n \in 1..N /\ n - 1 \in op[i]..N /\ n - 1 \in 0..N /\ n - 1 < n
      BY <1>1, <2>0, <2>4
    <3>2. n - 1 \notin B
      <4>. HIDE DEF B
      <4>. QED  BY <1>1, <2>3, <3>1
    <3>. QED  BY <3>1, <3>2
  <2>6. g[n].outcomes[i] = g[n - 1].outcomes[i]
    BY <1>3, <1>4, <2>4, <2>5
  <2>. QED  BY <2>3, <2>5, <2>6
<1>7. DecidedOnce(g, op, N, m)
  BY <1>6 DEF DecidedOnce
<1>. QED  BY <1>4, <1>5, <1>7

------------------------------------------------------------------------------
(* What the simulation has held and gained *)

HeldBy(A, op, cl, n) == {j \in A : op[j] <= n /\ n < cl[j]}
GoneBy(A, cl, n) == {j \in A : cl[j] <= n}

OpenedAt(A, op, cl, i, a) ==
    /\ i \notin HeldBy(A, op, cl, a - 1)
    /\ GoneBy(A, cl, a) = GoneBy(A, cl, a - 1)
    /\ HeldBy(A, op, cl, a) = IF i \in A THEN HeldBy(A, op, cl, a - 1) \cup {i} ELSE HeldBy(A, op, cl, a - 1)

ClosedAt(A, op, cl, i, b) ==
    /\ i \in HeldBy(A, op, cl, b - 1) <=> i \in A
    /\ i \notin GoneBy(A, cl, b - 1)
    /\ HeldBy(A, op, cl, b) = HeldBy(A, op, cl, b - 1) \ {i}
    /\ GoneBy(A, cl, b) = IF i \in A THEN GoneBy(A, cl, b - 1) \cup {i} ELSE GoneBy(A, cl, b - 1)

\* At the opening of a position nothing goes, and it is all that may be added
\* to what is held; at its closing, it is all that may go.
LEMMA TimesSay ==
    ASSUME NEW events, NEW pool, NEW m \in Nat, NEW N, NEW op, NEW cl, Timeline(events, pool, m, N, op, cl),
           NEW A \in SUBSET (1..m), NEW i \in 1..m, NEW a, a = op[i], NEW b, b = cl[i]
    PROVE  OpenedAt(A, op, cl, i, a) /\ ClosedAt(A, op, cl, i, b)
<1>1. /\ N \in Nat
      /\ \A j \in 1..m : op[j] \in 1..N /\ cl[j] \in 1..N /\ op[j] < cl[j]
  BY DEF Timeline
<1>2. /\ \A j \in 1..m : events[op[j]].kind = "OPEN" /\ events[op[j]].of = j
      /\ \A j \in 1..m : events[cl[j]].kind = "CLOSE" /\ events[cl[j]].of = j
  BY DEF Timeline
<1>3. a \in Nat /\ b \in Nat /\ 1 <= a /\ a < b
  BY <1>1
<1>4. \A j \in 1..m : op[j] # b /\ cl[j] # a /\ (op[j] = a => j = i) /\ (cl[j] = b => j = i)
  BY <1>2
<1>5. \A j \in 1..m : op[j] \in Nat /\ cl[j] \in Nat
  BY <1>1
<1>6. ASSUME NEW j \in A
      PROVE  /\ op[j] <= a <=> (op[j] <= a - 1 \/ j = i)
             /\ cl[j] <= a <=> cl[j] <= a - 1
             /\ op[j] <= b <=> op[j] <= b - 1
             /\ cl[j] <= b <=> (cl[j] <= b - 1 \/ j = i)
             /\ a < cl[j] <=> a - 1 < cl[j]
             /\ b < cl[j] <=> (b - 1 < cl[j] /\ j # i)
  BY <1>3, <1>4, <1>5
<1>7. GoneBy(A, cl, a) = GoneBy(A, cl, a - 1)
  BY <1>6 DEF GoneBy
<1>8. HeldBy(A, op, cl, b) = HeldBy(A, op, cl, b - 1) \ {i}
  BY <1>6 DEF HeldBy
<1>9. i \notin HeldBy(A, op, cl, a - 1) /\ i \notin GoneBy(A, cl, b - 1)
  BY <1>3 DEF HeldBy, GoneBy
<1>10. i \in HeldBy(A, op, cl, b - 1) <=> i \in A
  BY <1>3 DEF HeldBy
<1>11. HeldBy(A, op, cl, a) = IF i \in A THEN HeldBy(A, op, cl, a - 1) \cup {i} ELSE HeldBy(A, op, cl, a - 1)
  <2>1. a - 1 < cl[i] /\ a < cl[i]
    BY <1>3
  <2>. QED  BY <1>6, <2>1 DEF HeldBy
<1>12. GoneBy(A, cl, b) = IF i \in A THEN GoneBy(A, cl, b - 1) \cup {i} ELSE GoneBy(A, cl, b - 1)
  BY <1>6 DEF GoneBy
<1>. QED  BY <1>7, <1>8, <1>9, <1>10, <1>11, <1>12 DEF OpenedAt, ClosedAt

Risks(pool) == [i \in DOMAIN pool |-> pool[i].trade.risk]
Gains(pool) == [i \in DOMAIN pool |-> pool[i].trade.net]

Sums(s, pool, policy, H, G) ==
    /\ s.held = H
    /\ s.occupied = SumFunctionOnSet(Risks(pool), H)
    /\ s.realized = SumFunctionOnSet(Gains(pool), G)
    /\ s.available = policy.capital - Million * s.occupied + s.realized

Room(s, policy, H) ==
    Cardinality(H) <= policy.concurrent /\ s.peak \in Nat /\ s.peak <= policy.concurrent

Drawing(s, policy, H, G) ==
    /\ s.curve \in Seq(Int)
    /\ IF s.curve = <<>> THEN H = {} /\ G = {}
       ELSE Last(s.curve) = policy.capital + s.realized

\* The books of a state are right when H is held and G has gone.
Accounts(s, pool, policy, H, G) ==
    Sums(s, pool, policy, H, G) /\ Room(s, policy, H) /\ Drawing(s, policy, H, G)

\* Whole millionths are quantized to themselves.
LEMMA WholeMillionths == \A x \in Int : _quantize_money(x, 1) = x
<1>1. \A x \in Nat : (2 * x + 1) \div (2 * 1) = x
  OBVIOUS
<1>2. ASSUME NEW x \in Int, x >= 0  PROVE _quantize_money(x, 1) = x
  <2>1. x \in Nat
    BY <1>2
  <2>. QED  BY <1>1, <1>2, <2>1 DEF _quantize_money
<1>3. ASSUME NEW x \in Int, ~(x >= 0)  PROVE _quantize_money(x, 1) = x
  <2>1. PICK y : y = -x
    OBVIOUS
  <2>2. y \in Nat /\ 1 - 2 * x = 2 * y + 1 /\ x = -y
    BY <1>3, <2>1
  <2>3. (1 - 2 * x) \div (2 * 1) = y
    BY <1>1, <2>2
  <2>. QED  BY <1>3, <2>2, <2>3 DEF _quantize_money
<1>. QED  BY <1>2, <1>3

\* The last of an extended curve is its new point.
LEMMA CurveEnds ==
    ASSUME NEW c \in Seq(Int), NEW x \in Int, NEW d, d = Append(c, x)
    PROVE  d \in Seq(Int) /\ d # <<>> /\ Last(d) = x
  BY DEF Last

\* Risks and gains are numbers, and sums of them over positions too.
LEMMA SumsAreNumbers ==
    ASSUME NEW pool, NEW m, PoolFits(pool, m), NEW H \in SUBSET (1..m)
    PROVE  /\ IsFiniteSet(H) /\ Cardinality(H) \in Nat
           /\ SumFunctionOnSet(Risks(pool), H) \in Int /\ SumFunctionOnSet(Gains(pool), H) \in Int
           /\ \A i \in 1..m : /\ Risks(pool)[i] = pool[i].trade.risk /\ Gains(pool)[i] = pool[i].trade.net
                              /\ pool[i].trade.risk \in Nat /\ pool[i].trade.net \in Int
<1>1. m \in Nat /\ DOMAIN pool = 1..m /\ \A i \in 1..m : pool[i].trade.risk \in Nat /\ pool[i].trade.net \in Int
  BY DEF PoolFits
<1>2. IsFiniteSet(H) /\ Cardinality(H) \in Nat
  <2>1. 1 \in Int /\ m \in Int
    BY <1>1
  <2>2. IsFiniteSet(1..m)
    BY <2>1, FS_Interval
  <2>. QED  BY <2>2, FS_Subset, FS_CardinalityType
<1>3. PICK r, g : r = Risks(pool) /\ g = Gains(pool)
  OBVIOUS
<1>4. \A i \in 1..m : r[i] = pool[i].trade.risk /\ g[i] = pool[i].trade.net
  BY <1>1, <1>3 DEF Risks, Gains
<1>5. ASSUME NEW i \in H  PROVE r[i] \in Int /\ g[i] \in Int
  <2>1. i \in 1..m
    OBVIOUS
  <2>2. r[i] = pool[i].trade.risk /\ g[i] = pool[i].trade.net
    BY <1>4, <2>1
  <2>3. pool[i].trade.risk \in Nat /\ pool[i].trade.net \in Int
    BY <1>1, <2>1
  <2>. QED  BY <2>2, <2>3
<1>6. SumFunctionOnSet(r, H) \in Int /\ SumFunctionOnSet(g, H) \in Int
  BY <1>2, <1>5, SumSays
<1>. QED  BY <1>1, <1>2, <1>3, <1>4, <1>6

\* Before any event the books are right.
LEMMA BooksBegin ==
    ASSUME NEW pool, NEW m, PoolFits(pool, m), NEW policy, policy.capital \in Nat, policy.concurrent \in Nat,
           NEW s, s = Before(pool, policy)
    PROVE  Accounts(s, pool, policy, {}, {})
<1>1. IsFiniteSet({}) /\ Cardinality({}) = 0
  BY FS_EmptySet
<1>2. SumFunctionOnSet(Risks(pool), {}) = 0 /\ SumFunctionOnSet(Gains(pool), {}) = 0
  BY <1>1, SumSays
<1>3. PICK a : a = policy.capital
  OBVIOUS
<1>4. /\ s.held = {} /\ s.occupied = 0 /\ s.realized = 0 /\ s.available = a
      /\ s.peak = 0 /\ s.curve = <<>>
  BY <1>3 DEF Before
<1>5. Sums(s, pool, policy, {}, {})
  <2>1. a = policy.capital - Million * 0 + 0
    BY <1>3 DEF Million
  <2>. QED  BY <1>2, <1>4, <2>1 DEF Sums
<1>6. Room(s, policy, {})
  BY <1>1, <1>4 DEF Room
<1>7. Drawing(s, policy, {}, {})
  BY <1>4 DEF Drawing
<1>. QED  BY <1>5, <1>6, <1>7 DEF Accounts

\* A turn that changes what is held draws the equity, and the most positions
\* held so far.
LEMMA TurnBooks ==
    ASSUME NEW policy, policy.capital \in Nat, policy.concurrent \in Nat,
           NEW s, NEW a, NEW t, Drawn(s, a, t, policy), NEW H, NEW G, NEW I, NEW J,
           s.held = H, a.held = I, a.curve = s.curve, a.peak = s.peak, a.realized \in Int,
           Room(s, policy, H), Drawing(s, policy, H, G), IsFiniteSet(I), Cardinality(I) <= policy.concurrent,
           I = H => J = G /\ a.realized = s.realized
    PROVE  Room(t, policy, I) /\ Drawing(t, policy, I, J)
<1>0. Cardinality(I) \in Nat
  BY FS_CardinalityType
<1>1. CASE I = H
  <2>1. t.curve = s.curve /\ t.peak = s.peak /\ t.realized = s.realized
    BY <1>1 DEF Drawn
  <2>. QED  BY <1>1, <2>1 DEF Room, Drawing
<1>2. CASE I # H
  <2>1. PICK x : x = _quantize_money(policy.capital + a.realized, 1)
    OBVIOUS
  <2>2. x \in Int /\ x = policy.capital + a.realized
    <3>1. policy.capital + a.realized \in Int
      OBVIOUS
    <3>. QED  BY <2>1, <3>1, WholeMillionths
  <2>3. t.curve = Append(s.curve, x) /\ t.peak = Max({s.peak, Cardinality(I)}) /\ t.realized = a.realized
    BY <1>2, <2>1 DEF Drawn
  <2>4. Room(t, policy, I)
    <3>1. PICK S : S = {s.peak, Cardinality(I)}
      OBVIOUS
    <3>2. S \in SUBSET Nat /\ S # {} /\ \A y \in S : y <= policy.concurrent
      BY <1>0, <3>1 DEF Room
    <3>3. Max(S) \in S
      BY <3>2, NatMax
    <3>. QED  BY <2>3, <3>1, <3>2, <3>3 DEF Room
  <2>5. Drawing(t, policy, I, J)
    <3>1. s.curve \in Seq(Int)
      BY DEF Drawing
    <3>2. t.curve \in Seq(Int) /\ t.curve # <<>> /\ Last(t.curve) = x
      BY <2>2, <2>3, <3>1, CurveEnds
    <3>. QED  BY <2>2, <2>3, <3>2 DEF Drawing
  <2>. QED  BY <2>4, <2>5
<1>. QED  BY <1>1, <1>2

\* What adding a position to a set, or taking one away, does to its sums.
LEMMA SumsMove ==
    ASSUME NEW pool, NEW m, PoolFits(pool, m), NEW H \in SUBSET (1..m), NEW i \in 1..m, i \notin H,
           NEW I, I = H \cup {i}
    PROVE  /\ Cardinality(I) = Cardinality(H) + 1
           /\ SumFunctionOnSet(Risks(pool), I) = SumFunctionOnSet(Risks(pool), H) + pool[i].trade.risk
           /\ SumFunctionOnSet(Gains(pool), I) = SumFunctionOnSet(Gains(pool), H) + pool[i].trade.net
<1>1. IsFiniteSet(H) /\ I \in SUBSET (1..m) /\ i \in I /\ I \ {i} = H
  BY SumsAreNumbers
<1>2. PICK r, g : r = Risks(pool) /\ g = Gains(pool)
  OBVIOUS
<1>3. \A j \in 1..m : r[j] = pool[j].trade.risk /\ g[j] = pool[j].trade.net
  BY <1>2, SumsAreNumbers
<1>4. \A j \in 1..m : pool[j].trade.risk \in Nat /\ pool[j].trade.net \in Int
  BY SumsAreNumbers
<1>5. ASSUME NEW j \in I  PROVE r[j] \in Int /\ g[j] \in Int
  <2>1. j \in 1..m
    BY <1>1
  <2>2. r[j] = pool[j].trade.risk /\ g[j] = pool[j].trade.net
    BY <1>3, <2>1
  <2>3. pool[j].trade.risk \in Nat /\ pool[j].trade.net \in Int
    BY <1>4, <2>1
  <2>. QED  BY <2>2, <2>3
<1>6. IsFiniteSet(I)
  BY <1>1, SumsAreNumbers
<1>7. SumFunctionOnSet(r, I) = r[i] + SumFunctionOnSet(r, H) /\ SumFunctionOnSet(g, I) = g[i] + SumFunctionOnSet(g, H)
  <2>1. SumFunctionOnSet(r, I) = r[i] + SumFunctionOnSet(r, I \ {i})
    BY <1>1, <1>5, <1>6, SumSays
  <2>2. SumFunctionOnSet(g, I) = g[i] + SumFunctionOnSet(g, I \ {i})
    BY <1>1, <1>5, <1>6, SumSays
  <2>. QED  BY <1>1, <2>1, <2>2
<1>8. Cardinality(I) = Cardinality(H) + 1
  BY <1>1, FS_AddElement
<1>9. PICK x, y, u, v : /\ x = SumFunctionOnSet(r, H) /\ y = SumFunctionOnSet(g, H)
                        /\ u = pool[i].trade.risk /\ v = pool[i].trade.net
  OBVIOUS
<1>10. x \in Int /\ y \in Int /\ u \in Int /\ v \in Int
  BY <1>2, <1>4, <1>9, SumsAreNumbers
<1>11. SumFunctionOnSet(r, I) = u + x /\ SumFunctionOnSet(g, I) = v + y
  BY <1>3, <1>7, <1>9
<1>. QED  BY <1>2, <1>8, <1>9, <1>10, <1>11

\* An opening keeps the books right: what it decides to hold is held.
LEMMA OpeningBooks ==
    ASSUME NEW pool, NEW m \in Nat, PoolFits(pool, m), NEW policy, policy.capital \in Nat, policy.concurrent \in Nat,
           NEW s, StateShape(s, m), NEW H \in SUBSET (1..m), NEW G \in SUBSET (1..m), Accounts(s, pool, policy, H, G),
           NEW event, NEW i \in 1..m, event.of = i, event.kind = "OPEN", i \notin H,
           NEW d, d = DecisionOn(s, pool[i].trade, policy),
           NEW I, I = (IF d = "ALLOCATED" THEN H \cup {i} ELSE H),
           NEW t, t = Turn(pool, policy, s, event)
    PROVE  Accounts(t, pool, policy, I, G)
<1>1. PICK a, trade : a = After(pool, policy, s, event) /\ trade = pool[i].trade
  OBVIOUS
<1>2. a = Open(s, i, trade, policy) /\ StateShape(a, m)
  <2>1. event.of \in 1..m /\ event.kind \in {"OPEN", "CLOSE"}
    OBVIOUS
  <2>. QED  BY <1>1, <2>1, EventSays
<1>3. /\ a.realized = s.realized /\ a.curve = s.curve /\ a.peak = s.peak
      /\ d = "ALLOCATED" => Opened(s, a, i, trade)
      /\ d # "ALLOCATED" => Same(s, a)
  BY <1>1, <1>2, OpenSays
<1>4. Drawn(s, a, t, policy)
  BY <1>1, <1>2, TurnSays
<1>5. Sums(s, pool, policy, H, G) /\ Room(s, policy, H) /\ Drawing(s, policy, H, G)
  BY DEF Accounts
<1>6. I \in SUBSET (1..m) /\ IsFiniteSet(I)
  <2>1. I \in SUBSET (1..m)
    OBVIOUS
  <2>. QED  BY <2>1, SumsAreNumbers
<1>7. s.realized \in Int /\ s.occupied \in Int /\ trade.risk \in Nat
  BY <1>1, <1>5, SumsAreNumbers DEF Sums
<1>8. Sums(a, pool, policy, I, G) /\ Cardinality(I) <= policy.concurrent
  <2>1. CASE d = "ALLOCATED"
    <3>1. /\ Cardinality(I) = Cardinality(H) + 1
          /\ SumFunctionOnSet(Risks(pool), I) = SumFunctionOnSet(Risks(pool), H) + trade.risk
      BY <1>1, <2>1, SumsMove
    <3>2. Cardinality(H) \in Nat
      BY SumsAreNumbers
    <3>3. Cardinality(s.held) < policy.concurrent
      <4>1. Cardinality(s.held) \in Nat
        BY <1>5, <3>2 DEF Sums
      <4>2. ~(Cardinality(s.held) >= policy.concurrent)
        <5>1. PICK p, q, r : /\ p = (s.available < Million * trade.risk) /\ q = (Cardinality(s.held) >= policy.concurrent)
                             /\ r = (Million * (s.occupied + trade.risk) > UtilizationLimit(policy))
          OBVIOUS
        <5>2. d = IF p THEN "INSUFFICIENT_AVAILABLE_CAPITAL" ELSE IF q THEN "MAX_CONCURRENT_POSITIONS"
                  ELSE IF r THEN "MAX_CAPITAL_UTILIZATION_EXCEEDED" ELSE "ALLOCATED"
          BY <1>1, <5>1, Zenon DEF DecisionOn
        <5>3. ~q
          BY <2>1, <5>2
        <5>. QED  BY <5>1, <5>3
      <4>. QED  BY <4>1, <4>2
    <3>4. Cardinality(I) <= policy.concurrent
      BY <1>5, <3>1, <3>2, <3>3 DEF Sums
    <3>5. Sums(a, pool, policy, I, G)
      <4>1. a.available = s.available - Million * trade.risk /\ a.occupied = s.occupied + trade.risk /\ a.held = I
        BY <1>3, <1>5, <2>1 DEF Opened, Sums
      <4>2. a.occupied = SumFunctionOnSet(Risks(pool), I)
        BY <1>5, <3>1, <4>1 DEF Sums
      <4>3. a.available = policy.capital - Million * a.occupied + a.realized
        <5>1. PICK oc, av, re, ri, ca : /\ oc = s.occupied /\ av = s.available /\ re = s.realized
                                        /\ ri = trade.risk /\ ca = policy.capital
          OBVIOUS
        <5>2. oc \in Int /\ re \in Int /\ ri \in Int /\ ca \in Int
          BY <1>7, <5>1
        <5>3. av = ca - Million * oc + re
          BY <1>5, <5>1 DEF Sums
        <5>4. av - Million * ri = ca - Million * (oc + ri) + re
          BY <5>2, <5>3 DEF Million
        <5>. QED  BY <1>3, <4>1, <5>1, <5>4
      <4>4. a.realized = SumFunctionOnSet(Gains(pool), G)
        BY <1>3, <1>5 DEF Sums
      <4>. QED  BY <4>1, <4>2, <4>3, <4>4 DEF Sums
    <3>. QED  BY <3>4, <3>5
  <2>2. CASE d # "ALLOCATED"
    <3>1. I = H /\ Same(s, a)
      BY <1>3, <2>2
    <3>2. Sums(a, pool, policy, I, G)
      BY <1>3, <1>5, <3>1 DEF Sums, Same
    <3>. QED  BY <1>5, <3>1, <3>2 DEF Room
  <2>. QED  BY <2>1, <2>2
<1>9. Room(t, policy, I) /\ Drawing(t, policy, I, G)
  <2>1. s.held = H /\ a.held = I
    BY <1>5, <1>8 DEF Sums
  <2>2. a.realized \in Int
    BY <1>3, <1>7
  <2>. QED  BY <1>3, <1>4, <1>5, <1>6, <1>8, <2>1, <2>2, TurnBooks
<1>10. Sums(t, pool, policy, I, G)
  BY <1>4, <1>8 DEF Sums, Drawn, Same
<1>. QED  BY <1>9, <1>10 DEF Accounts

\* A closing keeps the books right: what was held goes, with its gain.
LEMMA ClosingBooks ==
    ASSUME NEW pool, NEW m \in Nat, PoolFits(pool, m), NEW policy, policy.capital \in Nat, policy.concurrent \in Nat,
           NEW s, StateShape(s, m), NEW H \in SUBSET (1..m), NEW G \in SUBSET (1..m), Accounts(s, pool, policy, H, G),
           NEW event, NEW i \in 1..m, event.of = i, event.kind = "CLOSE", i \notin G,
           NEW J, J = (IF i \in H THEN G \cup {i} ELSE G),
           NEW t, t = Turn(pool, policy, s, event)
    PROVE  Accounts(t, pool, policy, H \ {i}, J)
<1>1. PICK a, trade, I : a = After(pool, policy, s, event) /\ trade = pool[i].trade /\ I = H \ {i}
  OBVIOUS
<1>2. event.of \in 1..m /\ event.kind \in {"OPEN", "CLOSE"} /\ event.kind # "OPEN"
  OBVIOUS
<1>3. Sums(s, pool, policy, H, G) /\ Room(s, policy, H) /\ Drawing(s, policy, H, G)
  BY DEF Accounts
<1>4. /\ i \in H => a = Close(s, i, trade)
      /\ i \notin H => a = s
      /\ StateShape(a, m)
  BY <1>1, <1>2, <1>3, EventSays DEF Sums
<1>5. Drawn(s, a, t, policy)
  BY <1>1, <1>4, TurnSays
<1>6. I \in SUBSET (1..m) /\ IsFiniteSet(I) /\ Cardinality(I) \in Nat /\ Cardinality(H) \in Nat
  <2>1. I \in SUBSET (1..m)
    BY <1>1
  <2>. QED  BY <2>1, SumsAreNumbers
<1>7. s.realized \in Int /\ s.occupied \in Int /\ trade.risk \in Nat /\ trade.net \in Int
  BY <1>1, <1>3, SumsAreNumbers DEF Sums
<1>8. CASE i \in H
  <2>1. i \notin I /\ H = I \cup {i}
    BY <1>1, <1>8
  <2>2. /\ Cardinality(H) = Cardinality(I) + 1
        /\ SumFunctionOnSet(Risks(pool), H) = SumFunctionOnSet(Risks(pool), I) + trade.risk
    BY <1>1, <1>6, <2>1, SumsMove
  <2>3. J = G \cup {i}
    BY <1>8
  <2>4. SumFunctionOnSet(Gains(pool), J) = SumFunctionOnSet(Gains(pool), G) + trade.net
    BY <1>1, <2>3, SumsMove
  <2>5. /\ a.curve = s.curve /\ a.peak = s.peak /\ a.realized = s.realized + trade.net
        /\ Closed(s, a, i, trade)
    BY <1>1, <1>4, <1>8, CloseSays
  <2>6. /\ a.available = s.available + Million * trade.risk + trade.net
        /\ a.occupied = s.occupied - trade.risk /\ a.held = I
    BY <1>1, <1>3, <2>5 DEF Closed, Sums
  <2>7. Sums(a, pool, policy, I, J)
    <3>1. a.occupied = SumFunctionOnSet(Risks(pool), I)
      <4>1. SumFunctionOnSet(Risks(pool), I) \in Int
        BY <1>6, SumsAreNumbers
      <4>. QED  BY <1>3, <1>7, <2>2, <2>6, <4>1 DEF Sums
    <3>2. a.realized = SumFunctionOnSet(Gains(pool), J)
      BY <1>3, <2>4, <2>5 DEF Sums
    <3>3. a.available = policy.capital - Million * a.occupied + a.realized
      <4>1. PICK oc, av, re, ri, ca, ne : /\ oc = s.occupied /\ av = s.available /\ re = s.realized
                                          /\ ri = trade.risk /\ ca = policy.capital /\ ne = trade.net
        OBVIOUS
      <4>2. oc \in Int /\ re \in Int /\ ri \in Int /\ ca \in Int /\ ne \in Int
        BY <1>7, <4>1
      <4>3. av = ca - Million * oc + re
        BY <1>3, <4>1 DEF Sums
      <4>4. av + Million * ri + ne = ca - Million * (oc - ri) + (re + ne)
        BY <4>2, <4>3 DEF Million
      <4>. QED  BY <2>5, <2>6, <4>1, <4>4
    <3>. QED  BY <2>6, <3>1, <3>2, <3>3 DEF Sums
  <2>8. Room(t, policy, I) /\ Drawing(t, policy, I, J)
    <3>1. s.held = H /\ a.held = I /\ a.realized \in Int /\ I # H
      BY <1>3, <1>7, <1>8, <2>1, <2>5, <2>6 DEF Sums
    <3>2. Cardinality(I) <= policy.concurrent
      BY <1>3, <1>6, <2>2 DEF Room
    <3>. QED  BY <1>3, <1>5, <1>6, <2>5, <3>1, <3>2, TurnBooks
  <2>9. Sums(t, pool, policy, I, J)
    BY <1>5, <2>7 DEF Sums, Drawn, Same
  <2>. QED  BY <1>1, <2>8, <2>9 DEF Accounts
<1>9. CASE i \notin H
  <2>1. I = H /\ J = G /\ a = s
    BY <1>1, <1>4, <1>9
  <2>2. Sums(t, pool, policy, H, G)
    BY <1>3, <1>5, <2>1 DEF Sums, Drawn, Same
  <2>3. Room(t, policy, H) /\ Drawing(t, policy, H, G)
    BY <1>3, <1>5, <2>1 DEF Sums, Drawn, Room, Drawing
  <2>. QED  BY <1>1, <2>1, <2>2, <2>3 DEF Accounts
<1>. QED  BY <1>8, <1>9

Taken(g, op, m) == {j \in 1..m : g[op[j]].outcomes[j] = "ALLOCATED"}

\* The books are right after every event.
LEMMA BooksStayRight ==
    ASSUME NEW pool, NEW m \in Nat, PoolFits(pool, m), NEW policy, policy.capital \in Nat, policy.concurrent \in Nat,
           NEW events, NEW N, NEW op, NEW cl, Timeline(events, pool, m, N, op, cl),
           NEW g, Simulates(g, pool, policy, events, N), NEW A, A = Taken(g, op, m)
    PROVE  \A n \in 0..N : Accounts(g[n], pool, policy, HeldBy(A, op, cl, n), GoneBy(A, cl, n))
<1>1. /\ N \in Nat
      /\ \A j \in 1..m : op[j] \in 1..N /\ cl[j] \in 1..N /\ op[j] < cl[j]
  BY DEF Timeline
<1>2. A \in SUBSET (1..m) /\ \A j \in 1..m : j \in A <=> g[op[j]].outcomes[j] = "ALLOCATED"
  BY DEF Taken
<1>3. DOMAIN pool = 1..m
  BY DEF PoolFits
<1>4. \A n \in 0..N : StateShape(g[n], m)
  BY <1>3, DecisionsStay
<1>5. DecidedWell(g, pool, policy, op, m)
  BY <1>3, DecisionsStay
<1>6. \A n : HeldBy(A, op, cl, n) \in SUBSET (1..m) /\ GoneBy(A, cl, n) \in SUBSET (1..m)
  BY <1>2 DEF HeldBy, GoneBy
<1>. DEFINE Right(n) == Accounts(g[n], pool, policy, HeldBy(A, op, cl, n), GoneBy(A, cl, n))
            B == {n \in 0..N : ~Right(n)}
<1>7. Right(0)
  <2>1. HeldBy(A, op, cl, 0) = {} /\ GoneBy(A, cl, 0) = {}
    <3>1. \A j \in A : ~(op[j] <= 0) /\ ~(cl[j] <= 0)
      BY <1>1, <1>2
    <3>. QED  BY <3>1 DEF HeldBy, GoneBy
  <2>2. PICK s : s = g[0]
    OBVIOUS
  <2>3. s = Before(pool, policy)
    BY <2>2 DEF Simulates
  <2>4. Accounts(s, pool, policy, {}, {})
    BY <2>3, BooksBegin
  <2>. QED  BY <2>1, <2>2, <2>4
<1>8. ASSUME NEW n \in 1..N, Right(n - 1)
      PROVE  Right(n)
  <2>1. PICK i \in 1..m : n = op[i] \/ n = cl[i]
    BY DEF Timeline
  <2>2. PICK s, t, e, H, G : /\ s = g[n - 1] /\ t = g[n] /\ e = events[n]
                             /\ H = HeldBy(A, op, cl, n - 1) /\ G = GoneBy(A, cl, n - 1)
    OBVIOUS
  <2>3. /\ t = Turn(pool, policy, s, e) /\ StateShape(s, m) /\ Accounts(s, pool, policy, H, G)
        /\ H \in SUBSET (1..m) /\ G \in SUBSET (1..m)
    <3>1. n - 1 \in 0..N
      BY <1>1
    <3>2. t = Turn(pool, policy, s, e)
      BY <2>2 DEF Simulates
    <3>3. StateShape(s, m)
      BY <1>4, <2>2, <3>1
    <3>. QED  BY <1>6, <1>8, <2>2, <3>2, <3>3
  <2>4. CASE n = op[i]
    <3>1. e.kind = "OPEN" /\ e.of = i
      BY <2>2, <2>4 DEF Timeline
    <3>2. PICK d, I : d = DecisionOn(s, pool[i].trade, policy) /\ I = IF d = "ALLOCATED" THEN H \cup {i} ELSE H
      OBVIOUS
    <3>3. d = "ALLOCATED" <=> i \in A
      BY <1>2, <1>5, <2>2, <2>4, <3>2 DEF DecidedWell
    <3>4. i \notin H /\ GoneBy(A, cl, n) = G /\ HeldBy(A, op, cl, n) = IF i \in A THEN H \cup {i} ELSE H
      <4>1. OpenedAt(A, op, cl, i, n)
        BY <1>2, <2>4, TimesSay
      <4>. QED  BY <2>2, <4>1 DEF OpenedAt
    <3>5. Accounts(t, pool, policy, I, G)
      BY <2>3, <3>1, <3>2, <3>4, OpeningBooks
    <3>. QED  BY <2>2, <3>2, <3>3, <3>4, <3>5
  <2>5. CASE n = cl[i]
    <3>1. e.kind = "CLOSE" /\ e.of = i
      BY <2>2, <2>5 DEF Timeline
    <3>2. PICK J : J = IF i \in H THEN G \cup {i} ELSE G
      OBVIOUS
    <3>3. /\ i \in H <=> i \in A
          /\ i \notin G /\ HeldBy(A, op, cl, n) = H \ {i}
          /\ GoneBy(A, cl, n) = IF i \in A THEN G \cup {i} ELSE G
      <4>1. ClosedAt(A, op, cl, i, n)
        BY <1>2, <2>5, TimesSay
      <4>. QED  BY <2>2, <4>1 DEF ClosedAt
    <3>4. Accounts(t, pool, policy, H \ {i}, J)
      BY <2>3, <3>1, <3>2, <3>3, ClosingBooks
    <3>. QED  BY <2>2, <3>2, <3>3, <3>4
  <2>. QED  BY <2>1, <2>4, <2>5
<1>9. B = {}
  <2>1. SUFFICES ASSUME B # {} PROVE FALSE
    OBVIOUS
  <2>2. B \in SUBSET Nat
    BY <1>1
  <2>3. PICK n \in B : \A k \in B : n <= k
    <3>. HIDE DEF B
    <3>. QED  BY <2>1, <2>2, NatMin
  <2>4. n \in 0..N /\ ~Right(n) /\ n # 0
    <3>. HIDE DEF Right
    <3>. QED  BY <1>7, <2>3
  <2>5. n \in 1..N /\ n - 1 \in 0..N /\ n - 1 < n
    BY <1>1, <2>4
  <2>6. n - 1 \notin B
    <3>1. n - 1 \in Nat /\ n \in Nat /\ ~(n <= n - 1)
      BY <1>1, <2>4, <2>5
    <3>. HIDE DEF B
    <3>. QED  BY <2>3, <3>1
  <2>7. Right(n - 1)
    <3>. HIDE DEF Right
    <3>. QED  BY <2>5, <2>6
  <2>. HIDE DEF Right, B
  <2>. QED  BY <1>8, <2>4, <2>5, <2>7
<1>. QED  BY <1>9

------------------------------------------------------------------------------
(* A report obeys its policy *)

\* A report lists the pool's opportunities, each with its decision.
Lists(report, pool, m, A) ==
    /\ DOMAIN report.decisions = 1..m
    /\ \A i \in 1..m : /\ report.decisions[i].trade = pool[i].trade
                       /\ report.decisions[i].sequence = pool[i].sequence
                       /\ report.decisions[i].decision = "ALLOCATED" <=> i \in A

\* What a report says was held and gone at a decision is what the simulation
\* held and had seen go just before that position's opening.
LEMMA HeldIsHeld ==
    ASSUME NEW pool, NEW m \in Nat, PoolFits(pool, m), NEW events, NEW N, NEW op, NEW cl,
           Timeline(events, pool, m, N, op, cl), NEW A \in SUBSET (1..m),
           NEW report, Lists(report, pool, m, A), NEW i \in 1..m, NEW n, n = op[i] - 1
    PROVE  HeldAt(report, i) = HeldBy(A, op, cl, n) /\ Earlier(report, i) \ HeldAt(report, i) = GoneBy(A, cl, n)
<1>1. /\ N \in Nat
      /\ \A j \in 1..m : op[j] \in 1..N /\ cl[j] \in 1..N /\ op[j] < cl[j]
  BY DEF Timeline
<1>2. ASSUME NEW j \in 1..m
      PROVE  OpensAhead(report, j, i) <=> op[j] < op[i]
  <2>1. op[j] < op[i] <=> Precedes(ShortKey(pool, j), ShortKey(pool, i))
    BY DEF Timeline
  <2>2. /\ report.decisions[j].trade = pool[j].trade /\ report.decisions[j].sequence = pool[j].sequence
        /\ report.decisions[i].trade = pool[i].trade /\ report.decisions[i].sequence = pool[i].sequence
    BY DEF Lists
  <2>3. OpensAhead(report, j, i) <=> Precedes(ShortKey(pool, j), ShortKey(pool, i))
    BY <2>2, Zenon DEF OpensAhead, ShortKey
  <2>. QED  BY <2>1, <2>3
<1>3. ASSUME NEW j \in 1..m
      PROVE  ClosedBy(report.decisions[j].trade, report.decisions[i].trade.entry) <=> cl[j] < op[i]
  <2>1. cl[j] < op[i] <=> ClosedBy(pool[j].trade, pool[i].trade.entry)
    BY DEF Timeline
  <2>2. report.decisions[j].trade = pool[j].trade /\ report.decisions[i].trade = pool[i].trade
    BY DEF Lists
  <2>. QED  BY <2>1, <2>2, Zenon
<1>4. ASSUME NEW j \in 1..m
      PROVE  /\ op[j] <= n <=> op[j] < op[i]
             /\ n < cl[j] <=> ~(cl[j] < op[i])
             /\ cl[j] <= n <=> cl[j] < op[i]
             /\ cl[j] < op[i] => op[j] < op[i]
  <2>1. op[j] \in Int /\ cl[j] \in Int /\ op[i] \in Int /\ op[j] < cl[j]
    BY <1>1
  <2>. QED  BY <2>1
<1>5. \A j : j \in Earlier(report, i) <=> j \in A /\ op[j] <= n
  BY <1>2, <1>4 DEF Earlier, Lists
<1>6. \A j : j \in HeldAt(report, i) <=> j \in A /\ op[j] <= n /\ n < cl[j]
  BY <1>3, <1>4, <1>5 DEF HeldAt
<1>7. HeldAt(report, i) = HeldBy(A, op, cl, n)
  BY <1>6 DEF HeldBy
<1>8. \A j : j \in Earlier(report, i) \ HeldAt(report, i) <=> j \in A /\ cl[j] <= n
  BY <1>4, <1>5, <1>6
<1>9. Earlier(report, i) \ HeldAt(report, i) = GoneBy(A, cl, n)
  BY <1>8 DEF GoneBy
<1>. QED  BY <1>7, <1>9

\* The risks and gains a report adds up are those of the pool.
LEMMA ReportSums ==
    ASSUME NEW pool, NEW m \in Nat, PoolFits(pool, m), NEW A, NEW report, Lists(report, pool, m, A),
           NEW H \in SUBSET (1..m)
    PROVE  /\ RiskOf(report, H) = SumFunctionOnSet(Risks(pool), H)
           /\ GainOf(report, H) = SumFunctionOnSet(Gains(pool), H)
<1>1. PICK r, f : r = Risks(pool) /\ f = [j \in H |-> report.decisions[j].trade.risk]
  OBVIOUS
<1>2. PICK g, h : g = Gains(pool) /\ h = [j \in H |-> report.decisions[j].trade.net]
  OBVIOUS
<1>3. ASSUME NEW j \in H
      PROVE  f[j] \in Int /\ h[j] \in Int /\ r[j] = f[j] /\ g[j] = h[j]
  <2>1. j \in 1..m
    OBVIOUS
  <2>2. report.decisions[j].trade = pool[j].trade
    BY <2>1 DEF Lists
  <2>3. f[j] = pool[j].trade.risk /\ h[j] = pool[j].trade.net
    BY <1>1, <1>2, <2>2
  <2>4. /\ r[j] = pool[j].trade.risk /\ g[j] = pool[j].trade.net
        /\ pool[j].trade.risk \in Nat /\ pool[j].trade.net \in Int
    BY <1>1, <1>2, <2>1, SumsAreNumbers
  <2>. QED  BY <2>3, <2>4
<1>4. IsFiniteSet(H)
  BY SumsAreNumbers
<1>5. SumFunctionOnSet(f, H) = SumFunctionOnSet(r, H) /\ SumFunctionOnSet(h, H) = SumFunctionOnSet(g, H)
  BY <1>3, <1>4, SumAgrees
<1>6. DOMAIN f = H /\ DOMAIN h = H
  BY <1>1, <1>2
<1>7. RiskOf(report, H) = SumFunctionOnSet(f, H)
  BY <1>1, <1>6, Zenon DEF RiskOf, SumFunction
<1>8. GainOf(report, H) = SumFunctionOnSet(h, H)
  BY <1>2, <1>6, Zenon DEF GainOf, SumFunction
<1>. QED  BY <1>1, <1>2, <1>5, <1>7, <1>8

\* The ending capital of right books is what was there and what was gained.
LEMMA EndingIsRight ==
    ASSUME NEW pool, NEW m \in Nat, PoolFits(pool, m), NEW policy, policy.capital \in Nat,
           NEW s, NEW A \in SUBSET (1..m), Accounts(s, pool, policy, {}, A),
           NEW gain, gain = SumFunctionOnSet(Gains(pool), A)
    PROVE  EndingCapital(s, policy) = policy.capital + gain
<1>1. s.realized = gain /\ gain \in Int
  BY SumsAreNumbers DEF Accounts, Sums
<1>2. CASE s.curve = <<>>
  <2>1. A = {}
    BY <1>2 DEF Accounts, Drawing
  <2>2. gain = 0
    <3>1. IsFiniteSet({})
      BY FS_EmptySet
    <3>2. SumFunctionOnSet(Gains(pool), {}) = 0
      BY <3>1, SumSays
    <3>. QED  BY <2>1, <3>2
  <2>3. _quantize_money(policy.capital, 1) = policy.capital
    BY WholeMillionths
  <2>4. policy.capital + gain = policy.capital
    BY <2>2
  <2>. QED  BY <1>2, <2>3, <2>4 DEF EndingCapital
<1>3. CASE s.curve # <<>>
  BY <1>1, <1>3 DEF Accounts, Drawing, EndingCapital
<1>. QED  BY <1>2, <1>3

\* A decision of right books is the one the report's own decisions justify.
LEMMA DecisionIsRight ==
    ASSUME NEW pool, NEW m \in Nat, PoolFits(pool, m), NEW policy, policy.capital \in Nat, policy.concurrent \in Nat,
           NEW A \in SUBSET (1..m), NEW report, Lists(report, pool, m, A), report.policy = policy,
           NEW i \in 1..m, NEW H \in SUBSET (1..m), NEW G \in SUBSET (1..m),
           HeldAt(report, i) = H, Earlier(report, i) \ HeldAt(report, i) = G,
           NEW s, Accounts(s, pool, policy, H, G),
           report.decisions[i].decision = DecisionOn(s, pool[i].trade, policy)
    PROVE  report.decisions[i].decision
             = IF ~(CashAt(report, i) >= Million * report.decisions[i].trade.risk) THEN "INSUFFICIENT_AVAILABLE_CAPITAL"
               ELSE IF ~(Cardinality(HeldAt(report, i)) < policy.concurrent) THEN "MAX_CONCURRENT_POSITIONS"
               ELSE IF Million * (RiskOf(report, HeldAt(report, i)) + report.decisions[i].trade.risk)
                          > UtilizationLimit(policy) THEN "MAX_CAPITAL_UTILIZATION_EXCEEDED"
               ELSE "ALLOCATED"
<1>1. PICK trade : trade = pool[i].trade
  OBVIOUS
<1>2. report.decisions[i].trade = trade
  BY <1>1 DEF Lists
<1>3. /\ s.held = H /\ s.occupied = RiskOf(report, H) /\ s.realized = GainOf(report, G)
      /\ s.available = policy.capital - Million * s.occupied + s.realized
  BY ReportSums DEF Accounts, Sums
<1>4. CashAt(report, i) = s.available
  BY <1>3 DEF CashAt
<1>5. s.occupied \in Int /\ s.realized \in Int /\ Cardinality(H) \in Nat /\ trade.risk \in Nat
  BY <1>1, SumsAreNumbers DEF Accounts, Sums
<1>6. PICK av, x, k, c : /\ av = s.available /\ x = Million * trade.risk /\ k = Cardinality(H) /\ c = policy.concurrent
  OBVIOUS
<1>7. av \in Int /\ x \in Int /\ k \in Int /\ c \in Int
  BY <1>3, <1>5, <1>6 DEF Million
<1>8. (av < x <=> ~(av >= x)) /\ (k >= c <=> ~(k < c))
  BY <1>7
<1>9. PICK u, v : u = Million * (s.occupied + trade.risk) /\ v = UtilizationLimit(policy)
  OBVIOUS
<1>10. report.decisions[i].decision
         = IF ~(av >= x) THEN "INSUFFICIENT_AVAILABLE_CAPITAL"
           ELSE IF ~(k < c) THEN "MAX_CONCURRENT_POSITIONS"
           ELSE IF u > v THEN "MAX_CAPITAL_UTILIZATION_EXCEEDED"
           ELSE "ALLOCATED"
  <2>1. report.decisions[i].decision
          = IF av < x THEN "INSUFFICIENT_AVAILABLE_CAPITAL"
            ELSE IF k >= c THEN "MAX_CONCURRENT_POSITIONS"
            ELSE IF u > v THEN "MAX_CAPITAL_UTILIZATION_EXCEEDED"
            ELSE "ALLOCATED"
    BY <1>1, <1>3, <1>6, <1>9, Zenon DEF DecisionOn
  <2>. QED  BY <1>8, <2>1, Zenon
<1>11. /\ av = CashAt(report, i) /\ x = Million * report.decisions[i].trade.risk /\ k = Cardinality(HeldAt(report, i))
       /\ u = Million * (RiskOf(report, HeldAt(report, i)) + report.decisions[i].trade.risk)
  BY <1>2, <1>3, <1>4, <1>6, <1>9
<1>. QED  BY <1>6, <1>9, <1>10, <1>11, Zenon

\* A report built from a pool that fits is within its policy.
LEMMA ReportWithin ==
    ASSUME NEW s, NEW runs, NEW identity, NEW policy, policy.capital \in Nat, policy.concurrent \in Nat,
           NEW pool, pool = _pool_opportunities(s, runs), NEW m \in Nat, PoolFits(pool, m),
           NEW report, report = build_portfolio_evidence_report(identity, s, runs, policy)
    PROVE  Within(report)
<1>1. PICK end : end = _simulate_capital_allocation(pool, policy)
  OBVIOUS
<1>2. DOMAIN pool = 1..m
  BY DEF PoolFits
<1>3. /\ report.policy = policy /\ report.ending = EndingCapital(end, policy) /\ report.peak = end.peak
      /\ report.decisions = [i \in 1..m |-> Decided(pool[i], end.outcomes[i])]
  BY <1>1, <1>2 DEF build_portfolio_evidence_report
<1>4. PICK events : events = _build_event_timeline(pool)
  OBVIOUS
<1>5. \E N, op, cl : Timeline(events, pool, m, N, op, cl)
  BY <1>4, TimelineSays
<1>6. PICK N, op, cl : Timeline(events, pool, m, N, op, cl)
  BY <1>5
<1>7. N \in Nat /\ DOMAIN events = 1..N
  BY <1>6 DEF Timeline
<1>8. PICK g : Simulates(g, pool, policy, events, N) /\ end = g[N]
  BY <1>1, <1>4, <1>7, SimulationSays
<1>9. DecidedWell(g, pool, policy, op, m) /\ DecidedOnce(g, op, N, m)
  BY <1>2, <1>6, <1>8, DecisionsStay
<1>10. PICK A : A = Taken(g, op, m)
  OBVIOUS
<1>11. A \in SUBSET (1..m) /\ \A i \in 1..m : i \in A <=> g[op[i]].outcomes[i] = "ALLOCATED"
  BY <1>10 DEF Taken
<1>12. \A n \in 0..N : Accounts(g[n], pool, policy, HeldBy(A, op, cl, n), GoneBy(A, cl, n))
  BY <1>6, <1>8, <1>10, BooksStayRight
<1>13. \A i \in 1..m : op[i] \in 1..N /\ cl[i] \in 1..N /\ op[i] < cl[i]
  BY <1>6 DEF Timeline
<1>14. \A i \in 1..m : report.decisions[i].decision = g[op[i]].outcomes[i]
  BY <1>3, <1>8, <1>9 DEF Decided, DecidedOnce
<1>15. Lists(report, pool, m, A)
  BY <1>3, <1>11, <1>14 DEF Lists, Decided
<1>16. ASSUME NEW i \in 1..m
       PROVE  report.decisions[i].decision
                = IF ~(CashAt(report, i) >= Million * report.decisions[i].trade.risk) THEN "INSUFFICIENT_AVAILABLE_CAPITAL"
                  ELSE IF ~(Cardinality(HeldAt(report, i)) < policy.concurrent) THEN "MAX_CONCURRENT_POSITIONS"
                  ELSE IF Million * (RiskOf(report, HeldAt(report, i)) + report.decisions[i].trade.risk)
                             > UtilizationLimit(policy) THEN "MAX_CAPITAL_UTILIZATION_EXCEEDED"
                  ELSE "ALLOCATED"
  <2>1. PICK n : n = op[i] - 1
    OBVIOUS
  <2>2. n \in 0..N
    BY <1>7, <1>13, <2>1
  <2>3. PICK t, H, G : t = g[n] /\ H = HeldBy(A, op, cl, n) /\ G = GoneBy(A, cl, n)
    OBVIOUS
  <2>4. Accounts(t, pool, policy, H, G)
    BY <1>12, <2>2, <2>3
  <2>5. H \in SUBSET (1..m) /\ G \in SUBSET (1..m)
    BY <1>11, <2>3 DEF HeldBy, GoneBy
  <2>6. HeldAt(report, i) = H /\ Earlier(report, i) \ HeldAt(report, i) = G
    BY <1>6, <1>11, <1>15, <2>1, <2>3, HeldIsHeld
  <2>7. report.decisions[i].decision = DecisionOn(t, pool[i].trade, policy)
    BY <1>9, <1>14, <2>1, <2>3 DEF DecidedWell
  <2>. QED  BY <1>3, <1>11, <1>15, <2>4, <2>5, <2>6, <2>7, DecisionIsRight
<1>17. Accounts(end, pool, policy, {}, A)
  <2>1. HeldBy(A, op, cl, N) = {} /\ GoneBy(A, cl, N) = A
    <3>1. \A j \in A : cl[j] <= N /\ ~(N < cl[j])
      BY <1>7, <1>11, <1>13
    <3>. QED  BY <3>1 DEF HeldBy, GoneBy
  <2>2. N \in 0..N
    BY <1>7
  <2>. QED  BY <1>8, <1>12, <2>1, <2>2
<1>18. report.peak <= policy.concurrent
  BY <1>3, <1>17 DEF Accounts, Room
<1>19. {i \in DOMAIN report.decisions : report.decisions[i].decision = "ALLOCATED"} = A
  BY <1>11, <1>15 DEF Lists
<1>20. report.ending = policy.capital + GainOf(report, A)
  BY <1>3, <1>11, <1>15, <1>17, ReportSums, EndingIsRight
<1>21. DOMAIN report.decisions = 1..m
  BY <1>15 DEF Lists
<1>. QED  BY <1>3, <1>16, <1>18, <1>19, <1>20, <1>21, Zenon DEF Within

\* The pool of a study's own runs fits.
LEMMA PoolIsFit ==
    ASSUME NEW s, NEW runs, NEW cited, NEW R, Reads(s, runs, cited, R),
           NEW pool, pool = _pool_opportunities(s, runs)
    PROVE  \E m \in Nat : PoolFits(pool, m)
<1>1. PICK w, P : w = s.windows /\ P = Pooled(s, runs)
  OBVIOUS
<1>2. PICK n \in Nat : DOMAIN cited = 1..n /\ Trading(runs, n)
  BY StudyAddsUp
<1>3. \A x : x \in P <=> \E j \in 1..n : \E i \in Executed(runs[j].trades) : x = Opportunity(w, runs, cited, j, i)
  <2>1. IsPool(P, w, runs, cited, n)
    BY <1>1, <1>2, PoolSays
  <2>. QED  BY <2>1 DEF IsPool
<1>4. \A j \in 1..n : SurvivorRun(s, w[cited[j]], runs[j])
  <2>1. ReadsOf(s, w, runs, cited, R)
    BY <1>1 DEF Reads
  <2>. QED  BY <1>2, <2>1 DEF ReadsOf
<1>5. PICK m : m = Cardinality(P)
  OBVIOUS
<1>6. m \in Nat /\ DOMAIN pool = 1..m /\ \A k \in 1..m : pool[k] \in P
  <2>1. PICK key : key = [o \in P |-> <<o.trade.entry, o.window, o.sequence>>]
    OBVIOUS
  <2>2. DOMAIN key = P
    BY <2>1
  <2>3. Sorts(pool, key)
    BY <1>1, <2>1, PoolIsSorted
  <2>. QED  BY <1>5, <2>2, <2>3 DEF Sorts
<1>7. ASSUME NEW k \in 1..m, NEW o, o = pool[k], NEW t, t = o.trade
      PROVE  /\ o.sequence \in Nat /\ t.symbol \in Nat /\ t.rank \in Nat
             /\ t.risk \in Nat /\ t.net \in Int
             /\ t.entry \in Nat /\ t.exit \in Nat /\ t.entry <= t.exit
  <2>1. o \in P
    BY <1>6, <1>7
  <2>2. PICK j \in 1..n : \E i \in Executed(runs[j].trades) : o = Opportunity(w, runs, cited, j, i)
    BY <1>3, <2>1
  <2>3. PICK i \in Executed(runs[j].trades) : o = Opportunity(w, runs, cited, j, i)
    BY <2>2
  <2>4. o.sequence = i /\ o.trade = runs[j].trades[i]
    BY <2>3, OpportunitySays
  <2>5. i \in DOMAIN runs[j].trades
    BY DEF Executed
  <2>6. SurvivorRun(s, w[cited[j]], runs[j])
    BY <1>4
  <2>7. i \in Nat /\ TradeOk(s, w[cited[j]], runs[j].trades[i])
    BY <2>5, <2>6 DEF SurvivorRun
  <2>. QED  BY <1>7, <2>4, <2>7 DEF TradeOk, TradeCounts
<1>8. PoolFits(pool, m)
  BY <1>6, <1>7 DEF PoolFits
<1>. QED  BY <1>6, <1>8

\* Starting a portfolio report keeps the invariant.
LEMMA PortfolioBegins ==
    ASSUME EvidenceInv, NEW p \in Procs, NEW c, CommandType(c), RunPortfolioHistoricalEvidence(p, c)
    PROVE  EvidenceInv'
<1>1. PICK s \in db.survivorship :
         Begin(p, <<Call("portfolios", build_portfolio_evidence_report(Identity(c.gov, 0), s, WindowRuns(s), c.policy))>>)
  BY DEF RunPortfolioHistoricalEvidence, NamedStudies
<1>2. PICK runs, cited, identity, policy : /\ runs = WindowRuns(s) /\ cited = Cited(s.windows)
                                           /\ identity = Identity(c.gov, 0) /\ policy = c.policy
  OBVIOUS
<1>3. PICK row : row = build_portfolio_evidence_report(identity, s, runs, policy)
  OBVIOUS
<1>4. PICK calls : calls = <<Call("portfolios", row)>>
  OBVIOUS
<1>5. IsSeq(calls) /\ \A into : RowsIn(calls, into) = IF "portfolios" = into THEN {row} ELSE {}
  <2>1. PICK a : a = Call("portfolios", row)
    OBVIOUS
  <2>2. a.into = "portfolios" /\ a.row = row /\ calls = <<a>>
    BY <1>4, <2>1 DEF Call
  <2>. QED  BY <2>2, OneCall
<1>6. Reads(s, runs, cited, db.runs)
  BY <1>2, StudyReads
<1>7. s.executed = ExecutedIn(s.windows)
  <2>1. s \in Rows(db, todo, "survivorship")
    BY DEF Rows
  <2>. QED  BY <2>1 DEF EvidenceInv, InvOf, SurvivorshipsOk, SurvivorshipOk
<1>8. Decides(row, s, db.runs)
  BY <1>3, <1>6, <1>7, ReportDecides
<1>9. row.study = s.runtime
  BY <1>3 DEF build_portfolio_evidence_report
<1>10. PortfolioOk(row, db)
  <2>1. policy.capital \in Nat /\ policy.concurrent \in Nat
    <3>1. policy.capital \in Int /\ policy.concurrent \in Int
      BY <1>2 DEF RunPortfolioHistoricalEvidence, CommandType
    <3>2. policy.capital > 0 /\ policy.concurrent >= 1
      BY <1>2 DEF RunPortfolioHistoricalEvidence, PortfolioCapitalPolicy
    <3>. QED  BY <3>1, <3>2
  <2>2. PICK pool : pool = _pool_opportunities(s, runs)
    OBVIOUS
  <2>3. PICK m \in Nat : PoolFits(pool, m)
    BY <1>6, <2>2, PoolIsFit
  <2>4. Within(row)
    BY <1>3, <2>1, <2>2, <2>3, ReportWithin
  <2>. QED  BY <1>8, <1>9, <2>4 DEF PortfolioOk
<1>11. New(calls, db, started + 1)
  <2>1. /\ RowsIn(calls, "runs") = {} /\ RowsIn(calls, "survivorship") = {} /\ RowsIn(calls, "statistics") = {}
        /\ \A into \in StudyTables : RowsIn(calls, into) = {}
    BY <1>5 DEF StudyTables
  <2>2. RowsIn(calls, "portfolios") = {row}
    BY <1>5
  <2>. QED  BY <1>5, <1>10, <2>1, <2>2 DEF New, NewRuns
<1>12. Begin(p, calls)
  BY <1>1, <1>2, <1>3, <1>4
<1>. QED  BY <1>11, <1>12, Begins

------------------------------------------------------------------------------
(* The invariant holds, and says what the properties say *)

\* The invariant holds at the start.
LEMMA EvidenceInitially ==
    ASSUME EvidenceInit
    PROVE  EvidenceInv
<1>1. PICK d, t, n : d = db /\ t = todo /\ n = started
  OBVIOUS
<1>2. Tables \subseteq DOMAIN d /\ \A into \in Tables : d[into] = {}
  BY <1>1 DEF EvidenceInit, Tables, StudyTables
<1>3. n = 0 /\ t = [p \in Procs |-> <<>>]
  BY <1>1 DEF EvidenceInit
<1>4. DOMAIN t = Procs /\ \A p \in Procs : t[p] = <<>>
  BY <1>3
<1>5. \A into : IsSeq(<<>>) /\ RowsIn(<<>>, into) = {}
  BY NoCalls
<1>6. QueuesFit(d, t)
  BY <1>2, <1>4, <1>5 DEF QueuesFit
<1>7. \A into \in Tables : Rows(d, t, into) = {}
  BY <1>2, <1>4, <1>5 DEF Rows
<1>8. /\ Rows(d, t, "runs") = {} /\ Rows(d, t, "portfolios") = {} /\ Rows(d, t, "statistics") = {}
      /\ Rows(d, t, "survivorship") = {} /\ d["survivorship"] = {}
      /\ \A into \in StudyTables : Rows(d, t, into) = {} /\ d[into] = {}
  BY <1>2, <1>7 DEF Tables, StudyTables
<1>9. InvOf(d, t, n)
  BY <1>3, <1>6, <1>8 DEF InvOf, RunsOk, StudiesOk, SurvivorshipsOk, StudiesCite, OneStudyEach, PortfoliosOk, AllStatisticsOk
<1>. QED  BY <1>1, <1>9 DEF EvidenceInv

\* The invariant goes on holding.
LEMMA EvidenceGoesOn ==
    ASSUME EvidenceInv, [EvidenceNext]_evidencevars
    PROVE  EvidenceInv'
<1>1. CASE UNCHANGED evidencevars
  BY <1>1 DEF evidencevars, EvidenceInv
<1>2. ASSUME NEW p \in Procs,
             \/ AddBacktestRun(p) \/ AddValidationStudy(p) \/ AddRobustnessStudy(p)
             \/ AddSurvivorshipStudy(p) \/ AddPortfolioReport(p) \/ AddStatistics(p)
      PROVE  EvidenceInv'
  BY <1>2, StudyCalls
<1>3. ASSUME NEW p \in Procs,
             \/ AddDependenceReport(p) \/ AddSnapshot(p) \/ AddStress(p) \/ AddCorporateActions(p)
             \/ AddInstruments(p) \/ AddUniverse(p) \/ AddMembership(p) \/ WriteArtifact(p)
             \/ Raise(p) \/ Crash(p)
      PROVE  EvidenceInv'
  BY <1>3, OtherCalls
<1>4. ASSUME NEW p \in Procs, NEW c \in Commands[p], RunHistoricalBacktest(p, c)
      PROVE  EvidenceInv'
  BY <1>4, BacktestBegins
<1>5. ASSUME NEW p \in Procs, NEW c \in Commands[p], RunHistoricalValidationStudy(p, c)
      PROVE  EvidenceInv'
  BY <1>5, EvidenceAssumption, ValidationBegins
<1>6. ASSUME NEW p \in Procs, NEW c \in Commands[p], RunHistoricalRobustnessStudy(p, c)
      PROVE  EvidenceInv'
  BY <1>6, EvidenceAssumption, RobustnessBegins
<1>7. ASSUME NEW p \in Procs, NEW c \in Commands[p], RunSurvivorshipAwareRobustnessStudy(p, c)
      PROVE  EvidenceInv'
  BY <1>7, EvidenceAssumption, SurvivorshipBegins
<1>8. ASSUME NEW p \in Procs, NEW c \in Commands[p], RunPortfolioHistoricalEvidence(p, c)
      PROVE  EvidenceInv'
  BY <1>8, EvidenceAssumption, PortfolioBegins
<1>9. ASSUME NEW p \in Procs, NEW c \in Commands[p], RunStatisticalEvidenceAnalysis(p, c)
      PROVE  EvidenceInv'
  BY <1>9, StatisticsBegins
<1>10. ASSUME NEW p \in Procs, NEW c \in Commands[p], RunCorporateActionSemanticsStress(p, c)
       PROVE  EvidenceInv'
  BY <1>10, StressBegins
<1>11. ASSUME NEW p \in Procs, NEW c \in Commands[p],
              \/ RunPortfolioDependenceEvidence(p, c) \/ ImportHistoricalDatasetSnapshot(p, c)
              \/ AcquireMarketDataSnapshot(p, c)
       PROVE  EvidenceInv'
  BY <1>11, QuietBegins
<1>. QED  BY <1>1, <1>2, <1>3, <1>4, <1>5, <1>6, <1>7, <1>8, <1>9, <1>10, <1>11 DEF EvidenceNext

\* Whatever commands several processes run, in whatever order their transactions
\* commit, raise or are cut off by a crash: what is stored is sound, and so is
\* what is yet to be stored, next to what will then be there.
THEOREM EvidenceInvariant == EvidenceSpec => []EvidenceInv
<1>1. EvidenceInit => EvidenceInv
  BY EvidenceInitially
<1>2. EvidenceInv /\ [EvidenceNext]_evidencevars => EvidenceInv'
  BY EvidenceGoesOn
<1>. QED  BY <1>1, <1>2, PTL DEF EvidenceSpec

\* What the invariant says of a stored study.
LEMMA StoredStudies ==
    ASSUME EvidenceInv, NEW s \in db.survivorship
    PROVE  /\ SurvivorshipOk(s, db.runs) /\ StudyOk(s, db.runs, started) /\ Cites(s, db.runs)
<1>1. PICK A : A = Rows(db, todo, "runs")
  OBVIOUS
<1>2. db.runs \subseteq A
  BY <1>1 DEF Rows
<1>3. SurvivorshipOk(s, A) /\ StudyOk(s, A, started) /\ Cites(s, db.runs)
  <2>1. s \in Rows(db, todo, "survivorship") /\ "survivorship" \in StudyTables
    BY DEF Rows, StudyTables
  <2>. QED  BY <1>1, <2>1 DEF EvidenceInv, InvOf, StudiesOk, SurvivorshipsOk, StudiesCite
<1>4. \A k \in DOMAIN s.windows : SurvivorWindow(s, s.windows[k], db.runs)
  BY <1>2, <1>3 DEF SurvivorshipOk, SurvivorWindow
<1>5. SurvivorshipOk(s, db.runs)
  BY <1>3, <1>4 DEF SurvivorshipOk
<1>6. StudyOk(s, db.runs, started)
  BY <1>2, <1>3 DEF StudyOk, WindowOk, Copies
<1>. QED  BY <1>3, <1>5, <1>6

\* The invariant gives the membership as of a window's start.
LEMMA MembershipFollows ==
    ASSUME EvidenceInv
    PROVE  MembershipAsOf
<1>1. SUFFICES ASSUME NEW s \in db.survivorship, NEW k \in DOMAIN s.windows, NEW run \in WindowRunOf(s, k),
                      NEW i \in DOMAIN run.trades
               PROVE  \E r \in Manifests[s.manifest].records :
                        /\ r.status = "ACTIVE"
                        /\ Masters[s.master][r.instrument] = run.trades[i].symbol
                        /\ r.from <= run.trades[i].cutoff
                        /\ s.windows[k].start < r.to
  BY Zenon DEF MembershipAsOf
<1>2. PICK w : w = s.windows[k]
  OBVIOUS
<1>3. SurvivorWindow(s, w, db.runs) /\ run \in db.runs /\ run.runtime = w.runtime
  BY <1>2, StoredStudies DEF SurvivorshipOk, WindowRunOf
<1>4. TradeOk(s, w, run.trades[i])
  BY <1>3 DEF SurvivorWindow, SurvivorRun
<1>. QED  BY <1>2, <1>4 DEF TradeOk

\* The last day a study covers is that of one of its windows.
LEMMA CoverageSays ==
    ASSUME EvidenceInv, NEW s \in db.survivorship
    PROVE  /\ coverage_end(s) \in Nat
           /\ \E k \in DOMAIN s.windows : s.windows[k].end = coverage_end(s)
           /\ \A k \in DOMAIN s.windows : s.windows[k].end \in Nat /\ s.windows[k].end <= coverage_end(s)
<1>1. SurvivorshipOk(s, db.runs)
  BY StoredStudies
<1>2. PICK m \in Nat \ {0} : DOMAIN s.windows = 1..m
  BY <1>1 DEF SurvivorshipOk
<1>3. \A k \in 1..m : s.windows[k].end \in Nat
  BY <1>1, <1>2 DEF SurvivorshipOk, SurvivorWindow
<1>4. PICK f : f = [k \in 1..m |-> s.windows[k].end]
  OBVIOUS
<1>. DEFINE E == {f[k] : k \in DOMAIN f}
<1>5. DOMAIN f = 1..m /\ \A k \in 1..m : f[k] = s.windows[k].end
  BY <1>4
<1>6. coverage_end(s) = Max(E)
  BY <1>2, <1>5 DEF coverage_end
<1>7. IsFiniteSet(1..m)
  <2>1. 1 \in Int /\ m \in Int
    OBVIOUS
  <2>. QED  BY <2>1, FS_Interval
<1>8. IsFiniteSet(E)
  BY <1>5, <1>7, FiniteImage
<1>9. E \in SUBSET Nat /\ E # {}
  BY <1>3, <1>5
<1>10. \A x : x \in E <=> \E k \in 1..m : x = s.windows[k].end
  BY <1>5
<1>. HIDE DEF E
<1>11. Max(E) \in E /\ \A y \in E : Max(E) >= y
  BY <1>8, <1>9, Greatest
<1>12. PICK b : b = Max(E)
  OBVIOUS
<1>13. b \in E /\ b \in Nat /\ \A y \in E : b >= y
  BY <1>9, <1>11, <1>12
<1>14. \A k \in 1..m : s.windows[k].end <= b
  BY <1>3, <1>10, <1>13
<1>. QED  BY <1>2, <1>3, <1>6, <1>10, <1>12, <1>13, <1>14

\* The invariant gives the soundness of what is found.
LEMMA SoundFollows ==
    ASSUME EvidenceInv
    PROVE  EvidenceIsSound
<1>1. SUFFICES ASSUME NEW query \in Queries, NEW e \in find_compatible_historical_evidence(query)
      PROVE  /\ \A k \in DOMAIN e.study.windows : \A run \in WindowRunOf(e.study, k) :
                   \A i \in DOMAIN run.trades : run.trades[i].exit <= query.as_of
             /\ \E k \in DOMAIN e.study.windows : query.as_of - e.study.windows[k].end \in 0..StalenessDays
             /\ \A report \in e.report : \A d \in Range(report.decisions) :
                      \E k \in DOMAIN e.study.windows : \E run \in WindowRunOf(e.study, k) :
                         \E i \in DOMAIN run.trades : run.trades[i] = d.trade
             /\ (\A i \in DOMAIN Masters[e.study.master] : db.instruments[i] = Masters[e.study.master][i])
                   => query.requested \subseteq EvaluatedSymbols(e.study)
  BY Zenon DEF EvidenceIsSound
<1>2. PICK s \in db.survivorship : e = _build_summary(s, query)
  BY DEF find_compatible_historical_evidence, list_survivorship_candidates
<1>3. e.status = "COMPATIBLE"
  BY DEF find_compatible_historical_evidence
<1>4. e.study = s /\ e.status = _evaluate_compatibility(s, query) /\ e.report = find_portfolio_report_for(s)
  BY <1>2 DEF _build_summary
<1>5. StatusAt(s, query) = "COMPATIBLE" /\ UniverseFits(s, query.requested)
  <2>1. \A x, y, z : (IF x THEN "INCOMPATIBLE" ELSE IF StatusAt(s, query) = "COMPATIBLE" /\ ~y THEN "INCOMPATIBLE"
                      ELSE StatusAt(s, query)) = "COMPATIBLE" => StatusAt(s, query) = "COMPATIBLE" /\ y
    OBVIOUS
  <2>. QED  BY <1>3, <1>4 DEF _evaluate_compatibility
<1>6. PICK b, a : b = coverage_end(s) /\ a = query.as_of
  OBVIOUS
<1>7. /\ b \in Nat /\ (\E k \in DOMAIN s.windows : s.windows[k].end = b)
      /\ \A k \in DOMAIN s.windows : s.windows[k].end \in Nat /\ s.windows[k].end <= b
  BY <1>6, CoverageSays
<1>8. a \in Nat /\ StalenessDays \in Nat
  BY <1>6, EvidenceAssumption
<1>9. b <= a /\ a - b \in 0..StalenessDays
  <2>1. ~(b > a) /\ ~(a - b > StalenessDays)
    BY <1>5, <1>6 DEF StatusAt
  <2>. QED  BY <1>7, <1>8, <2>1
<1>10. SurvivorshipOk(s, db.runs) /\ Cites(s, db.runs)
  BY StoredStudies
<1>11. ASSUME NEW k \in DOMAIN s.windows, NEW run \in WindowRunOf(s, k), NEW i \in DOMAIN run.trades
       PROVE  run.trades[i].exit <= query.as_of
  <2>1. PICK w, t : w = s.windows[k] /\ t = run.trades[i]
    OBVIOUS
  <2>2. SurvivorWindow(s, w, db.runs) /\ run \in db.runs /\ run.runtime = w.runtime
    BY <1>10, <2>1 DEF SurvivorshipOk, WindowRunOf
  <2>3. TradeOk(s, w, t)
    BY <2>1, <2>2 DEF SurvivorWindow, SurvivorRun
  <2>4. t.exit \in Nat /\ t.exit <= w.end /\ w.end \in Nat /\ w.end <= b
    BY <1>7, <2>1, <2>3 DEF TradeOk
  <2>5. t.exit <= a
    BY <1>7, <1>8, <1>9, <2>4
  <2>. QED  BY <1>6, <2>1, <2>5
<1>12. \E k \in DOMAIN s.windows : query.as_of - s.windows[k].end \in 0..StalenessDays
  BY <1>6, <1>7, <1>9
<1>13. ASSUME NEW report \in e.report, NEW d \in Range(report.decisions)
       PROVE  \E k \in DOMAIN s.windows : \E run \in WindowRunOf(s, k) :
                 \E i \in DOMAIN run.trades : run.trades[i] = d.trade
  <2>1. report \in db.portfolios /\ report.study = s.runtime
    BY <1>4 DEF find_portfolio_report_for
  <2>2. PortfolioOk(report, db) /\ OneStudyEach(db)
    BY <2>1 DEF EvidenceInv, InvOf, PortfoliosOk, Rows
  <2>3. PICK q \in db.survivorship : report.study = q.runtime /\ Decides(report, q, db.runs)
    BY <2>2 DEF PortfolioOk
  <2>4. q = s
    BY <2>1, <2>2, <2>3 DEF OneStudyEach
  <2>5. PICK k \in DOMAIN s.windows : \E r \in db.runs :
             r.runtime = s.windows[k].runtime /\ \E i \in DOMAIN r.trades : r.trades[i] = d.trade
    BY <2>3, <2>4 DEF Decides
  <2>. QED  BY <2>5 DEF WindowRunOf
<1>14. ASSUME \A i \in DOMAIN Masters[s.master] : db.instruments[i] = Masters[s.master][i],
              NEW x \in query.requested
       PROVE  x \in EvaluatedSymbols(s)
  <2>1. PICK k \in DOMAIN s.windows : x \in _resolve_symbols(s.windows[k].evaluated)
    BY <1>5 DEF UniverseFits
  <2>2. PICK w : w = s.windows[k]
    OBVIOUS
  <2>3. PICK i \in w.evaluated : x = db.instruments[i]
    BY <2>1, <2>2 DEF _resolve_symbols
  <2>4. SurvivorWindow(s, w, db.runs)
    BY <1>10, <2>2 DEF SurvivorshipOk
  <2>5. i \in DOMAIN Masters[s.master] /\ w.gov # 0
    BY <2>3, <2>4 DEF SurvivorWindow
  <2>6. x = Masters[s.master][i]
    BY <1>14, <2>3, <2>5
  <2>7. PICK r \in db.runs : r.runtime = w.runtime
    BY <1>10, <2>2, <2>5 DEF Cites
  <2>8. r.of.symbols = {Masters[s.master][j] : j \in w.evaluated}
    BY <2>4, <2>7 DEF SurvivorWindow, SurvivorRun
  <2>9. x \in r.of.symbols
    BY <2>3, <2>6, <2>8
  <2>10. r \in WindowRunOf(s, k)
    BY <2>2, <2>7 DEF WindowRunOf
  <2>. QED  BY <2>9, <2>10 DEF EvaluatedSymbols
<1>15. (\A i \in DOMAIN Masters[s.master] : db.instruments[i] = Masters[s.master][i])
          => query.requested \subseteq EvaluatedSymbols(s)
  BY <1>14
<1>. QED  BY <1>4, <1>11, <1>12, <1>13, <1>15, Zenon

\* The invariant gives the agreement of reports with the study they read.
LEMMA ReconcilesFollows ==
    ASSUME EvidenceInv
    PROVE  EvidenceReconciles
<1>1. ASSUME NEW s \in Studies, NEW k \in DOMAIN s.windows
      PROVE  IF s.windows[k].gov = 0 THEN s.windows[k].net = 0 /\ s.windows[k].executed = 0
             ELSE \E r \in WindowRunOf(s, k) :
                     /\ r.gov = s.windows[k].gov
                     /\ s.windows[k].net = NetOf(r.trades)
                     /\ s.windows[k].executed = Cardinality(Executed(r.trades))
  <2>1. PICK w, A : w = s.windows[k] /\ A = Rows(db, todo, "runs")
    OBVIOUS
  <2>2. PICK into \in StudyTables : s \in db[into]
    BY DEF Studies, StudyTables
  <2>3. s \in Rows(db, todo, into)
    BY <2>2 DEF Rows
  <2>4. StudyOk(s, A, started) /\ Cites(s, db.runs)
    BY <2>1, <2>2, <2>3 DEF EvidenceInv, InvOf, StudiesOk, StudiesCite
  <2>5. WindowOk(w, A, started)
    BY <2>1, <2>4 DEF StudyOk
  <2>6. CASE w.gov = 0
    BY <2>1, <2>5, <2>6 DEF WindowOk
  <2>7. CASE w.gov # 0
    <3>1. PICK r \in db.runs : r.runtime = w.runtime
      BY <2>1, <2>4, <2>7 DEF Cites
    <3>2. r \in A
      BY <2>1 DEF Rows
    <3>3. r.gov = w.gov /\ w.net = NetOf(r.trades) /\ w.executed = Cardinality(Executed(r.trades))
      BY <2>5, <3>1, <3>2 DEF WindowOk, Copies
    <3>4. r \in WindowRunOf(s, k)
      BY <2>1, <3>1 DEF WindowRunOf
    <3>. QED  BY <2>1, <2>7, <3>3, <3>4
  <2>. QED  BY <2>6, <2>7
<1>2. ASSUME NEW report \in db.portfolios, NEW s \in db.survivorship, report.study = s.runtime
      PROVE  Decides(report, s, db.runs)
  <2>1. PortfolioOk(report, db) /\ OneStudyEach(db)
    BY DEF EvidenceInv, InvOf, PortfoliosOk, Rows
  <2>2. PICK q \in db.survivorship : report.study = q.runtime /\ Decides(report, q, db.runs)
    BY <2>1 DEF PortfolioOk
  <2>3. q = s
    BY <1>2, <2>1, <2>2 DEF OneStudyEach
  <2>. QED  BY <2>2, <2>3
<1>3. ASSUME NEW report \in db.portfolios, NEW s \in db.survivorship, report.study = s.runtime,
             NEW k \in DOMAIN s.windows, NEW r \in WindowRunOf(s, k)
      PROVE  {d.trade : d \in {e \in Range(report.decisions) : e.window = s.windows[k].gov}}
               = {r.trades[i] : i \in Executed(r.trades)}
  <2>1. r \in db.runs /\ r.runtime = s.windows[k].runtime
    BY DEF WindowRunOf
  <2>2. Decides(report, s, db.runs)
    BY <1>2, <1>3
  <2>3. \A kk \in DOMAIN s.windows : \A rr \in db.runs :
           rr.runtime = s.windows[kk].runtime =>
             {d.trade : d \in {e \in Range(report.decisions) : e.window = s.windows[kk].gov}}
               = {rr.trades[i] : i \in Executed(rr.trades)}
    BY <2>2, Zenon DEF Decides
  <2>. QED  BY <2>1, <2>3, Zenon
<1>4. ASSUME NEW report \in db.portfolios, NEW s \in db.survivorship, report.study = s.runtime
      PROVE  Len(report.decisions) = s.executed
  BY <1>2, <1>4 DEF Decides
<1>5. ASSUME NEW report \in db.statistics, NEW s \in db.survivorship, report.study = s.runtime
      PROVE  report.net = _quantize(s.net) /\ report.trades = s.executed
  <2>1. StatisticsOk(report, db) /\ OneStudyEach(db)
    BY DEF EvidenceInv, InvOf, AllStatisticsOk, Rows
  <2>2. PICK q \in db.survivorship : /\ report.study = q.runtime
                                     /\ report.net = _quantize(q.net) /\ report.trades = q.executed
    BY <2>1 DEF StatisticsOk
  <2>3. q = s
    BY <1>5, <2>1, <2>2 DEF OneStudyEach
  <2>. QED  BY <2>2, <2>3
<1>. QED  BY <1>1, <1>3, <1>4, <1>5, Zenon DEF EvidenceReconciles

\* A survivorship-aware study trades only instruments that had joined the
\* universe by the trade's cutoff and had not left it when the window's scoring
\* began, whatever the number of windows, of instruments and of days.
THEOREM MembershipIsAsOf == EvidenceSpec => []MembershipAsOf
<1>1. EvidenceInv => MembershipAsOf
  BY MembershipFollows
<1>. QED  BY <1>1, EvidenceInvariant, PTL

\* The evidence a session is shown ended before the session and not too long
\* before, none of its trades was still open then, the portfolio report beside
\* it was computed from it, and its runs did trade on the bars of every symbol
\* asked for.
THEOREM FoundEvidenceIsSound == EvidenceSpec => []EvidenceIsSound
<1>1. EvidenceInv => EvidenceIsSound
  BY SoundFollows
<1>. QED  BY <1>1, EvidenceInvariant, PTL

\* The results a study and its reports show are those of the trades stored for
\* them, though runs, study and reports are stored by transactions and commands
\* of their own, between which a process may raise or crash.
THEOREM StoredEvidenceReconciles == EvidenceSpec => []EvidenceReconciles
<1>1. EvidenceInv => EvidenceReconciles
  BY ReconcilesFollows
<1>. QED  BY <1>1, EvidenceInvariant, PTL

\* A stored portfolio report obeys its capital policy at every instant, refuses
\* a trade only for a limit it would have passed, and ends with what it started
\* with and made: for any number of trades, of windows and of instants, and
\* whatever policy was asked for.
THEOREM PortfoliosObeyTheirPolicy == EvidenceSpec => []PortfolioWithinPolicy
<1>1. EvidenceInv => PortfolioWithinPolicy
  <2>. SUFFICES ASSUME EvidenceInv PROVE PortfolioWithinPolicy
    OBVIOUS
  <2>1. ASSUME NEW report \in db.portfolios  PROVE Within(report)
    <3>1. PortfolioOk(report, db)
      BY DEF EvidenceInv, InvOf, PortfoliosOk, Rows
    <3>. QED  BY <3>1 DEF PortfolioOk
  <2>. QED  BY <2>1, Zenon DEF PortfolioWithinPolicy, Within
<1>. QED  BY <1>1, EvidenceInvariant, PTL

------------------------------------------------------------------------------
(* Hindsight *)

\* The bar of a day is found in every symbol's bars.
LEMMA BarOnSays ==
    ASSUME NEW ds, Grid(ds), NEW u \in DOMAIN ds, NEW c \in DOMAIN ds[u]
    PROVE  BarOn(ds, ds[u][c].day) = c
<1>1. PICK v : v = CHOOSE w \in DOMAIN ds : TRUE
  OBVIOUS
<1>2. v \in DOMAIN ds
  BY <1>1
<1>3. PICK bars, day : bars = ds[v] /\ day = ds[u][c].day
  OBVIOUS
<1>4. DOMAIN ds[u] = DOMAIN bars /\ bars[c].day = day /\ c \in DOMAIN bars /\ DOMAIN bars \subseteq Nat
  <2>1. /\ DOMAIN ds[v] = 1..bars_per_instrument(ds) /\ bars_per_instrument(ds) \in Nat
        /\ DOMAIN ds[u] = 1..bars_per_instrument(ds)
        /\ \A i \in DOMAIN ds[v] : ds[u][i].day = ds[v][i].day
    BY <1>2, GridSays
  <2>. QED  BY <1>3, <2>1
<1>5. \A i, j \in DOMAIN bars : i < j => bars[i].day < bars[j].day
  BY <1>2, <1>3, DaysIncrease
<1>6. \A i \in DOMAIN bars : bars[i].day \in Nat
  BY <1>2, <1>3, GridSays
<1>7. \A i \in DOMAIN bars : bars[i].day = day => i = c
  <2>1. SUFFICES ASSUME NEW i \in DOMAIN bars, bars[i].day = day, i # c  PROVE FALSE
    OBVIOUS
  <2>2. i < c \/ c < i
    BY <1>4, <2>1
  <2>3. bars[i].day < bars[c].day \/ bars[c].day < bars[i].day
    BY <1>4, <1>5, <2>2
  <2>. QED  BY <1>4, <1>6, <2>1, <2>3
<1>8. BarOn(ds, day) = CHOOSE i \in DOMAIN bars : bars[i].day = day
  BY <1>1, <1>3 DEF BarOn
<1>. QED  BY <1>3, <1>4, <1>7, <1>8

\* Forgetting keeps the bars up to a position, and the days of the others.
LEMMA ForgettingSays ==
    ASSUME NEW ds, Grid(ds), NEW c, \A u \in DOMAIN ds : c \in DOMAIN ds[u],
           NEW f, f = Forgetting(ds, c)
    PROVE  /\ DOMAIN f = DOMAIN ds
           /\ \A u \in DOMAIN ds : /\ DOMAIN f[u] = DOMAIN ds[u]
                                   /\ \A i \in DOMAIN ds[u] : /\ i <= c => f[u][i] = ds[u][i]
                                                              /\ f[u][i] \in BarType
                                                              /\ f[u][i].day = ds[u][i].day
<1>1. DOMAIN f = DOMAIN ds /\ \A u \in DOMAIN ds :
         f[u] = [i \in DOMAIN ds[u] |-> IF i <= c THEN ds[u][i] ELSE [ds[u][c] EXCEPT !.day = ds[u][i].day]]
  BY DEF Forgetting
<1>2. ASSUME NEW u \in DOMAIN ds
      PROVE  /\ DOMAIN f[u] = DOMAIN ds[u]
             /\ \A i \in DOMAIN ds[u] : /\ i <= c => f[u][i] = ds[u][i]
                                        /\ f[u][i] \in BarType
                                        /\ f[u][i].day = ds[u][i].day
  <2>1. DOMAIN f[u] = DOMAIN ds[u]
    BY <1>1
  <2>2. \A i \in DOMAIN ds[u] : ds[u][i] \in BarType
    BY GridSays
  <2>3. ASSUME NEW i \in DOMAIN ds[u]
        PROVE  /\ i <= c => f[u][i] = ds[u][i]
               /\ f[u][i] \in BarType
               /\ f[u][i].day = ds[u][i].day
    <3>1. f[u][i] = IF i <= c THEN ds[u][i] ELSE [ds[u][c] EXCEPT !.day = ds[u][i].day]
      BY <1>1
    <3>2. PICK a, b : a = ds[u][c] /\ b = ds[u][i]
      OBVIOUS
    <3>3. a \in BarType /\ b \in BarType
      BY <2>2, <3>2
    <3>4. [a EXCEPT !.day = b.day] \in BarType /\ [a EXCEPT !.day = b.day].day = b.day
      BY <3>3 DEF BarType
    <3>. QED  BY <3>1, <3>2, <3>3, <3>4
  <2>. QED  BY <2>1, <2>3
<1>. QED  BY <1>1, <1>2

\* What is forgotten leaves a dataset with the same cutoffs.
LEMMA ForgettingFits ==
    ASSUME NEW ds, Grid(ds), NEW c, \A u \in DOMAIN ds : c \in DOMAIN ds[u],
           NEW f, f = Forgetting(ds, c)
    PROVE  Grid(f) /\ bars_per_instrument(f) = bars_per_instrument(ds) /\ evaluated_cutoffs(f) = evaluated_cutoffs(ds)
<1>1. DOMAIN f = DOMAIN ds
  BY ForgettingSays
<1>2. PICK n : n = bars_per_instrument(ds)
  OBVIOUS
<1>3. ASSUME NEW u \in DOMAIN ds
      PROVE  n \in Nat /\ f[u] \in Seq(BarType) /\ Len(f[u]) = n /\ DOMAIN f[u] = 1..n
  <2>1. n \in Nat /\ DOMAIN ds[u] = 1..n
    BY <1>2, GridSays
  <2>2. DOMAIN f[u] = 1..n /\ \A i \in 1..n : f[u][i] \in BarType
    BY <2>1, ForgettingSays
  <2>3. f[u] = [i \in DOMAIN ds[u] |-> IF i <= c THEN ds[u][i] ELSE [ds[u][c] EXCEPT !.day = ds[u][i].day]]
    BY DEF Forgetting
  <2>4. PICK g : g = f[u]
    OBVIOUS
  <2>5. g = [i \in 1..n |-> g[i]]
    BY <2>1, <2>3, <2>4
  <2>6. g \in [1..n -> BarType]
    BY <2>2, <2>4, <2>5
  <2>7. g \in Seq(BarType) /\ Len(g) = n
    BY <2>1, <2>6
  <2>. QED  BY <2>1, <2>2, <2>4, <2>7
<1>4. DatasetType(f)
  BY <1>1, <1>3 DEF Grid, DatasetType
<1>5. \A u \in DOMAIN ds : DOMAIN ds[u] = DOMAIN f[u] /\ \A i \in DOMAIN ds[u] : f[u][i].day = ds[u][i].day
  BY ForgettingSays
<1>6. HistoricalDataset(f)
  <2>1. DOMAIN f # {}
    BY <1>1 DEF Grid, HistoricalDataset
  <2>2. ASSUME NEW u \in DOMAIN f, NEW v \in DOMAIN f
        PROVE  [i \in DOMAIN f[u] |-> f[u][i].day] = [i \in DOMAIN f[v] |-> f[v][i].day]
    <3>1. DOMAIN f[u] = 1..n /\ DOMAIN f[v] = 1..n
      BY <1>1, <1>3
    <3>2. \A i \in 1..n : f[u][i].day = f[v][i].day
      <4>1. DOMAIN ds[u] = 1..n /\ \A i \in DOMAIN ds[u] : ds[u][i].day = ds[v][i].day
        BY <1>1, <1>2, <2>2, GridSays
      <4>2. DOMAIN ds[v] = 1..n
        BY <1>1, <1>2, <2>2, GridSays
      <4>. QED  BY <1>1, <1>5, <4>1, <4>2
    <3>. QED  BY <3>1, <3>2
  <2>3. ASSUME NEW u \in DOMAIN f
        PROVE  Len(f[u]) >= 2 /\ \A i \in 2..Len(f[u]) : f[u][i - 1].day < f[u][i].day
    <3>1. Len(ds[u]) = n /\ DOMAIN ds[u] = 1..n /\ n \in Nat
      BY <1>1, <1>2, GridSays
    <3>2. Len(ds[u]) >= 2 /\ \A i \in 2..Len(ds[u]) : ds[u][i - 1].day < ds[u][i].day
      BY <1>1 DEF Grid, HistoricalDataset
    <3>3. \A i \in 2..n : i \in 1..n /\ i - 1 \in 1..n
      BY <3>1
    <3>4. ASSUME NEW i \in 2..n  PROVE f[u][i - 1].day < f[u][i].day
      <4>1. f[u][i - 1].day = ds[u][i - 1].day /\ f[u][i].day = ds[u][i].day
        BY <1>1, <1>5, <3>1, <3>3
      <4>. QED  BY <3>1, <3>2, <4>1
    <3>. QED  BY <1>1, <1>3, <3>1, <3>2, <3>4
  <2>. QED  BY <2>1, <2>2, <2>3 DEF HistoricalDataset
<1>7. bars_per_instrument(f) = n
  <2>1. PICK u : u = CHOOSE w \in DOMAIN ds : TRUE
    OBVIOUS
  <2>2. u \in DOMAIN ds
    BY <2>1 DEF Grid, HistoricalDataset
  <2>3. bars_per_instrument(f) = Len(f[u])
    BY <1>1, <2>1 DEF bars_per_instrument
  <2>. QED  BY <1>3, <2>2, <2>3
<1>. QED  BY <1>2, <1>4, <1>6, <1>7 DEF Grid, evaluated_cutoffs

\* Two lists that begin alike have the same beginning.
LEMMA SameBeginning ==
    ASSUME NEW T, NEW s \in Seq(T), NEW t \in Seq(T), NEW c \in Nat, c <= Len(s), c <= Len(t),
           \A i \in 1..c : s[i] = t[i]
    PROVE  SubSeq(s, 1, c) = SubSeq(t, 1, c)
<1>1. PICK x, y : x = SubSeq(s, 1, c) /\ y = SubSeq(t, 1, c)
  OBVIOUS
<1>2. x \in Seq(T) /\ y \in Seq(T) /\ Len(x) = c /\ Len(y) = c
  BY <1>1
<1>3. \A i \in 1..c : x[i] = s[i] /\ y[i] = t[i]
  BY <1>1
<1>4. DOMAIN x = 1..c /\ DOMAIN y = 1..c /\ x = [i \in 1..c |-> x[i]] /\ y = [i \in 1..c |-> y[i]]
  BY <1>2
<1>5. \A i \in 1..c : x[i] = y[i]
  BY <1>3
<1>6. x = y
  BY <1>4, <1>5
<1>. QED  BY <1>1, <1>6

\* Datasets that agree on every bar up to one.
Agree(f, ds, d) ==
    /\ DOMAIN f = DOMAIN ds
    /\ \A u \in DOMAIN ds : \A i \in DOMAIN ds[u] : i <= d => f[u][i] = ds[u][i]
    /\ \A u \in DOMAIN ds : DOMAIN f[u] = DOMAIN ds[u]
    /\ \A u \in DOMAIN ds : \A i \in DOMAIN ds[u] : f[u][i].day = ds[u][i].day

\* They have the same scans at it and before it.
LEMMA SameScan ==
    ASSUME NEW ds, Grid(ds), NEW f, Grid(f), NEW c \in evaluated_cutoffs(ds), c \in evaluated_cutoffs(f),
           NEW d \in Nat, c <= d, Agree(f, ds, d)
    PROVE  ScanAt(f, c) = ScanAt(ds, c)
<1>1. PICK symbols : symbols = Alphabetical(DOMAIN ds)
  OBVIOUS
<1>2. DOMAIN f = DOMAIN ds
  BY DEF Agree
<1>3. \A k \in DOMAIN symbols : symbols[k] \in DOMAIN ds
  BY <1>1, AlphabeticalSays DEF Grid, DatasetType
<1>4. ASSUME NEW u \in DOMAIN ds  PROVE WindowAt(f[u], c) = WindowAt(ds[u], c)
  <2>1. f[u] \in Seq(BarType) /\ ds[u] \in Seq(BarType)
    BY <1>2, GridSays
  <2>2. c \in DOMAIN ds[u] /\ c \in DOMAIN f[u] /\ c \in Nat
    BY <1>2, Cutoffs
  <2>3. c <= Len(ds[u]) /\ c <= Len(f[u]) /\ \A i \in 1..c : i \in DOMAIN ds[u] /\ i <= d
    BY <2>1, <2>2
  <2>4. \A i \in 1..c : f[u][i] = ds[u][i]
    BY <2>3 DEF Agree
  <2>. QED  BY <2>1, <2>2, <2>3, <2>4, SameBeginning DEF WindowAt
<1>5. ASSUME NEW i \in DOMAIN symbols
      PROVE  evaluate(WindowAt(f[symbols[i]], c)) = evaluate(WindowAt(ds[symbols[i]], c))
  <2>1. PICK u : u = symbols[i]
    OBVIOUS
  <2>2. WindowAt(f[u], c) = WindowAt(ds[u], c)
    BY <1>3, <1>4, <2>1
  <2>. QED  BY <2>1, <2>2, Zenon
<1>6. UniverseAt(f, symbols, c) = UniverseAt(ds, symbols, c)
  BY <1>5, Zenon DEF UniverseAt
<1>. QED  BY <1>1, <1>2, <1>6, Zenon DEF ScanAt

\* What is planned depends on the order and its cutoff.
LEMMA PlannedSays ==
    ASSUME NEW order, NEW cutoff, NEW bars
    PROVE  Planned(_simulate_trade(order, cutoff, bars)) =
              [symbol |-> order.symbol, cutoff |-> cutoff, rank |-> order.rank,
               quantity |-> order.position.quantity, risk |-> order.position.at_risk]
<1>1. PICK outcome : _simulate_trade(order, cutoff, bars) = HistoricalBacktestTrade(order, cutoff, outcome)
  BY DEF _simulate_trade
<1>. QED  BY <1>1 DEF HistoricalBacktestTrade, Planned

\* A trade leaves the same on bars that are the same up to its exit.
LEMMA SameExit ==
    ASSUME NEW plan, NEW bars, NEW other, NEW e, e = ExitBar(plan, bars),
           \A j \in 1..e : other[j] = bars[j]
    PROVE  ExitOf(plan, other) = ExitOf(plan, bars)
<1>1. PICK o : o = ExitBar(plan, other)
  OBVIOUS
<1>2. Horizon \in Nat /\ e \in 1..Horizon /\ o \in 1..Horizon
  BY <1>1, ExitBarExists, HorizonAssumption
<1>3. /\ Stopped(plan, bars[e]) \/ Targeted(plan, bars[e]) \/ e = Horizon
      /\ \A j \in 1..(e - 1) : ~Stopped(plan, bars[j]) /\ ~Targeted(plan, bars[j])
  BY ExitBarExists
<1>4. /\ Stopped(plan, other[o]) \/ Targeted(plan, other[o]) \/ o = Horizon
      /\ \A j \in 1..(o - 1) : ~Stopped(plan, other[j]) /\ ~Targeted(plan, other[j])
  BY <1>1, ExitBarExists
<1>5. ~(o < e)
  <2>1. SUFFICES ASSUME o < e  PROVE FALSE
    OBVIOUS
  <2>2. o \in 1..(e - 1) /\ o \in 1..e /\ o # Horizon
    BY <1>2, <2>1
  <2>3. other[o] = bars[o]
    BY <2>2
  <2>4. ~Stopped(plan, other[o]) /\ ~Targeted(plan, other[o])
    BY <1>3, <2>2, <2>3
  <2>. QED  BY <1>4, <2>2, <2>4
<1>6. ~(e < o)
  <2>1. SUFFICES ASSUME e < o  PROVE FALSE
    OBVIOUS
  <2>2. e \in 1..(o - 1) /\ e \in 1..e /\ e # Horizon
    BY <1>2, <2>1
  <2>3. other[e] = bars[e]
    BY <2>2
  <2>4. ~Stopped(plan, bars[e]) /\ ~Targeted(plan, bars[e])
    BY <1>4, <2>2, <2>3
  <2>. QED  BY <1>3, <2>2, <2>4
<1>7. o = e /\ e \in 1..e
  BY <1>2, <1>5, <1>6
<1>8. other[o] = bars[e]
  BY <1>7
<1>. QED  BY <1>1, <1>8 DEF ExitOf

\* A dataset and what is left of it agree.
LEMMA ForgettingAgrees ==
    ASSUME NEW ds, Grid(ds), NEW d, \A u \in DOMAIN ds : d \in DOMAIN ds[u], NEW f, f = Forgetting(ds, d)
    PROVE  Agree(f, ds, d) /\ d \in Nat
<1>1. PICK u \in DOMAIN ds : TRUE
  BY DEF Grid, HistoricalDataset
<1>2. d \in Nat
  <2>1. d \in DOMAIN ds[u] /\ DOMAIN ds[u] = 1..bars_per_instrument(ds) /\ bars_per_instrument(ds) \in Nat
    BY GridSays
  <2>. QED  BY <2>1
<1>3. /\ DOMAIN f = DOMAIN ds
      /\ \A v \in DOMAIN ds : /\ DOMAIN f[v] = DOMAIN ds[v]
                              /\ \A i \in DOMAIN ds[v] : /\ i <= d => f[v][i] = ds[v][i]
                                                         /\ f[v][i] \in BarType
                                                         /\ f[v][i].day = ds[v][i].day
  BY ForgettingSays
<1>. QED  BY <1>2, <1>3 DEF Agree

\* An order is for a symbol of its dataset.
LEMMA OrderSymbol ==
    ASSUME NEW ds, Grid(ds), NEW c, NEW scan, scan = ScanAt(ds, c), NEW i \in Approved(scan)
    PROVE  OrderOf(scan, i).symbol \in DOMAIN ds
<1>1. i \in DOMAIN scan
  BY DEF Approved
<1>2. scan[i].symbol \in DOMAIN ds
  BY <1>1, ScanSays
<1>. QED  BY <1>2 DEF OrderOf, OrderFor

\* The same trades are planned at a cutoff, whatever comes after it.
LEMMA PlannedAgain ==
    ASSUME NEW ds, Grid(ds), NEW c \in evaluated_cutoffs(ds), NEW f, f = Forgetting(ds, c)
    PROVE  {Planned(t) : t \in TradesAt(f, c)} = {Planned(t) : t \in TradesAt(ds, c)}
<1>1. /\ \A u \in DOMAIN ds : c \in DOMAIN ds[u]
      /\ c \in Nat
  BY Cutoffs
<1>2. /\ Grid(f) /\ evaluated_cutoffs(f) = evaluated_cutoffs(ds)
      /\ Agree(f, ds, c)
  BY <1>1, ForgettingFits, ForgettingAgrees
<1>3. PICK scan : scan = ScanAt(ds, c)
  OBVIOUS
<1>4. scan = ScanAt(f, c)
  BY <1>1, <1>2, <1>3, SameScan
<1>5. ASSUME NEW i \in Approved(scan)
      PROVE  Planned(TradeOf(f, scan, c, i)) = Planned(TradeOf(ds, scan, c, i))
  <2>1. PICK order : order = OrderOf(scan, i)
    OBVIOUS
  <2>2. PICK u : u = order.symbol
    OBVIOUS
  <2>3. u \in DOMAIN ds
    BY <1>3, <2>1, <2>2, OrderSymbol
  <2>4. f[u][c].day = ds[u][c].day
    BY <1>1, <1>2, <2>3 DEF Agree
  <2>5. PICK x, y : x = SubSeq(f[u], c + 1, c + Horizon) /\ y = SubSeq(ds[u], c + 1, c + Horizon)
    OBVIOUS
  <2>6. TradeOf(f, scan, c, i) = _simulate_trade(order, f[u][c].day, x)
    BY <2>1, <2>2, <2>5, Zenon DEF TradeOf, Simulated
  <2>7. TradeOf(ds, scan, c, i) = _simulate_trade(order, ds[u][c].day, y)
    BY <2>1, <2>2, <2>5, Zenon DEF TradeOf, Simulated
  <2>8. Planned(_simulate_trade(order, f[u][c].day, x)) = Planned(_simulate_trade(order, f[u][c].day, y))
    BY PlannedSays, Zenon
  <2>. QED  BY <2>4, <2>6, <2>7, <2>8, Zenon
<1>6. TradesAt(f, c) = {TradeOf(f, scan, c, i) : i \in Approved(scan)}
  BY <1>4 DEF TradesAt
<1>7. TradesAt(ds, c) = {TradeOf(ds, scan, c, i) : i \in Approved(scan)}
  BY <1>3 DEF TradesAt
<1>. QED  BY <1>5, <1>6, <1>7

\* A trade is the same whatever comes after the bar it leaves on.
LEMMA TradeAgain ==
    ASSUME NEW ds, Grid(ds), NEW c \in evaluated_cutoffs(ds), NEW t \in TradesAt(ds, c), executed(t),
           NEW d, \A u \in DOMAIN ds : d \in DOMAIN ds[u], t.exit = ds[t.symbol][d].day,
           NEW f, f = Forgetting(ds, d)
    PROVE  t \in TradesAt(f, c)
<1>1. PICK scan : scan = ScanAt(ds, c)
  OBVIOUS
<1>2. PICK i \in Approved(scan) : t = TradeOf(ds, scan, c, i)
  BY <1>1 DEF TradesAt
<1>3. PICK order : order = OrderOf(scan, i)
  OBVIOUS
<1>4. PICK u : u = order.symbol
  OBVIOUS
<1>5. u \in DOMAIN ds
  BY <1>1, <1>3, <1>4, OrderSymbol
<1>6. /\ Grid(f) /\ evaluated_cutoffs(f) = evaluated_cutoffs(ds)
      /\ Agree(f, ds, d) /\ d \in Nat
  BY ForgettingFits, ForgettingAgrees
<1>7. PICK x, y : x = SubSeq(f[u], c + 1, c + Horizon) /\ y = SubSeq(ds[u], c + 1, c + Horizon)
  OBVIOUS
<1>8. \A j \in 1..Horizon : x[j] = f[u][c + j]
  <2>1. u \in DOMAIN f /\ c \in evaluated_cutoffs(f)
    BY <1>5, <1>6 DEF Agree
  <2>. QED  BY <1>6, <1>7, <2>1, BarsAfter
<1>9. \A j \in 1..Horizon : y[j] = ds[u][c + j]
  BY <1>5, <1>7, BarsAfter
<1>10. t = _simulate_trade(order, ds[u][c].day, y)
  BY <1>2, <1>3, <1>4, <1>7, Zenon DEF TradeOf, Simulated
<1>11. PICK e : e = ExitBar(order.plan, y)
  OBVIOUS
<1>12. e \in 1..Horizon /\ Horizon \in Nat /\ c \in Nat
  BY <1>11, ExitBarExists, HorizonAssumption, Cutoffs
<1>13. c + e = d
  <2>1. PICK day, exit : day = ds[u][c].day /\ exit = ExitOf(order.plan, y)
    OBVIOUS
  <2>2. t = HistoricalBacktestTrade(order, day,
                IF 100 * y[1].open <= Stop(order.plan) \/ 100 * y[1].open >= Target(order.plan) THEN NoEntry
                ELSE Settled(order.position.quantity, y[1].day, 100 * y[1].open, exit))
    BY <1>10, <2>1 DEF _simulate_trade
  <2>3. t.symbol = u
    BY <1>4, <2>2 DEF HistoricalBacktestTrade
  <2>4. PICK outcome : /\ t = HistoricalBacktestTrade(order, day, outcome)
                       /\ outcome = NoEntry \/ outcome = Settled(order.position.quantity, y[1].day, 100 * y[1].open, exit)
    BY <2>2
  <2>5. t.outcome = outcome.outcome /\ t.exit = outcome.exit
    BY <2>4 DEF HistoricalBacktestTrade
  <2>6. outcome # NoEntry
    BY <2>5 DEF executed, NoEntry
  <2>7. t.exit = exit.day
    BY <2>4, <2>5, <2>6 DEF Settled
  <2>8. exit = ExitAt(order.plan, y[e])
    BY <1>11, <2>1 DEF ExitOf
  <2>9. exit.day = ds[u][c + e].day
    BY <1>9, <1>12, <2>8, ExitSays
  <2>10. c + e \in DOMAIN ds[u] /\ d \in DOMAIN ds[u]
    <3>1. c + e \in (c + 1)..(c + Horizon)
      BY <1>12
    <3>. QED  BY <1>5, <3>1, Cutoffs
  <2>11. BarOn(ds, ds[u][c + e].day) = c + e /\ BarOn(ds, ds[u][d].day) = d
    BY <1>5, <2>10, BarOnSays
  <2>. QED  BY <2>3, <2>7, <2>9, <2>11
<1>14. ScanAt(f, c) = scan
  <2>1. c <= d
    BY <1>12, <1>13
  <2>. QED  BY <1>1, <1>6, <2>1, SameScan
<1>15. TradeOf(f, scan, c, i) = _simulate_trade(order, f[u][c].day, x)
  BY <1>3, <1>4, <1>7, Zenon DEF TradeOf, Simulated
<1>16. f[u][c].day = ds[u][c].day
  <2>1. c \in DOMAIN ds[u]
    BY <1>5, Cutoffs
  <2>. QED  BY <1>5, <1>6, <2>1 DEF Agree
<1>17. ASSUME NEW j \in 1..Horizon, j <= e  PROVE x[j] = y[j]
  <2>1. c + j \in DOMAIN ds[u]
    <3>1. c + j \in (c + 1)..(c + Horizon)
      BY <1>12
    <3>. QED  BY <1>5, <3>1, Cutoffs
  <2>2. c + j <= d
    BY <1>12, <1>13, <1>17
  <2>3. f[u][c + j] = ds[u][c + j]
    BY <1>5, <1>6, <2>1, <2>2 DEF Agree
  <2>. QED  BY <1>8, <1>9, <2>3
<1>18. \A j \in 1..e : x[j] = y[j]
  BY <1>12, <1>17
<1>19. x[1] = y[1]
  BY <1>12, <1>18
<1>20. ExitOf(order.plan, x) = ExitOf(order.plan, y)
  BY <1>11, <1>18, SameExit
<1>21. _simulate_trade(order, f[u][c].day, x) = _simulate_trade(order, ds[u][c].day, y)
  BY <1>16, <1>19, <1>20, Zenon DEF _simulate_trade
<1>22. t = TradeOf(f, scan, c, i)
  BY <1>10, <1>15, <1>21
<1>. QED  BY <1>14, <1>22 DEF TradesAt

\* The trades of a run with the same cutoff day are those of one cutoff.
LEMMA TradesOfDay ==
    ASSUME NEW ds, Grid(ds), NEW trades, trades = TradesOf(ds),
           NEW k \in DOMAIN trades, NEW c \in evaluated_cutoffs(ds), trades[k] \in TradesAt(ds, c)
    PROVE  /\ BarOn(ds, trades[k].cutoff) = c
           /\ \A j \in DOMAIN trades : trades[j].cutoff = trades[k].cutoff => trades[j] \in TradesAt(ds, c)
           /\ \A t \in TradesAt(ds, c) : \E j \in DOMAIN trades : trades[j] = t
           /\ \A t \in TradesAt(ds, c) : t.cutoff = trades[k].cutoff
<1>1. ASSUME NEW b \in evaluated_cutoffs(ds), NEW t \in TradesAt(ds, b)
      PROVE  /\ BarOn(ds, t.cutoff) = b
             /\ \A s \in TradesAt(ds, b) : s.cutoff = t.cutoff
  <2>1. PICK day : day = t.cutoff
    OBVIOUS
  <2>2. \A u \in DOMAIN ds : b \in DOMAIN ds[u]
    BY Cutoffs
  <2>3. TradeFits(ds, b, t)
    BY TradeSays
  <2>4. PICK u \in DOMAIN ds : u = t.symbol
    BY <2>3 DEF TradeFits
  <2>5. day = ds[u][b].day
    BY <2>1, <2>3, <2>4 DEF TradeFits
  <2>6. BarOn(ds, ds[u][b].day) = b
    BY <2>2, BarOnSays
  <2>7. ASSUME NEW s \in TradesAt(ds, b)  PROVE s.cutoff = day
    <3>1. TradeFits(ds, b, s)
      BY TradeSays
    <3>2. PICK v \in DOMAIN ds : v = s.symbol
      BY <3>1 DEF TradeFits
    <3>3. s.cutoff = ds[v][b].day
      BY <3>1, <3>2 DEF TradeFits
    <3>4. ds[v][b].day = ds[u][b].day
      BY <2>2, GridSays
    <3>. QED  BY <2>5, <3>3, <3>4
  <2>. QED  BY <2>1, <2>5, <2>6, <2>7
<1>2. ASSUME NEW j \in DOMAIN trades, trades[j].cutoff = trades[k].cutoff
      PROVE  trades[j] \in TradesAt(ds, c)
  <2>1. PICK b \in evaluated_cutoffs(ds) : trades[j] \in TradesAt(ds, b)
    BY TradesSay
  <2>2. BarOn(ds, trades[j].cutoff) = b
    BY <1>1, <2>1
  <2>3. BarOn(ds, trades[k].cutoff) = c
    BY <1>1
  <2>. QED  BY <1>2, <2>1, <2>2, <2>3
<1>3. \A t \in TradesAt(ds, c) : \E j \in DOMAIN trades : trades[j] = t
  BY TradesSay
<1>. QED  BY <1>1, <1>2, <1>3

\* An executed trade leaves on a bar that every symbol has; one that never
\* entered has no such day.
LEMMA ExitDay ==
    ASSUME NEW ds, Grid(ds), NEW c \in evaluated_cutoffs(ds), NEW t \in TradesAt(ds, c)
    PROVE  /\ executed(t) => t.exit > 0
           /\ ~executed(t) => t.exit = 0
           /\ executed(t) => /\ \A u \in DOMAIN ds : BarOn(ds, t.exit) \in DOMAIN ds[u]
                             /\ t.exit = ds[t.symbol][BarOn(ds, t.exit)].day
<1>1. TradeFits(ds, c, t)
  BY TradeSays
<1>2. PICK u \in DOMAIN ds : u = t.symbol
  BY <1>1 DEF TradeFits
<1>3. ~executed(t) => t.exit = 0
  BY <1>1 DEF TradeFits, executed
<1>4. ASSUME executed(t)
      PROVE  /\ t.exit > 0
             /\ \A v \in DOMAIN ds : BarOn(ds, t.exit) \in DOMAIN ds[v]
             /\ t.exit = ds[u][BarOn(ds, t.exit)].day
  <2>1. PICK e \in (c + 1)..(c + Horizon) : t.exit = ds[u][e].day
    BY <1>1, <1>2, <1>4 DEF TradeFits, executed
  <2>2. /\ c \in Nat /\ \A v \in DOMAIN ds : c \in DOMAIN ds[v]
        /\ \A v \in DOMAIN ds : \A x \in (c + 1)..(c + Horizon) : x \in DOMAIN ds[v]
    BY Cutoffs
  <2>3. \A v \in DOMAIN ds : e \in DOMAIN ds[v]
    BY <2>2
  <2>4. c < e /\ e \in Nat
    BY <2>2, HorizonAssumption
  <2>5. ds[u][c].day < ds[u][e].day
    BY <2>2, <2>3, <2>4, DaysIncrease
  <2>6. ds[u][c].day \in Nat /\ ds[u][e].day \in Nat
    BY <2>2, <2>3, GridSays
  <2>7. BarOn(ds, ds[u][e].day) = e
    BY <2>3, BarOnSays
  <2>. QED  BY <2>1, <2>3, <2>5, <2>6, <2>7
<1>. QED  BY <1>2, <1>3, <1>4

\* The trades a backtest makes are free of hindsight.
LEMMA HindsightFree ==
    ASSUME NEW ds, Grid(ds), NEW trades, trades = TradesOf(ds)
    PROVE  FreeOfHindsight(ds, trades)
<1>. DEFINE from(day) == {k \in DOMAIN trades : trades[k].cutoff = day}
            again(cutoff, day) == TradesAt(Forgetting(ds, BarOn(ds, day)), BarOn(ds, cutoff))
<1>1. ASSUME NEW k \in DOMAIN trades
      PROVE  {Planned(trades[j]) : j \in from(trades[k].cutoff)}
               = {Planned(t) : t \in again(trades[k].cutoff, trades[k].cutoff)}
  <2>1. PICK c \in evaluated_cutoffs(ds) : trades[k] \in TradesAt(ds, c)
    BY TradesSay
  <2>2. PICK day : day = trades[k].cutoff
    OBVIOUS
  <2>3. /\ BarOn(ds, day) = c
        /\ \A j \in from(day) : trades[j] \in TradesAt(ds, c)
        /\ \A t \in TradesAt(ds, c) : \E j \in DOMAIN trades : trades[j] = t
        /\ \A t \in TradesAt(ds, c) : t.cutoff = day
    <3>1. BarOn(ds, day) = c
      BY <2>1, <2>2, TradesOfDay
    <3>2. \A j \in DOMAIN trades : trades[j].cutoff = day => trades[j] \in TradesAt(ds, c)
      BY <2>1, <2>2, TradesOfDay
    <3>3. \A t \in TradesAt(ds, c) : \E j \in DOMAIN trades : trades[j] = t
      BY <2>1, TradesSay
    <3>4. \A t \in TradesAt(ds, c) : t.cutoff = day
      BY <2>1, <2>2, TradesOfDay
    <3>. QED  BY <3>1, <3>2, <3>3, <3>4
  <2>4. \A t \in TradesAt(ds, c) : \E j \in from(day) : trades[j] = t
    BY <2>3
  <2>5. {Planned(trades[j]) : j \in from(day)} = {Planned(t) : t \in TradesAt(ds, c)}
    <3>. HIDE DEF from
    <3>. QED  BY <2>3, <2>4
  <2>6. again(day, day) = TradesAt(Forgetting(ds, c), c)
    BY <2>3
  <2>7. {Planned(t) : t \in TradesAt(Forgetting(ds, c), c)} = {Planned(t) : t \in TradesAt(ds, c)}
    BY PlannedAgain
  <2>. HIDE DEF from, again
  <2>. QED  BY <2>2, <2>5, <2>6, <2>7
<1>2. ASSUME NEW k \in Executed(trades), NEW j \in from(trades[k].cutoff), trades[j].exit = trades[k].exit
      PROVE  trades[j] \in again(trades[k].cutoff, trades[k].exit)
  <2>1. k \in DOMAIN trades /\ executed(trades[k])
    BY DEF Executed
  <2>2. PICK c \in evaluated_cutoffs(ds) : trades[k] \in TradesAt(ds, c)
    BY <2>1, TradesSay
  <2>3. PICK s, t : s = trades[k] /\ t = trades[j]
    OBVIOUS
  <2>4. BarOn(ds, s.cutoff) = c
    BY <2>1, <2>2, <2>3, TradesOfDay
  <2>5. t \in TradesAt(ds, c)
    <3>1. \A i \in DOMAIN trades : trades[i].cutoff = trades[k].cutoff => trades[i] \in TradesAt(ds, c)
      BY <2>1, <2>2, TradesOfDay
    <3>. QED  BY <2>3, <3>1
  <2>6. s.exit > 0 /\ t.exit = s.exit
    BY <1>2, <2>1, <2>2, <2>3, ExitDay
  <2>7. executed(t)
    <3>1. ~executed(t) => t.exit = 0
      BY <2>5, ExitDay
    <3>. QED  BY <2>6, <3>1
  <2>8. PICK d : d = BarOn(ds, t.exit)
    OBVIOUS
  <2>9. (\A u \in DOMAIN ds : d \in DOMAIN ds[u]) /\ t.exit = ds[t.symbol][d].day
    BY <2>5, <2>7, <2>8, ExitDay
  <2>10. t \in TradesAt(Forgetting(ds, d), c)
    BY <2>5, <2>7, <2>9, TradeAgain
  <2>11. again(s.cutoff, s.exit) = TradesAt(Forgetting(ds, d), c)
    BY <2>4, <2>6, <2>8
  <2>. HIDE DEF again
  <2>. QED  BY <2>3, <2>10, <2>11
<1>. DEFINE exits == {<<trades[k].cutoff, trades[k].exit>> : k \in Executed(trades)}
<1>3. \A day \in {trades[k].cutoff : k \in DOMAIN trades} :
         {Planned(trades[k]) : k \in from(day)} = {Planned(t) : t \in again(day, day)}
  <2>. HIDE DEF from, again
  <2>. QED  BY <1>1
<1>4. \A e \in exits : {trades[k] : k \in {j \in from(e[1]) : trades[j].exit = e[2]}} \subseteq again(e[1], e[2])
  <2>. HIDE DEF from, again
  <2>1. SUFFICES ASSUME NEW k \in Executed(trades), NEW j \in from(trades[k].cutoff), trades[j].exit = trades[k].exit
                 PROVE  trades[j] \in again(trades[k].cutoff, trades[k].exit)
    OBVIOUS
  <2>. QED  BY <1>2, <2>1
<1>. QED  BY <1>3, <1>4 DEF FreeOfHindsight

------------------------------------------------------------------------------
(* Products, and adjusted bars *)

ProductOn(f, S) == FoldFunctionOnSet(LAMBDA x, product : product * x, 1, f, S)

IsProduct(g, f, S) == g = [T \in SUBSET S |-> IF T = {} THEN 1 ELSE g[T \ {Chosen(T)}] * f[Chosen(T)]]

\* A product is the value at S of some function of partial products.
LEMMA ProductIsChosen ==
    ASSUME NEW f, NEW S
    PROVE  ProductOn(f, S) = (CHOOSE g : IsProduct(g, f, S))[S]
  BY DEF ProductOn, FoldFunctionOnSet, MapThenFoldSet, IsProduct, Chosen

\* Any two functions of partial products agree.
LEMMA ProductIsUnique ==
    ASSUME NEW f, NEW S, IsFiniteSet(S), NEW g, IsProduct(g, f, S), NEW h, IsProduct(h, f, S)
    PROVE  g[S] = h[S]
<1>. DEFINE B == {T \in SUBSET S : g[T] # h[T]}
<1>1. SUFFICES ASSUME B # {} PROVE FALSE
  OBVIOUS
<1>2. \A T \in B : IsFiniteSet(T)
  BY FS_Subset
<1>3. PICK T \in B : \A U \in B : Cardinality(T) <= Cardinality(U)
  <2>. HIDE DEF B
  <2>. QED  BY <1>1, <1>2, SmallestSet
<1>4. g[T] = IF T = {} THEN 1 ELSE g[T \ {Chosen(T)}] * f[Chosen(T)]
  BY <1>3, Zenon DEF IsProduct
<1>5. h[T] = IF T = {} THEN 1 ELSE h[T \ {Chosen(T)}] * f[Chosen(T)]
  BY <1>3, Zenon DEF IsProduct
<1>6. T # {}
  BY <1>3, <1>4, <1>5, Zenon
<1>7. T \ {Chosen(T)} \in SUBSET T /\ T \ {Chosen(T)} # T
  BY <1>6, ChosenIsIn
<1>8. T \ {Chosen(T)} \notin B
  <2>1. Cardinality(T \ {Chosen(T)}) < Cardinality(T) /\ Cardinality(T) \in Nat
        /\ Cardinality(T \ {Chosen(T)}) \in Nat
    BY <1>2, <1>3, <1>7, SmallerPart
  <2>. HIDE DEF B
  <2>. QED  BY <1>3, <2>1
<1>9. g[T \ {Chosen(T)}] = h[T \ {Chosen(T)}] /\ g[T] # h[T]
  BY <1>3, <1>7, <1>8
<1>. QED  BY <1>4, <1>5, <1>6, <1>9, Zenon

\* A product, one factor at a time.
LEMMA ProductStep ==
    ASSUME NEW f, NEW S, IsFiniteSet(S)
    PROVE  ProductOn(f, S) = IF S = {} THEN 1 ELSE ProductOn(f, S \ {Chosen(S)}) * f[Chosen(S)]
<1>. DEFINE Product(T) == ProductOn(f, T)
            Multiplied(T) == IF T = {} THEN 1 ELSE Product(T \ {Chosen(T)}) * f[Chosen(T)]
            B == {T \in SUBSET S : Product(T) # Multiplied(T)}
<1>1. ASSUME NEW T \in SUBSET S, \A U \in SUBSET T : U # T => Product(U) = Multiplied(U)
      PROVE  Product(T) = Multiplied(T)
  <2>. DEFINE h == [U \in SUBSET T |-> Multiplied(U)]
  <2>1. IsFiniteSet(T)
    BY FS_Subset
  <2>2. ASSUME NEW U \in SUBSET T, U # {}
        PROVE  U \ {Chosen(U)} \in SUBSET T /\ Multiplied(U \ {Chosen(U)}) = Product(U \ {Chosen(U)})
    <3>1. Chosen(U) \in U
      BY <2>2, ChosenIsIn
    <3>2. U \ {Chosen(U)} # T
      BY <3>1
    <3>. HIDE DEF Multiplied, Product
    <3>. QED  BY <1>1, <3>2
  <2>3. IsProduct(h, f, T)
    <3>1. \A U \in SUBSET T : U # {} => h[U \ {Chosen(U)}] = Product(U \ {Chosen(U)})
      <4>. HIDE DEF Multiplied, Product
      <4>. QED  BY <2>2
    <3>2. \A U \in SUBSET T : Multiplied(U) = IF U = {} THEN 1 ELSE h[U \ {Chosen(U)}] * f[Chosen(U)]
      <4>. HIDE DEF Product, h
      <4>. QED  BY <3>1, Zenon
    <3>. HIDE DEF Multiplied
    <3>. QED  BY <3>2, Zenon DEF IsProduct
  <2>. HIDE DEF h
  <2>4. IsProduct(CHOOSE g : IsProduct(g, f, T), f, T)
    BY <2>3
  <2>5. (CHOOSE g : IsProduct(g, f, T))[T] = h[T]
    BY <2>1, <2>3, <2>4, ProductIsUnique
  <2>6. h[T] = Multiplied(T)
    <3>. HIDE DEF Multiplied
    <3>. QED  BY DEF h
  <2>. QED  BY <2>5, <2>6, ProductIsChosen
<1>. HIDE DEF Multiplied, Product
<1>2. B = {}
  <2>1. SUFFICES ASSUME B # {} PROVE FALSE
    OBVIOUS
  <2>2. \A T \in B : IsFiniteSet(T)
    BY FS_Subset
  <2>3. PICK T \in B : \A U \in B : Cardinality(T) <= Cardinality(U)
    <3>. HIDE DEF B
    <3>. QED  BY <2>1, <2>2, SmallestSet
  <2>4. ASSUME NEW U \in SUBSET T, U # T  PROVE U \notin B
    <3>1. Cardinality(U) < Cardinality(T) /\ Cardinality(U) \in Nat /\ Cardinality(T) \in Nat
      BY <2>2, <2>3, <2>4, SmallerPart
    <3>. HIDE DEF B
    <3>. QED  BY <2>3, <3>1
  <2>. QED  BY <1>1, <2>3, <2>4
<1>3. Product(S) = Multiplied(S)
  BY <1>2
<1>. QED  BY <1>3, Zenon DEF Multiplied, Product

\* Positive factors have a positive product.
LEMMA TimesSays ==
    ASSUME NEW a \in Nat \ {0}, NEW b \in Nat \ {0}
    PROVE  a * b \in Nat \ {0}
  OBVIOUS

\* So do finitely many of them.
LEMMA ProductIsPositive ==
    ASSUME NEW f, IsFiniteSet(DOMAIN f), \A x \in DOMAIN f : f[x] \in Nat \ {0}
    PROVE  ProductOf(f) \in Nat \ {0}
<1>. DEFINE B == {T \in SUBSET DOMAIN f : ProductOn(f, T) \notin Nat \ {0}}
<1>1. B = {}
  <2>1. SUFFICES ASSUME B # {} PROVE FALSE
    OBVIOUS
  <2>2. \A T \in B : IsFiniteSet(T)
    BY FS_Subset
  <2>3. PICK T \in B : \A U \in B : Cardinality(T) <= Cardinality(U)
    <3>. HIDE DEF B
    <3>. QED  BY <2>1, <2>2, SmallestSet
  <2>4. ProductOn(f, T) = IF T = {} THEN 1 ELSE ProductOn(f, T \ {Chosen(T)}) * f[Chosen(T)]
    BY <2>2, ProductStep
  <2>5. CASE T = {}
    <3>1. ProductOn(f, T) = 1
      BY <2>4, <2>5, Zenon
    <3>. QED  BY <2>3, <3>1
  <2>6. CASE T # {}
    <3>1. PICK U : U = T \ {Chosen(T)}
      OBVIOUS
    <3>2. U \in SUBSET T /\ U # T /\ Chosen(T) \in DOMAIN f
      BY <2>3, <2>6, <3>1, ChosenIsIn
    <3>3. Cardinality(U) < Cardinality(T) /\ Cardinality(T) \in Nat /\ Cardinality(U) \in Nat
      BY <2>2, <2>3, <3>2, SmallerPart
    <3>4. U \notin B
      <4>. HIDE DEF B
      <4>. QED  BY <2>3, <3>3
    <3>5. ProductOn(f, U) \in Nat \ {0}
      BY <2>3, <3>2, <3>4
    <3>6. PICK a, b : a = ProductOn(f, U) /\ b = f[Chosen(T)]
      OBVIOUS
    <3>7. ProductOn(f, T) = a * b
      BY <2>4, <2>6, <3>1, <3>6, Zenon
    <3>8. a * b \in Nat \ {0}
      BY <3>2, <3>5, <3>6, TimesSays
    <3>. QED  BY <2>3, <3>7, <3>8
  <2>. QED  BY <2>5, <2>6
<1>2. ProductOf(f) = ProductOn(f, DOMAIN f)
  BY DEF ProductOf, ProductOn, FoldFunction, FoldFunctionOnSet, MapThenFoldSet
<1>. QED  BY <1>1, <1>2

\* The factor of a day is a fraction.
LEMMA FactorSays ==
    ASSUME NEW manifest, IsFiniteSet(manifest.actions),
           \A a \in manifest.actions : a.new \in Nat \ {0} /\ a.old \in Nat \ {0},
           NEW instrument, NEW day, NEW factor, factor = split_adjustment_factor_at(manifest, instrument, day)
    PROVE  factor.new \in Nat \ {0} /\ factor.old \in Nat \ {0}
<1>1. PICK later : later = {a \in splits_for(manifest, instrument) : day < a.day}
  OBVIOUS
<1>2. later \in SUBSET manifest.actions
  BY <1>1 DEF splits_for
<1>3. IsFiniteSet(later)
  BY <1>2, FS_Subset
<1>4. PICK f, g : f = [a \in later |-> a.old] /\ g = [a \in later |-> a.new]
  OBVIOUS
<1>5. ProductOf(f) \in Nat \ {0}
  <2>1. DOMAIN f = later /\ \A x \in DOMAIN f : f[x] \in Nat \ {0}
    BY <1>2, <1>4
  <2>. QED  BY <1>3, <2>1, ProductIsPositive
<1>6. ProductOf(g) \in Nat \ {0}
  <2>1. DOMAIN g = later /\ \A x \in DOMAIN g : g[x] \in Nat \ {0}
    BY <1>2, <1>4
  <2>. QED  BY <1>3, <2>1, ProductIsPositive
<1>7. factor = [old |-> ProductOf(f), new |-> ProductOf(g)]
  BY <1>1, <1>4, Zenon DEF split_adjustment_factor_at
<1>. QED  BY <1>5, <1>6, <1>7

\* A quotient of naturals is one.
LEMMA QuotientSays ==
    ASSUME NEW a \in Nat, NEW b \in Nat, NEW d \in Nat \ {0}
    PROVE  a * b \in Nat /\ (a * b) \div d \in Nat /\ (2 * a * b + d) \div (2 * d) \in Nat
<1>1. a * b \in Nat
  OBVIOUS
<1>2. ASSUME NEW x \in Nat, NEW y \in Nat \ {0}  PROVE x \div y \in Nat
  OBVIOUS
<1>3. 2 * a * b + d \in Nat
  <2>1. 2 * a * b = 2 * (a * b)
    OBVIOUS
  <2>2. PICK z : z = a * b
    OBVIOUS
  <2>3. 2 * z + d \in Nat
    BY <1>1, <2>2
  <2>. QED  BY <2>1, <2>2, <2>3
<1>4. 2 * d \in Nat \ {0}
  OBVIOUS
<1>. QED  BY <1>1, <1>2, <1>3, <1>4

\* An adjusted bar is a bar of its day.
LEMMA AdjustedBarFits ==
    ASSUME NEW bar \in BarType, NEW factor, factor.new \in Nat \ {0}, factor.old \in Nat \ {0}
    PROVE  AdjustedBar(bar, factor) \in BarType
<1>1. PICK old, new : old = factor.old /\ new = factor.new
  OBVIOUS
<1>2. bar.open \in Nat /\ bar.high \in Nat /\ bar.low \in Nat /\ bar.close \in Nat /\ bar.volume \in Nat
  BY DEF BarType
<1>3. old \in Nat /\ old \in Nat \ {0} /\ new \in Nat /\ new \in Nat \ {0}
  BY <1>1
<1>4. \A x \in Nat : AdjustedPrice(x, factor) \in Nat
  BY <1>1, <1>3, QuotientSays DEF AdjustedPrice
<1>5. \A x \in Nat : AdjustedVolume(x, factor) \in Nat
  BY <1>1, <1>3, QuotientSays DEF AdjustedVolume
<1>6. PICK o, h, l, c, v : /\ o = AdjustedPrice(bar.open, factor) /\ h = AdjustedPrice(bar.high, factor)
                           /\ l = AdjustedPrice(bar.low, factor) /\ c = AdjustedPrice(bar.close, factor)
                           /\ v = AdjustedVolume(bar.volume, factor)
  OBVIOUS
<1>7. o \in Nat /\ h \in Nat /\ l \in Nat /\ c \in Nat /\ v \in Nat
  BY <1>2, <1>4, <1>5, <1>6
<1>8. AdjustedBar(bar, factor) = [bar EXCEPT !.open = o, !.high = h, !.low = l, !.close = c, !.volume = v]
  BY <1>6 DEF AdjustedBar
<1>9. [bar EXCEPT !.open = o, !.high = h, !.low = l, !.close = c, !.volume = v] \in BarType
  BY <1>7 DEF BarType
<1>. QED  BY <1>8, <1>9

\* Adjusting a dataset leaves one.
LEMMA AdjustedFits ==
    ASSUME NEW series, DatasetType(series), NEW manifest, NEW master, IsFiniteSet(manifest.actions),
           \A a \in manifest.actions : a.new \in Nat \ {0} /\ a.old \in Nat \ {0}
    PROVE  DatasetType(Adjusted(series, manifest, master))
<1>1. PICK s : s = Adjusted(series, manifest, master)
  OBVIOUS
<1>2. DOMAIN s = DOMAIN series
  BY <1>1 DEF Adjusted
<1>3. ASSUME NEW u \in DOMAIN series
      PROVE  s[u] \in Seq(BarType)
  <2>1. PICK bars, i : bars = series[u] /\ i = InstrumentOf(master, u)
    OBVIOUS
  <2>2. bars \in Seq(BarType)
    BY <2>1 DEF DatasetType
  <2>3. s[u] = [k \in DOMAIN bars |->
                  AdjustedBar(bars[k], split_adjustment_factor_at(manifest, i, bars[k].day))]
    BY <1>1, <2>1 DEF Adjusted
  <2>4. ASSUME NEW k \in DOMAIN bars
        PROVE  AdjustedBar(bars[k], split_adjustment_factor_at(manifest, i, bars[k].day)) \in BarType
    <3>1. PICK factor : factor = split_adjustment_factor_at(manifest, i, bars[k].day)
      OBVIOUS
    <3>2. factor.new \in Nat \ {0} /\ factor.old \in Nat \ {0}
      BY <3>1, FactorSays
    <3>3. bars[k] \in BarType
      BY <2>2
    <3>. QED  BY <3>1, <3>2, <3>3, AdjustedBarFits
  <2>5. PICK n \in Nat : DOMAIN bars = 1..n
    BY <2>2
  <2>6. s[u] \in [1..n -> BarType]
    BY <2>3, <2>4, <2>5
  <2>. QED  BY <2>6
<1>. QED  BY <1>1, <1>2, <1>3 DEF DatasetType

\* What files of bars make is a dataset.
LEMMA SeriesFit ==
    ASSUME NEW sent, IsFiniteSet(sent), \A part \in sent : part.symbol \in Nat /\ part.bars \in Seq(BarType)
    PROVE  DatasetType(SeriesOf(sent))
<1>1. PICK s : s = SeriesOf(sent)
  OBVIOUS
<1>2. DOMAIN s = {part.symbol : part \in sent}
  BY <1>1 DEF SeriesOf
<1>3. IsFiniteSet(DOMAIN s)
  <2>1. PICK f : f = [part \in sent |-> part.symbol]
    OBVIOUS
  <2>2. DOMAIN f = sent /\ {f[x] : x \in DOMAIN f} = {part.symbol : part \in sent}
    BY <2>1
  <2>3. IsFiniteSet({f[x] : x \in DOMAIN f})
    BY <2>2, FiniteImage
  <2>. QED  BY <1>2, <2>2, <2>3
<1>4. ASSUME NEW u \in DOMAIN s
      PROVE  u \in Nat /\ s[u] \in Seq(BarType)
  <2>1. PICK part : part = CHOOSE x \in sent : x.symbol = u
    OBVIOUS
  <2>2. part \in sent /\ part.symbol = u
    BY <1>2, <2>1
  <2>3. s[u] = part.bars
    BY <1>1, <1>2, <2>1 DEF SeriesOf, parse_source_csv
  <2>. QED  BY <2>2, <2>3
<1>. QED  BY <1>1, <1>3, <1>4 DEF DatasetType

\* The complete rows of a response are bars.
LEMMA TranslatedFits ==
    ASSUME NEW response, ResponseType(response)
    PROVE  translate_yahoo_chart_json_to_pipeline_csv(response.rows) \in Seq(BarType)
<1>1. PICK given : given = response.rows
  OBVIOUS
<1>. DEFINE S == {j \in DOMAIN given : given[j].complete}
<1>2. /\ IsFiniteSet(DOMAIN given) /\ DOMAIN given \subseteq Nat
      /\ \A k \in DOMAIN given : given[k].complete => given[k].bar \in BarType
  BY <1>1 DEF ResponseType
<1>3. S \in SUBSET Nat /\ IsFiniteSet(S) /\ \A k \in S : given[k].bar \in BarType
  BY <1>2, FS_Subset
<1>4. PICK kept : kept = InOrder([k \in S |-> <<k>>])
  OBVIOUS
<1>5. translate_yahoo_chart_json_to_pipeline_csv(given) = [k \in DOMAIN kept |-> given[kept[k]].bar]
  BY <1>4 DEF translate_yahoo_chart_json_to_pipeline_csv
<1>6. kept = Alphabetical(S)
  BY <1>4 DEF Alphabetical
<1>. HIDE DEF S
<1>7. PICK n \in Nat : DOMAIN kept = 1..n /\ \A k \in 1..n : kept[k] \in S
  BY <1>3, <1>6, AlphabeticalSays
<1>8. [k \in DOMAIN kept |-> given[kept[k]].bar] \in [1..n -> BarType]
  BY <1>3, <1>7
<1>. QED  BY <1>1, <1>5, <1>8

------------------------------------------------------------------------------
(* The calls a process has left *)

\* A dataset file names its dataset and version, and holds whole bars.
ArtifactFits(artifact) ==
    DOMAIN artifact = {"dataset", "version", "series"} /\ DatasetType(artifact.series)

NoHindsight(run) == FreeOfHindsight(DatasetOf(run), run.trades)

CallFits(call) ==
    /\ call.into = "file" => ArtifactFits(call.row.artifact)
    /\ call.into = "runs" => NoHindsight(call.row)

CallsFit(calls) == IsSeq(calls) /\ \A i \in DOMAIN calls : CallFits(calls[i])

\* The files fit, and so does everything that is still to be written.
HindsightInv ==
    /\ \A f \in DOMAIN files : ArtifactFits(files[f])
    /\ DOMAIN todo = Procs
    /\ \A p \in Procs : CallsFit(todo[p])

\* A call into a table of no runs fits.
LEMMA QuietFits ==
    ASSUME NEW table, table \notin {"file", "runs"}, NEW row
    PROVE  CallFits(Call(table, row))
  BY DEF CallFits, Call

\* A list of calls that fit fits, for the lists that commands make.
LEMMA ListsFit ==
    /\ CallsFit(<<>>)
    /\ \A a : CallFits(a) => CallsFit(<<a>>)
    /\ \A a, b : CallFits(a) /\ CallFits(b) => CallsFit(<<a, b>>)
    /\ \A a, b, c : CallFits(a) /\ CallFits(b) /\ CallFits(c) => CallsFit(<<a, b, c>>)
<1>1. CallsFit(<<>>)
  <2>1. DOMAIN <<>> = {} /\ IsSeq(<<>>)
    BY NoCalls
  <2>. QED  BY <2>1 DEF CallsFit
<1>2. ASSUME NEW a, CallFits(a)  PROVE CallsFit(<<a>>)
  <2>1. PICK s : s = <<a>>
    OBVIOUS
  <2>2. s \in Seq({a}) /\ DOMAIN s = {1} /\ s[1] = a
    BY <2>1
  <2>3. CallsFit(s)
    BY <1>2, <2>2 DEF CallsFit, IsSeq
  <2>. QED  BY <2>1, <2>3
<1>3. ASSUME NEW a, NEW b, CallFits(a), CallFits(b)  PROVE CallsFit(<<a, b>>)
  <2>1. PICK s : s = <<a, b>>
    OBVIOUS
  <2>2. s \in Seq({a, b}) /\ DOMAIN s = 1..2 /\ s[1] = a /\ s[2] = b
    BY <2>1
  <2>3. \A i \in 1..2 : i = 1 \/ i = 2
    OBVIOUS
  <2>4. IsSeq(s)
    BY <2>2 DEF IsSeq
  <2>5. CallsFit(s)
    BY <1>3, <2>2, <2>3, <2>4 DEF CallsFit
  <2>. QED  BY <2>1, <2>5
<1>4. ASSUME NEW a, NEW b, NEW c, CallFits(a), CallFits(b), CallFits(c)  PROVE CallsFit(<<a, b, c>>)
  <2>1. PICK s : s = <<a, b, c>>
    OBVIOUS
  <2>2. s \in Seq({a, b, c}) /\ DOMAIN s = 1..3 /\ s[1] = a /\ s[2] = b /\ s[3] = c
    BY <2>1
  <2>3. \A i \in 1..3 : i = 1 \/ i = 2 \/ i = 3
    OBVIOUS
  <2>4. IsSeq(s)
    BY <2>2 DEF IsSeq
  <2>5. CallsFit(s)
    BY <1>4, <2>2, <2>3, <2>4 DEF CallsFit
  <2>. QED  BY <2>1, <2>5
<1>. QED  BY <1>1, <1>2, <1>3, <1>4

\* So do two lists in one.
LEMMA JoinedFit ==
    ASSUME NEW s, CallsFit(s), NEW t, CallsFit(t)
    PROVE  CallsFit(s \o t)
<1>1. PICK S : s \in Seq(S)
  BY DEF CallsFit, IsSeq
<1>2. PICK T : t \in Seq(T)
  BY DEF CallsFit, IsSeq
<1>3. s \in Seq(S \cup T) /\ t \in Seq(S \cup T)
  BY <1>1, <1>2
<1>4. PICK a, m, n : a = s \o t /\ m = Len(s) /\ n = Len(t)
  OBVIOUS
<1>5. /\ a \in Seq(S \cup T) /\ m \in Nat /\ n \in Nat
      /\ DOMAIN s = 1..m /\ DOMAIN t = 1..n /\ DOMAIN a = 1..(m + n)
      /\ \A i \in 1..m : a[i] = s[i]
      /\ \A i \in 1..(m + n) : i > m => a[i] = t[i - m]
  BY <1>3, <1>4
<1>6. ASSUME NEW i \in 1..(m + n)  PROVE CallFits(a[i])
  <2>1. CASE i <= m
    <3>1. i \in 1..m /\ a[i] = s[i]
      BY <1>5, <2>1
    <3>. QED  BY <1>5, <3>1 DEF CallsFit
  <2>2. CASE i > m
    <3>1. i - m \in 1..n /\ a[i] = t[i - m]
      BY <1>5, <2>2
    <3>. QED  BY <1>5, <3>1 DEF CallsFit
  <2>. QED  BY <1>5, <2>1, <2>2
<1>7. IsSeq(a)
  BY <1>5 DEF IsSeq
<1>. QED  BY <1>4, <1>5, <1>6, <1>7 DEF CallsFit

\* And one call less.
LEMMA TailFits ==
    ASSUME NEW s, CallsFit(s), s # <<>>
    PROVE  CallsFit(Tail(s)) /\ CallFits(Head(s))
<1>1. PICK T : s \in Seq(T)
  BY DEF CallsFit, IsSeq
<1>2. Tail(s) \in Seq(T) /\ \A i \in DOMAIN Tail(s) : i + 1 \in DOMAIN s /\ Tail(s)[i] = s[i + 1]
  BY <1>1
<1>3. 1 \in DOMAIN s /\ Head(s) = s[1]
  BY <1>1
<1>. QED  BY <1>2, <1>3 DEF CallsFit, IsSeq

\* The calls for runs that are free of hindsight.
LEMMA RunCallsFit ==
    ASSUME NEW runs, NEW m \in Nat, DOMAIN runs = 1..m,
           \A k \in 1..m : runs[k].gov # 0 => NoHindsight(runs[k])
    PROVE  CallsFit(CallsFor(runs))
<1>1. PICK cited, s : cited = Cited(runs) /\ s = CallsFor(runs)
  OBVIOUS
<1>2. \A i \in DOMAIN cited : cited[i] \in 1..m /\ runs[cited[i]].gov # 0
  BY <1>1, CitedSays
<1>3. s = [i \in DOMAIN cited |-> [into |-> "runs", row |-> runs[cited[i]]]]
  BY <1>1 DEF CallsFor, Call
<1>4. DOMAIN s = DOMAIN cited /\ \A i \in DOMAIN cited : s[i].into = "runs" /\ s[i].row = runs[cited[i]]
  BY <1>3
<1>5. ASSUME NEW i \in DOMAIN s  PROVE CallFits(s[i])
  <2>1. NoHindsight(s[i].row) /\ s[i].into # "file"
    BY <1>2, <1>4
  <2>. QED  BY <2>1 DEF CallFits
<1>6. IsSeq(s)
  BY <1>1, CallsForSays
<1>. QED  BY <1>1, <1>5, <1>6 DEF CallsFit

------------------------------------------------------------------------------
(* The runs of every command are free of hindsight *)

\* A run of a dataset file.
LEMMA ArtifactRunIsFree ==
    ASSUME NEW gov, NEW place, NEW artifact, ArtifactFits(artifact), Runnable(artifact.series)
    PROVE  NoHindsight(ArtifactRun(gov, place, artifact))
<1>1. PICK r, ds : r = ArtifactRun(gov, place, artifact) /\ ds = artifact.series
  OBVIOUS
<1>2. r.of = artifact /\ r.trades = TradesOf(ds)
  BY <1>1, BuiltRun DEF ArtifactRun
<1>3. Grid(ds)
  BY <1>1 DEF Grid, ArtifactFits, Runnable
<1>4. "bundle" \notin DOMAIN artifact
  BY DEF ArtifactFits
<1>5. DatasetOf(r) = ds
  BY <1>1, <1>2, <1>4 DEF DatasetOf
<1>6. FreeOfHindsight(ds, r.trades)
  BY <1>2, <1>3, HindsightFree
<1>. QED  BY <1>1, <1>5, <1>6 DEF NoHindsight

\* A run of some of a bundle's bars.
LEMMA SliceRunIsFree ==
    ASSUME NEW b \in DOMAIN Bundles, NEW range, RangeFits(range, bars_per_instrument(Bundles[b].series)),
           NEW symbols \in SUBSET DOMAIN Bundles[b].series,
           NEW ds, ds = Slice(Bundles[b], range, symbols), HistoricalDataset(ds), NEW identity,
           NEW r, r = build_historical_backtest_run(identity, ds, Of(b, range, symbols))
    PROVE  NoHindsight(r)
<1>1. GoodBundle(Bundles[b])
  BY BundlesAre
<1>2. Grid(ds)
  <2>1. Sliced(ds, Bundles[b], range, symbols)
    BY <1>1, SliceSays
  <2>. QED  BY <2>1 DEF Sliced, Grid
<1>3. r.of = Of(b, range, symbols) /\ r.trades = TradesOf(ds)
  BY BuiltRun
<1>4. "bundle" \in DOMAIN r.of /\ r.of.bundle = b /\ r.of.range = range /\ r.of.symbols = symbols
  BY <1>3 DEF Of
<1>5. DatasetOf(r) = ds
  BY <1>4 DEF DatasetOf
<1>6. FreeOfHindsight(ds, r.trades)
  BY <1>2, <1>3, HindsightFree
<1>. QED  BY <1>5, <1>6 DEF NoHindsight

\* The runs of a robustness study, and of the stress study of a survivorship
\* study.
LEMMA RobustnessRunsAreFree ==
    ASSUME NEW c, c.bundle \in DOMAIN Bundles, NEW base, NEW place,
           _validate_bundle_windows(Bundles[c.bundle]),
           \A k \in DOMAIN Bundles[c.bundle].specs : Runnable(_window_dataset(Bundles[c.bundle], k)),
           NEW runs, runs = RobustnessRuns(c, base, place)
    PROVE  CallsFit(CallsFor(runs))
<1>1. PICK b, bundle, range : /\ b = c.bundle /\ bundle = Bundles[b] /\ range = _window_bar_ranges(bundle)
  OBVIOUS
<1>2. PICK m : m = Len(bundle.specs)
  OBVIOUS
<1>3. GoodBundle(bundle) /\ m \in Nat /\ DOMAIN bundle.specs = 1..m
  BY <1>1, <1>2, BundlesAre
<1>4. runs = [k \in 1..m |->
                build_historical_backtest_run(Identity(base + k, place + k), _window_dataset(bundle, k),
                                              Of(b, range[k], DOMAIN bundle.series))]
  BY <1>1, <1>3 DEF RobustnessRuns
<1>5. DOMAIN runs = 1..m
  BY <1>4
<1>6. ASSUME NEW k \in 1..m
      PROVE  NoHindsight(runs[k])
  <2>1. PICK g, symbols, ds, identity, r :
           /\ g = range[k] /\ symbols = DOMAIN bundle.series /\ ds = _window_dataset(bundle, k)
           /\ identity = Identity(base + k, place + k) /\ r = runs[k]
    OBVIOUS
  <2>2. r = build_historical_backtest_run(identity, ds, Of(b, g, symbols))
    BY <1>4, <2>1
  <2>3. RangeFits(g, bars_per_instrument(bundle.series))
    BY <1>1, <1>3, <2>1, WindowRangesFit
  <2>4. ds = Slice(bundle, g, symbols)
    BY <1>1, <2>1 DEF _window_dataset
  <2>5. HistoricalDataset(ds)
    BY <1>1, <1>3, <2>1 DEF Runnable
  <2>6. symbols \in SUBSET DOMAIN bundle.series /\ b \in DOMAIN Bundles
    BY <1>1, <2>1
  <2>7. NoHindsight(r)
    BY <1>1, <2>2, <2>3, <2>4, <2>5, <2>6, SliceRunIsFree
  <2>. QED  BY <2>1, <2>7
<1>. QED  BY <1>3, <1>5, <1>6, RunCallsFit

\* The runs of a validation study.
LEMMA ValidationRunsAreFree ==
    ASSUME NEW c, c.bundle \in DOMAIN Bundles, NEW bundle, bundle = Bundles[c.bundle],
           NEW range, range = _segment_bar_ranges(bundle), _validate_bundle_segments(bundle),
           \A k \in DOMAIN bundle.specs : Runnable(_segment_dataset(bundle, k)),
           NEW runs, runs = [k \in DOMAIN bundle.specs |->
                        build_historical_backtest_run(Identity(c.runs[k], k), _segment_dataset(bundle, k),
                                                      Of(c.bundle, range[k], DOMAIN bundle.series))]
    PROVE  CallsFit(CallsFor(runs))
<1>1. PICK b, m : b = c.bundle /\ m = Len(bundle.specs)
  OBVIOUS
<1>2. GoodBundle(bundle) /\ m \in Nat /\ DOMAIN bundle.specs = 1..m
  BY <1>1, BundlesAre
<1>3. DOMAIN runs = 1..m
  BY <1>2
<1>4. ASSUME NEW k \in 1..m
      PROVE  NoHindsight(runs[k])
  <2>1. PICK g, symbols, ds, identity, r :
           /\ g = range[k] /\ symbols = DOMAIN bundle.series /\ ds = _segment_dataset(bundle, k)
           /\ identity = Identity(c.runs[k], k) /\ r = runs[k]
    OBVIOUS
  <2>2. r = build_historical_backtest_run(identity, ds, Of(b, g, symbols))
    BY <1>1, <1>2, <2>1
  <2>3. RangeFits(g, bars_per_instrument(bundle.series))
    BY <1>2, <2>1, WindowRangesFit
  <2>4. ds = Slice(bundle, g, symbols)
    BY <2>1 DEF _segment_dataset
  <2>5. HistoricalDataset(ds)
    BY <1>2, <2>1 DEF Runnable
  <2>6. symbols \in SUBSET DOMAIN bundle.series /\ b \in DOMAIN Bundles /\ bundle = Bundles[b]
    BY <1>1, <2>1
  <2>7. NoHindsight(r)
    BY <2>2, <2>3, <2>4, <2>5, <2>6, SliceRunIsFree
  <2>. QED  BY <2>1, <2>7
<1>. QED  BY <1>2, <1>3, <1>4, RunCallsFit

\* The runs of a survivorship study, in the windows that have one.
LEMMA SurvivorshipRunsAreFree ==
    ASSUME NEW c, c.bundle \in DOMAIN Bundles, c.manifest \in DOMAIN Manifests,
           NEW bundle, bundle = Bundles[c.bundle], NEW master, master = Masters[c.master],
           NEW manifest, manifest = Manifests[c.manifest],
           SurvivorshipBuildable(bundle, master, manifest),
           NEW runs, runs = SurvivorshipRuns(c)
    PROVE  CallsFit(CallsFor(runs))
<1>1. PICK b, m, range : b = c.bundle /\ m = Len(bundle.specs) /\ range = _window_bar_ranges(bundle)
  OBVIOUS
<1>2. GoodBundle(bundle) /\ m \in Nat /\ DOMAIN bundle.specs = 1..m
  BY <1>1, BundlesAre
<1>. DEFINE ds(k) == SurvivorshipDataset(bundle, master, manifest, k)
            id(k) == Identity(c.base + k, k)
            universe(k) == WindowUniverseSnapshot(bundle, master, manifest, k)
<1>3. runs = [k \in 1..m |-> IF DOMAIN ds(k) = {} THEN NoRun
                             ELSE build_historical_backtest_run(id(k), ds(k), Of(b, range[k], DOMAIN ds(k)))]
  BY <1>1, <1>2 DEF SurvivorshipRuns
<1>4. DOMAIN runs = 1..m
  BY <1>3
<1>5. /\ validate_against_master(manifest, master) /\ _validate_bundle_windows(bundle)
      /\ \A k \in 1..m : universe(k).evaluated # {} => Runnable(ds(k))
  BY <1>2 DEF SurvivorshipBuildable
<1>6. ASSUME NEW k \in 1..m, runs[k].gov # 0
      PROVE  NoHindsight(runs[k])
  <2>1. PICK g, d, i, u, r : g = range[k] /\ d = ds(k) /\ i = id(k) /\ u = universe(k) /\ r = runs[k]
    OBVIOUS
  <2>2. r = IF DOMAIN d = {} THEN NoRun ELSE build_historical_backtest_run(i, d, Of(b, g, DOMAIN d))
    BY <1>3, <2>1
  <2>3. DOMAIN d # {} /\ r = build_historical_backtest_run(i, d, Of(b, g, DOMAIN d))
    <3>1. NoRun.gov = 0
      BY DEF NoRun
    <3>2. r # NoRun
      BY <1>6, <2>1, <3>1
    <3>. QED  BY <2>2, <3>2, Zenon
  <2>4. RangeFits(g, bars_per_instrument(bundle.series))
    BY <1>1, <1>2, <1>5, <2>1, WindowRangesFit
  <2>5. \A x \in u.evaluated : master[x] \in DOMAIN bundle.series
    <3>1. g = _window_bar_ranges(bundle)[k] /\ u = WindowUniverseSnapshot(bundle, master, manifest, k)
      BY <1>1, <2>1
    <3>2. k \in DOMAIN bundle.specs
      BY <1>2
    <3>. QED  BY <1>2, <1>5, <3>1, <3>2, UniverseSays
  <2>6. PICK symbols : symbols = {master[x] : x \in u.evaluated}
    OBVIOUS
  <2>7. d = Slice(bundle, g, symbols)
    BY <1>1, <2>1, <2>6 DEF SurvivorshipDataset
  <2>8. DOMAIN d = symbols
    BY <2>7 DEF Slice
  <2>9. HistoricalDataset(d)
    <3>1. u.evaluated # {}
      BY <2>3, <2>6, <2>8
    <3>2. universe(k).evaluated # {}
      BY <2>1, <3>1
    <3>3. Runnable(ds(k))
      BY <1>5, <3>2
    <3>4. Runnable(d)
      BY <2>1, <3>3
    <3>. QED  BY <3>4 DEF Runnable
  <2>. HIDE DEF ds, id, universe
  <2>10. symbols \in SUBSET DOMAIN bundle.series /\ b \in DOMAIN Bundles /\ bundle = Bundles[b]
    BY <1>1, <2>5, <2>6
  <2>11. r = build_historical_backtest_run(i, d, Of(b, g, symbols))
    BY <2>3, <2>8
  <2>12. NoHindsight(r)
    BY <2>4, <2>7, <2>9, <2>10, <2>11, SliceRunIsFree
  <2>. QED  BY <2>1, <2>12
<1>. HIDE DEF ds, id, universe
<1>. QED  BY <1>2, <1>4, <1>6, RunCallsFit

\* And one call more.
LEMMA AppendFits ==
    ASSUME NEW s, CallsFit(s), NEW a, CallFits(a)
    PROVE  CallsFit(Append(s, a))
<1>1. PICK S : s \in Seq(S)
  BY DEF CallsFit, IsSeq
<1>2. PICK t, m : t = Append(s, a) /\ m = Len(s)
  OBVIOUS
<1>3. s \in Seq(S \cup {a}) /\ a \in S \cup {a}
  BY <1>1
<1>4. /\ t \in Seq(S \cup {a}) /\ m \in Nat /\ DOMAIN s = 1..m /\ DOMAIN t = 1..(m + 1)
      /\ \A i \in 1..m : t[i] = s[i]
      /\ t[m + 1] = a
  BY <1>2, <1>3
<1>5. ASSUME NEW i \in 1..(m + 1)  PROVE CallFits(t[i])
  <2>1. CASE i \in 1..m
    BY <1>4, <2>1 DEF CallsFit
  <2>2. CASE i = m + 1
    BY <1>4, <2>2
  <2>. QED  BY <1>4, <2>1, <2>2
<1>6. IsSeq(t)
  BY <1>4 DEF IsSeq
<1>. QED  BY <1>2, <1>4, <1>5, <1>6 DEF CallsFit

\* A step that ends a call or drops those that are left.
LEMMA PopFits ==
    ASSUME HindsightInv, NEW p \in Procs, todo[p] # <<>>, NEW ok \in BOOLEAN, Goes(p, ok),
           \A f \in DOMAIN files' : ArtifactFits(files'[f])
    PROVE  HindsightInv'
<1>1. DOMAIN todo = Procs /\ \A q \in Procs : CallsFit(todo[q])
  BY DEF HindsightInv
<1>2. DOMAIN todo' = Procs
  BY <1>1 DEF Goes
<1>3. CallsFit(todo'[p])
  <2>1. todo'[p] = IF ok THEN Tail(todo[p]) ELSE <<>>
    BY <1>1 DEF Goes
  <2>2. CallsFit(Tail(todo[p])) /\ CallsFit(<<>>)
    BY <1>1, TailFits, ListsFit
  <2>. QED  BY <2>1, <2>2
<1>4. \A q \in Procs \ {p} : todo'[q] = todo[q]
  BY <1>1 DEF Goes
<1>5. \A q \in Procs : CallsFit(todo'[q])
  BY <1>1, <1>3, <1>4
<1>. QED  BY <1>2, <1>5 DEF HindsightInv

\* A call that stores anything, a failure and a crash.
LEMMA CallsGoOn ==
    ASSUME HindsightInv, NEW p \in Procs,
           \/ AddBacktestRun(p) \/ AddValidationStudy(p) \/ AddRobustnessStudy(p)
           \/ AddSurvivorshipStudy(p) \/ AddPortfolioReport(p) \/ AddDependenceReport(p)
           \/ AddStatistics(p) \/ AddSnapshot(p) \/ AddStress(p) \/ AddCorporateActions(p)
           \/ AddInstruments(p) \/ AddUniverse(p) \/ AddMembership(p) \/ WriteArtifact(p)
           \/ Raise(p) \/ Crash(p)
    PROVE  HindsightInv'
<1>1. \E ok \in BOOLEAN : Goes(p, ok)
  <2>1. \A ok : Goes(p, ok) => Goes(p, TRUE) \/ Goes(p, FALSE)
    BY DEF Goes
  <2>2. ~Crash(p) => \E ok : Goes(p, ok)
    BY DEF AddBacktestRun, AddValidationStudy, AddRobustnessStudy, AddSurvivorshipStudy, AddPortfolioReport,
           AddDependenceReport, AddStatistics, AddSnapshot, AddStress, AddCorporateActions, AddInstruments,
           AddUniverse, AddMembership, WriteArtifact, Raise, AddRow
  <2>3. Crash(p) => Goes(p, FALSE)
    BY DEF Crash, Goes
  <2>. QED  BY <2>1, <2>2, <2>3
<1>2. todo[p] # <<>>
  BY DEF AddBacktestRun, AddValidationStudy, AddRobustnessStudy, AddSurvivorshipStudy, AddPortfolioReport,
         AddDependenceReport, AddStatistics, AddSnapshot, AddStress, AddCorporateActions, AddInstruments,
         AddUniverse, AddMembership, WriteArtifact, Raise, Crash, AddRow, Next1
<1>3. \A f \in DOMAIN files : ArtifactFits(files[f])
  BY DEF HindsightInv
<1>4. \A f \in DOMAIN files' : ArtifactFits(files'[f])
  <2>1. CASE WriteArtifact(p)
    <3>1. PICK row : row = RowOf(p)
      OBVIOUS
    <3>2. Head(todo[p]).into = "file" /\ Head(todo[p]).row = row
      BY <2>1, <3>1 DEF WriteArtifact, Next1, RowOf
    <3>3. CallFits(Head(todo[p]))
      BY <1>2, TailFits DEF HindsightInv
    <3>4. ArtifactFits(row.artifact)
      BY <3>2, <3>3 DEF CallFits
    <3>5. files' = [f \in DOMAIN files \cup {row.path} |-> IF f = row.path THEN row.artifact ELSE files[f]]
      BY <2>1, <3>1 DEF WriteArtifact
    <3>. QED  BY <1>3, <3>4, <3>5
  <2>2. CASE ~WriteArtifact(p)
    <3>1. files' = files
      BY <2>2 DEF AddBacktestRun, AddValidationStudy, AddRobustnessStudy, AddSurvivorshipStudy, AddPortfolioReport,
             AddDependenceReport, AddStatistics, AddSnapshot, AddStress, AddCorporateActions, AddInstruments,
             AddUniverse, AddMembership, Raise, Crash, AddRow
    <3>. QED  BY <1>3, <3>1
  <2>. QED  BY <2>1, <2>2
<1>. QED  BY <1>1, <1>2, <1>4, PopFits

\* A command that starts with calls that fit.
LEMMA BeginFits ==
    ASSUME HindsightInv, NEW p \in Procs, NEW calls, CallsFit(calls), Begin(p, calls)
    PROVE  HindsightInv'
<1>1. DOMAIN todo = Procs /\ \A q \in Procs : CallsFit(todo[q])
  BY DEF HindsightInv
<1>2. DOMAIN todo' = Procs /\ todo'[p] = calls /\ files' = files
  BY <1>1 DEF Begin
<1>3. \A q \in Procs \ {p} : todo'[q] = todo[q]
  BY <1>1 DEF Begin
<1>4. \A q \in Procs : CallsFit(todo'[q])
  BY <1>1, <1>2, <1>3
<1>. QED  BY <1>2, <1>4 DEF HindsightInv

\* A backtest, and the comparison of two of them.
LEMMA BacktestsFit ==
    ASSUME HindsightInv, NEW p \in Procs, NEW c,
           RunHistoricalBacktest(p, c) \/ RunCorporateActionSemanticsStress(p, c)
    PROVE  HindsightInv'
<1>1. \A f \in DOMAIN files : ArtifactFits(files[f])
  BY DEF HindsightInv
<1>2. ASSUME NEW f \in DOMAIN files, Runnable(files[f].series), NEW gov, NEW place
      PROVE  CallFits(Call("runs", ArtifactRun(gov, place, files[f])))
  <2>1. NoHindsight(ArtifactRun(gov, place, files[f]))
    BY <1>1, <1>2, ArtifactRunIsFree
  <2>. QED  BY <2>1 DEF CallFits, Call
<1>3. CASE RunHistoricalBacktest(p, c)
  <2>1. PICK call : call = Call("runs", ArtifactRun(c.gov, 1, files[c.path]))
    OBVIOUS
  <2>2. c.path \in DOMAIN files /\ Runnable(files[c.path].series) /\ Begin(p, <<call>>)
    BY <1>3, <2>1 DEF RunHistoricalBacktest
  <2>3. CallsFit(<<call>>)
    BY <1>2, <2>1, <2>2, ListsFit
  <2>. QED  BY <2>2, <2>3, BeginFits
<1>4. CASE RunCorporateActionSemanticsStress(p, c)
  <2>1. PICK first, second : /\ first = ArtifactRun(c.runs[1], 1, files[c.correct_path])
                             /\ second = ArtifactRun(c.runs[2], 2, files[c.naive_path])
    OBVIOUS
  <2>2. PICK a, b, d : /\ a = Call("runs", first) /\ b = Call("runs", second)
                       /\ d = Call("stresses", build_corporate_action_semantics_stress(Identity(c.gov, 0), first, second))
    OBVIOUS
  <2>3. /\ c.correct_path \in DOMAIN files /\ c.naive_path \in DOMAIN files
        /\ Runnable(files[c.correct_path].series) /\ Runnable(files[c.naive_path].series)
        /\ Begin(p, <<a, b, d>>)
    BY <1>4, <2>1, <2>2, Zenon DEF RunCorporateActionSemanticsStress
  <2>4. CallFits(a) /\ CallFits(b) /\ CallFits(d)
    BY <1>2, <2>1, <2>2, <2>3, QuietFits
  <2>. QED  BY <2>3, <2>4, ListsFit, BeginFits
<1>. QED  BY <1>3, <1>4

\* What commands ask for.
LEMMA CommandsAre ==
    ASSUME NEW p \in Procs, NEW c \in Commands[p]
    PROVE  CommandType(c)
  BY EvidenceAssumption

\* The three studies.
LEMMA StudiesFit ==
    ASSUME HindsightInv, NEW p \in Procs, NEW c \in Commands[p],
           \/ RunHistoricalValidationStudy(p, c) \/ RunHistoricalRobustnessStudy(p, c)
           \/ RunSurvivorshipAwareRobustnessStudy(p, c)
    PROVE  HindsightInv'
<1>1. CommandType(c)
  BY CommandsAre
<1>2. CASE RunHistoricalValidationStudy(p, c)
  <2>1. c.bundle \in DOMAIN Bundles
    BY <1>1, <1>2 DEF RunHistoricalValidationStudy, CommandType
  <2>2. PICK bundle, range : bundle = Bundles[c.bundle] /\ range = _segment_bar_ranges(bundle)
    OBVIOUS
  <2>3. PICK runs : runs = [k \in DOMAIN bundle.specs |->
                        build_historical_backtest_run(Identity(c.runs[k], k), _segment_dataset(bundle, k),
                                                      Of(c.bundle, range[k], DOMAIN bundle.series))]
    OBVIOUS
  <2>4. PICK call : call = Call("validations", build_validation_study(StudyIdentity(c.gov, 0, c.bundle), bundle, runs))
    OBVIOUS
  <2>5. /\ _validate_bundle_segments(bundle)
        /\ \A k \in DOMAIN bundle.specs : Runnable(_segment_dataset(bundle, k))
        /\ Begin(p, Append(CallsFor(runs), call))
    BY <1>2, <2>2, <2>3, <2>4, Zenon DEF RunHistoricalValidationStudy
  <2>6. CallsFit(CallsFor(runs))
    BY <2>1, <2>2, <2>3, <2>5, ValidationRunsAreFree
  <2>7. CallFits(call)
    BY <2>4, QuietFits
  <2>. QED  BY <2>5, <2>6, <2>7, AppendFits, BeginFits
<1>3. CASE RunHistoricalRobustnessStudy(p, c)
  <2>1. c.bundle \in DOMAIN Bundles
    BY <1>1, <1>3 DEF RunHistoricalRobustnessStudy, CommandType
  <2>2. PICK bundle, runs : bundle = Bundles[c.bundle] /\ runs = RobustnessRuns(c, c.base, 0)
    OBVIOUS
  <2>3. PICK call : call = Call("robustness", build_robustness_study(StudyIdentity(c.gov, 0, c.bundle), bundle, runs))
    OBVIOUS
  <2>4. /\ _validate_bundle_windows(bundle)
        /\ \A k \in DOMAIN bundle.specs : Runnable(_window_dataset(bundle, k))
        /\ Begin(p, Append(CallsFor(runs), call))
    BY <1>3, <2>2, <2>3, Zenon DEF RunHistoricalRobustnessStudy
  <2>5. CallsFit(CallsFor(runs))
    BY <2>1, <2>2, <2>4, RobustnessRunsAreFree
  <2>6. CallFits(call)
    BY <2>3, QuietFits
  <2>. QED  BY <2>4, <2>5, <2>6, AppendFits, BeginFits
<1>4. CASE RunSurvivorshipAwareRobustnessStudy(p, c)
  <2>1. c.bundle \in DOMAIN Bundles /\ c.manifest \in DOMAIN Manifests
    BY <1>1, <1>4 DEF RunSurvivorshipAwareRobustnessStudy, CommandType
  <2>2. PICK bundle, master, manifest, places : /\ bundle = Bundles[c.bundle] /\ master = Masters[c.master]
                                                /\ manifest = Manifests[c.manifest] /\ places = Len(bundle.specs)
    OBVIOUS
  <2>3. PICK runs, stressed : /\ runs = SurvivorshipRuns(c)
                              /\ stressed = RobustnessRuns(c, c.stress_base, places)
    OBVIOUS
  <2>4. PICK stress, identity, study :
           /\ stress = build_robustness_study(StudyIdentity(c.stress, 2 * places + 1, c.bundle), bundle, stressed)
           /\ identity = [gov |-> c.gov, runtime |-> <<started + 1, 0>>, bundle |-> c.bundle,
                          universe |-> manifest.universe, stress |-> c.stress, policy |-> Frozen,
                          master |-> c.master, manifest |-> c.manifest]
           /\ study = build_survivorship_aware_robustness_study(
                         [gov |-> c.gov, runtime |-> <<started + 1, 0>>, bundle |-> c.bundle,
                          universe |-> manifest.universe, stress |-> c.stress, policy |-> Frozen,
                          master |-> c.master, manifest |-> c.manifest], bundle, master, manifest, runs)
    OBVIOUS
  <2>5. PICK i, u, m, r, s : /\ i = Call("instruments", master) /\ u = Call("universes", manifest.universe)
                             /\ m = Call("memberships", manifest)
                             /\ r = Call("robustness", stress) /\ s = Call("survivorship", study)
    OBVIOUS
  <2>6. SurvivorshipBuildable(bundle, master, manifest)
    BY <1>4, <2>2, Zenon DEF RunSurvivorshipAwareRobustnessStudy
  <2>7. Begin(p, <<i, u, m>> \o CallsFor(runs) \o CallsFor(stressed) \o <<r, s>>)
    BY <1>4, <2>2, <2>3, <2>4, <2>5, Zenon DEF RunSurvivorshipAwareRobustnessStudy
  <2>8. CallsFit(CallsFor(runs))
    BY <2>1, <2>2, <2>3, <2>6, SurvivorshipRunsAreFree
  <2>9. CallsFit(CallsFor(stressed))
    <3>1. /\ _validate_bundle_windows(bundle)
          /\ \A k \in DOMAIN bundle.specs : Runnable(_window_dataset(bundle, k))
      BY <2>6 DEF SurvivorshipBuildable
    <3>. QED  BY <2>1, <2>2, <2>3, <3>1, RobustnessRunsAreFree
  <2>10. CallsFit(<<i, u, m>>) /\ CallsFit(<<r, s>>)
    BY <2>5, QuietFits, ListsFit
  <2>11. PICK a, b, d, e : a = <<i, u, m>> /\ b = CallsFor(runs) /\ d = CallsFor(stressed) /\ e = <<r, s>>
    OBVIOUS
  <2>12. CallsFit(a) /\ CallsFit(b) /\ CallsFit(d) /\ CallsFit(e) /\ Begin(p, a \o b \o d \o e)
    BY <2>7, <2>8, <2>9, <2>10, <2>11
  <2>13. CallsFit(a \o b)
    BY <2>12, JoinedFit
  <2>14. CallsFit(a \o b \o d)
    BY <2>12, <2>13, JoinedFit
  <2>15. CallsFit(a \o b \o d \o e)
    BY <2>12, <2>14, JoinedFit
  <2>. QED  BY <2>12, <2>15, BeginFits
<1>. QED  BY <1>2, <1>3, <1>4

\* The reports computed from a study.
LEMMA ReportsFit ==
    ASSUME HindsightInv, NEW p \in Procs, NEW c,
           \/ RunPortfolioHistoricalEvidence(p, c) \/ RunPortfolioDependenceEvidence(p, c)
           \/ RunStatisticalEvidenceAnalysis(p, c)
    PROVE  HindsightInv'
<1>1. \E table \in {"portfolios", "dependences", "statistics"} : \E row : Begin(p, <<Call(table, row)>>)
  <2>1. RunPortfolioHistoricalEvidence(p, c) => \E row : Begin(p, <<Call("portfolios", row)>>)
    BY DEF RunPortfolioHistoricalEvidence
  <2>2. RunPortfolioDependenceEvidence(p, c) => \E row : Begin(p, <<Call("dependences", row)>>)
    BY DEF RunPortfolioDependenceEvidence
  <2>3. RunStatisticalEvidenceAnalysis(p, c) => \E row : Begin(p, <<Call("statistics", row)>>)
    BY DEF RunStatisticalEvidenceAnalysis
  <2>. QED  BY <2>1, <2>2, <2>3
<1>2. PICK table \in {"portfolios", "dependences", "statistics"} : \E row : Begin(p, <<Call(table, row)>>)
  BY <1>1
<1>3. PICK row : Begin(p, <<Call(table, row)>>)
  BY <1>2
<1>4. CallsFit(<<Call(table, row)>>)
  BY QuietFits, ListsFit
<1>. QED  BY <1>3, <1>4, BeginFits

\* The calls of an import of a series of whole bars.
LEMMA ImportFits ==
    ASSUME NEW dataset, NEW version, NEW sent, DatasetType(SeriesOf(sent)), NEW master, NEW path,
           NEW raw, raw = import_raw_historical_dataset_snapshot(dataset, version, sent)
    PROVE  CallsFit(ImportCalls(raw, master, path))
<1>1. PICK a, b, d : /\ a = Call("instruments", master) /\ b = Call("snapshots", raw)
                     /\ d = Call("file", [path |-> path, artifact |-> raw.sha])
  OBVIOUS
<1>2. CallFits(a) /\ CallFits(b)
  BY <1>1, QuietFits
<1>3. ArtifactFits(raw.sha)
  BY DEF import_raw_historical_dataset_snapshot, _canonical_artifact_bytes, ArtifactFits
<1>4. CallFits(d)
  BY <1>1, <1>3 DEF CallFits, Call
<1>5. ImportCalls(raw, master, path) = <<a, b, d>>
  BY <1>1, Zenon DEF ImportCalls
<1>6. CallsFit(<<a, b, d>>)
  BY <1>2, <1>4, ListsFit
<1>. QED  BY <1>5, <1>6

\* An import of files, with the splits taken out of them or refused.
LEMMA FilesImported ==
    ASSUME HindsightInv, NEW p \in Procs, NEW c \in Commands[p], ImportHistoricalDatasetSnapshot(p, c)
    PROVE  HindsightInv'
<1>1. PICK master, manifest, raw : /\ master = Masters[c.master] /\ manifest = c.actions
                                   /\ raw = import_raw_historical_dataset_snapshot(c.dataset, c.version, c.files)
  OBVIOUS
<1>2. /\ c.kind = "import" /\ CorporateActionManifest(manifest)
      /\ Begin(p, ImportCalls(raw, master, c.path) \o AdjustmentCalls(c, raw, master))
  BY <1>1, Zenon DEF ImportHistoricalDatasetSnapshot
<1>3. /\ IsFiniteSet(c.files) /\ IsFiniteSet(manifest.actions)
      /\ \A part \in c.files : part.symbol \in Nat /\ part.bars \in Seq(BarType)
      /\ \A a \in manifest.actions : a.new \in Nat /\ a.old \in Nat
  <2>1. CommandType(c)
    BY CommandsAre
  <2>2. ImportType(c.files, c.actions.actions)
    BY <1>2, <2>1, Zenon DEF CommandType
  <2>3. ImportType(c.files, manifest.actions)
    BY <1>1, <2>2
  <2>. QED  BY <2>3, Zenon DEF ImportType
<1>4. DatasetType(SeriesOf(c.files))
  BY <1>3, SeriesFit
<1>5. CallsFit(ImportCalls(raw, master, c.path))
  BY <1>1, <1>4, ImportFits
<1>6. \A a \in manifest.actions : a.new \in Nat \ {0} /\ a.old \in Nat \ {0}
  BY <1>2, <1>3 DEF CorporateActionManifest, SplitAction
<1>7. CallsFit(AdjustmentCalls(c, raw, master))
  <2>1. PICK adjusted, first, second, third :
           /\ adjusted = derive_split_adjusted_snapshot(raw, c.adjusted, manifest, master)
           /\ first = Call("actions", manifest)
           /\ second = Call("snapshots", derive_split_adjusted_snapshot(raw, c.adjusted, manifest, master))
           /\ third = Call("file", [path |-> c.adjusted_path,
                                    artifact |-> derive_split_adjusted_snapshot(raw, c.adjusted, manifest, master).sha])
    OBVIOUS
  <2>2. \/ AdjustmentCalls(c, raw, master) = <<Call("raise", 0)>>
        \/ AdjustmentCalls(c, raw, master) = <<first, second, third>>
    BY <1>1, <2>1, Zenon DEF AdjustmentCalls
  <2>3. CallsFit(<<Call("raise", 0)>>)
    BY QuietFits, ListsFit
  <2>4. CallFits(first) /\ CallFits(second)
    BY <2>1, QuietFits
  <2>5. CallFits(third)
    <3>1. raw.sha.series = SeriesOf(c.files)
      BY <1>1 DEF import_raw_historical_dataset_snapshot, _canonical_artifact_bytes
    <3>2. PICK series : series = Adjusted(raw.sha.series, manifest, master)
      OBVIOUS
    <3>3. DatasetType(series)
      BY <1>3, <1>4, <1>6, <3>1, <3>2, AdjustedFits
    <3>4. adjusted.sha = [dataset |-> raw.dataset, version |-> c.adjusted, series |-> series]
      BY <2>1, <3>2 DEF derive_split_adjusted_snapshot, _canonical_artifact_bytes
    <3>5. ArtifactFits(adjusted.sha)
      BY <3>3, <3>4 DEF ArtifactFits
    <3>6. third.into = "file" /\ third.row.artifact = adjusted.sha
      BY <2>1 DEF Call
    <3>. QED  BY <3>5, <3>6 DEF CallFits
  <2>6. CallsFit(<<first, second, third>>)
    BY <2>4, <2>5, ListsFit
  <2>. QED  BY <2>2, <2>3, <2>6
<1>8. CallsFit(ImportCalls(raw, master, c.path) \o AdjustmentCalls(c, raw, master))
  BY <1>5, <1>7, JoinedFit
<1>. QED  BY <1>2, <1>8, BeginFits

\* An import of what a vendor answered.
LEMMA AnswersImported ==
    ASSUME HindsightInv, NEW p \in Procs, NEW c \in Commands[p], AcquireMarketDataSnapshot(p, c)
    PROVE  HindsightInv'
<1>. DEFINE bars(u) == translate_yahoo_chart_json_to_pipeline_csv(c.responses[u].rows)
            part(u) == [symbol |-> u, bars |-> bars(u)]
            sent == {[symbol |-> u, bars |-> translate_yahoo_chart_json_to_pipeline_csv(c.responses[u].rows)] :
                        u \in DOMAIN c.responses}
            raw == import_raw_historical_dataset_snapshot(c.dataset, c.version, sent)
            master == build_trivial_instrument_master(DOMAIN c.responses)
<1>1. c.kind = "acquire" /\ Begin(p, ImportCalls(raw, master, c.path))
  BY Zenon DEF AcquireMarketDataSnapshot
<1>2. /\ IsFiniteSet(DOMAIN c.responses) /\ DOMAIN c.responses \subseteq Nat
      /\ \A u \in DOMAIN c.responses : ResponseType(c.responses[u])
  BY <1>1, CommandsAre DEF CommandType
<1>3. \A u \in DOMAIN c.responses : bars(u) \in Seq(BarType)
  BY <1>2, TranslatedFits
<1>. HIDE DEF bars
<1>4. sent = {part(u) : u \in DOMAIN c.responses}
  BY Zenon DEF bars
<1>5. IsFiniteSet(sent)
  <2>1. PICK f, S : f = [u \in DOMAIN c.responses |-> part(u)] /\ S = DOMAIN c.responses
    OBVIOUS
  <2>2. {f[u] : u \in S} = {part(u) : u \in DOMAIN c.responses}
    BY <2>1
  <2>3. IsFiniteSet({f[u] : u \in S})
    BY <1>2, <2>1, FiniteImage
  <2>. QED  BY <1>4, <2>2, <2>3
<1>6. \A x \in sent : x.symbol \in Nat /\ x.bars \in Seq(BarType)
  BY <1>2, <1>3, <1>4
<1>7. DatasetType(SeriesOf(sent))
  <2>. HIDE DEF sent
  <2>. QED  BY <1>5, <1>6, SeriesFit
<1>8. CallsFit(ImportCalls(raw, master, c.path))
  <2>. HIDE DEF sent, master
  <2>. QED  BY <1>7, ImportFits
<1>. QED  BY <1>1, <1>8, BeginFits

\* Initially nothing is stored and nothing is left to do.
LEMMA HindsightInit == EvidenceInit => HindsightInv
<1>. SUFFICES ASSUME EvidenceInit PROVE HindsightInv
  OBVIOUS
<1>1. DOMAIN files = {}
  BY NoCalls DEF EvidenceInit
<1>2. DOMAIN todo = Procs /\ \A p \in Procs : todo[p] = <<>>
  BY DEF EvidenceInit
<1>. QED  BY <1>1, <1>2, ListsFit DEF HindsightInv

\* Every step keeps the files and the calls left free of hindsight.
LEMMA HindsightGoesOn == HindsightInv /\ [EvidenceNext]_evidencevars => HindsightInv'
<1>. SUFFICES ASSUME HindsightInv, [EvidenceNext]_evidencevars PROVE HindsightInv'
  OBVIOUS
<1>1. CASE EvidenceNext
  <2>1. PICK p \in Procs :
           \/ AddBacktestRun(p) \/ AddValidationStudy(p) \/ AddRobustnessStudy(p)
           \/ AddSurvivorshipStudy(p) \/ AddPortfolioReport(p) \/ AddDependenceReport(p)
           \/ AddStatistics(p) \/ AddSnapshot(p) \/ AddStress(p) \/ AddCorporateActions(p)
           \/ AddInstruments(p) \/ AddUniverse(p) \/ AddMembership(p) \/ WriteArtifact(p)
           \/ Raise(p) \/ Crash(p)
           \/ \E c \in Commands[p] :
                 \/ RunHistoricalBacktest(p, c) \/ RunHistoricalValidationStudy(p, c)
                 \/ RunHistoricalRobustnessStudy(p, c) \/ RunSurvivorshipAwareRobustnessStudy(p, c)
                 \/ RunPortfolioHistoricalEvidence(p, c) \/ RunPortfolioDependenceEvidence(p, c)
                 \/ RunStatisticalEvidenceAnalysis(p, c) \/ RunCorporateActionSemanticsStress(p, c)
                 \/ ImportHistoricalDatasetSnapshot(p, c) \/ AcquireMarketDataSnapshot(p, c)
    BY <1>1 DEF EvidenceNext
  <2>2. CASE \E c \in Commands[p] :
                 \/ RunHistoricalBacktest(p, c) \/ RunHistoricalValidationStudy(p, c)
                 \/ RunHistoricalRobustnessStudy(p, c) \/ RunSurvivorshipAwareRobustnessStudy(p, c)
                 \/ RunPortfolioHistoricalEvidence(p, c) \/ RunPortfolioDependenceEvidence(p, c)
                 \/ RunStatisticalEvidenceAnalysis(p, c) \/ RunCorporateActionSemanticsStress(p, c)
                 \/ ImportHistoricalDatasetSnapshot(p, c) \/ AcquireMarketDataSnapshot(p, c)
    BY <2>2, BacktestsFit, StudiesFit, ReportsFit, FilesImported, AnswersImported
  <2>. QED  BY <2>1, <2>2, CallsGoOn
<1>2. CASE UNCHANGED evidencevars
  BY <1>2 DEF HindsightInv, evidencevars
<1>. QED  BY <1>1, <1>2

\* Always, the dataset files hold whole bars and no run still to be stored
\* knows its future.
LEMMA HindsightInvariant == EvidenceSpec => []HindsightInv
  BY HindsightInit, HindsightGoesOn, PTL DEF EvidenceSpec

\* No trade of a run any command stores is planned with a bar after its cutoff,
\* nor settled with a bar after its exit: had every later bar been different, it
\* would have been the same trade.
THEOREM TradesKnowNoFuture == EvidenceSpec => TradesAreFreeOfHindsight
<1>1. HindsightInv' => \A p \in Procs : todo[p] = <<>> =>
          \A i \in {j \in DOMAIN todo'[p] : todo'[p][j].into = "runs"} :
             FreeOfHindsight(DatasetOf(todo'[p][i].row), todo'[p][i].row.trades)
  <2>. SUFFICES ASSUME HindsightInv', NEW p \in Procs, NEW i \in DOMAIN todo'[p], todo'[p][i].into = "runs"
                PROVE  FreeOfHindsight(DatasetOf(todo'[p][i].row), todo'[p][i].row.trades)
    OBVIOUS
  <2>1. CallsFit(todo'[p])
    BY DEF HindsightInv
  <2>2. PICK call : call = todo'[p][i]
    OBVIOUS
  <2>3. NoHindsight(call.row)
    BY <2>1, <2>2 DEF CallsFit, CallFits
  <2>. QED  BY <2>2, <2>3 DEF NoHindsight
<1>. QED  BY <1>1, HindsightInvariant, PTL DEF EvidenceSpec, TradesAreFreeOfHindsight
=============================================================================
