---------------------------- MODULE MemoryProofs ----------------------------
(***************************************************************************)
(* Proofs about Memory, for any memory, any number of threads, spaces and  *)
(* fpages, and any layout of the pools.                                    *)
(***************************************************************************)
EXTENDS Memory, FiniteSetTheorems, SequenceTheorems, TLAPS

INSTANCE Chains WITH Node <- Slots, Nil <- NULL, Size <- MaxFpages

-----------------------------------------------------------------------------
(* The tables *)

Fpages == [base : Nat, size : Nat, always : BOOLEAN, clone : BOOLEAN]
Tables ==
    [fp : [Slots -> Fpages], used : SUBSET Slots, chain : [Spaces -> Seq(Slots)],
     mapNext : [Slots -> Slots], mpuNext : [Slots -> Slots \cup {NULL}],
     mpuFirst : [Spaces -> Slots \cup {NULL}], shared : [Spaces -> Nat],
     live : SUBSET Spaces, fault : Faults]

\* All but the fields of S are the same.
Same(m, u, S) == \A x \in DOMAIN m \ S : u[x] = m[x]

LEMMA FaultyIs ==
    ASSUME NEW m \in Tables, NEW what \in Faults \ {"none"}, NEW u, u = Faulty(m, what)
    PROVE  u \in Tables /\ u.fault # "none" /\ u.fault \in {m.fault, what} /\ Same(m, u, {"fault"})
  BY DEF Faulty, Tables, Same

LEMMA BoundsAre ==
    ASSUME NEW m \in Tables, NEW f \in Slots
    PROVE  m.fp[f] \in Fpages /\ Base(m, f) \in Nat /\ End(m, f) \in Nat
  <1>1. m.fp[f] \in Fpages
    BY DEF Tables
  <1>2. m.fp[f].base \in Nat /\ m.fp[f].size \in Nat
    BY <1>1 DEF Fpages
  <1> QED
    BY <1>1, <1>2 DEF Base, End

-----------------------------------------------------------------------------
(* Sets of numbers, and sequences of slots *)

LEMMA SlotsAre ==
    /\ Slots \subseteq Nat /\ MaxFpages \in Nat /\ NULL \notin Slots
    /\ Spaces \subseteq Nat /\ NULL \notin Spaces
  BY MemoryAssumption DEF Slots, NULL

LEMMA FirstOfIs ==
    ASSUME NEW set \in SUBSET Nat, set # {}
    PROVE  FirstOf(set) \in set /\ \A j \in set : FirstOf(set) <= j
  BY LeastNatural DEF FirstOf

LEMMA LastOfIs ==
    ASSUME NEW set \in SUBSET Nat, set # {}, NEW b \in Nat, \A j \in set : j <= b
    PROVE  LastOf(set) \in set /\ \A j \in set : j <= LastOf(set)
  BY GreatestNatural DEF LastOf

Distinct(c) == \A j, k \in DOMAIN c : c[j] = c[k] => j = k

LEMMA SpliceIn ==
    ASSUME NEW c \in Seq(Slots), NEW new \in Seq(Slots), NEW k \in 1 .. Len(c) + 1
    PROVE  LET d == Before(c, k) \o new \o From(c, k)
           IN  /\ d \in Seq(Slots) /\ Len(d) = Len(c) + Len(new)
               /\ \A i \in 1 .. Len(d) :
                     d[i] = IF i < k THEN c[i]
                            ELSE IF i < k + Len(new) THEN new[i - k + 1] ELSE c[i - Len(new)]
  <1>0. k \in Nat /\ Len(c) \in Nat /\ Len(new) \in Nat /\ k >= 1 /\ k <= Len(c) + 1
    OBVIOUS
  <1>1. /\ Before(c, k) \in Seq(Slots) /\ Len(Before(c, k)) = k - 1
        /\ \A i \in 1 .. k - 1 : Before(c, k)[i] = c[i]
    BY DEF Before
  <1>2. /\ From(c, k) \in Seq(Slots) /\ Len(From(c, k)) = Len(c) - k + 1
        /\ \A i \in 1 .. Len(c) - k + 1 : From(c, k)[i] = c[k + i - 1]
    <2>1. k \in Int /\ Len(c) \in Int /\ \A i \in k .. Len(c) : c[i] \in Slots
      OBVIOUS
    <2> QED
      BY <2>1, SubSeqProperties DEF From
  <1>3. PICK x : x = Before(c, k) \o new
    OBVIOUS
  <1>4. /\ x \in Seq(Slots) /\ Len(x) = k - 1 + Len(new)
        /\ \A i \in 1 .. k - 1 + Len(new) : x[i] = IF i <= k - 1 THEN Before(c, k)[i] ELSE new[i - (k - 1)]
    <2>1. PICK b \in Seq(Slots) : b = Before(c, k)
      BY <1>1
    <2>2. x = b \o new /\ Len(b) = k - 1
      BY <2>1, <1>1, <1>3
    <2>3. /\ b \o new \in Seq(Slots) /\ Len(b \o new) = Len(b) + Len(new)
          /\ \A i \in 1 .. Len(b) + Len(new) : (b \o new)[i] = IF i <= Len(b) THEN b[i] ELSE new[i - Len(b)]
      BY ConcatProperties
    <2> QED
      BY <2>1, <2>2, <2>3
  <1>5. PICK d : d = x \o From(c, k)
    OBVIOUS
  <1>6. /\ d \in Seq(Slots) /\ Len(d) = Len(x) + Len(From(c, k))
        /\ \A i \in 1 .. Len(x) + Len(From(c, k)) : d[i] = IF i <= Len(x) THEN x[i] ELSE From(c, k)[i - Len(x)]
    BY <1>2, <1>4, <1>5, ConcatProperties
  <1>7. Len(d) = Len(c) + Len(new)
    BY <1>0, <1>2, <1>4, <1>6
  <1>8. ASSUME NEW i \in 1 .. Len(d)
        PROVE  d[i] = IF i < k THEN c[i]
                      ELSE IF i < k + Len(new) THEN new[i - k + 1] ELSE c[i - Len(new)]
    <2>1. CASE i < k
      BY <2>1, <1>0, <1>1, <1>4, <1>6, <1>7
    <2>2. CASE i >= k /\ i < k + Len(new)
      BY <2>2, <1>0, <1>1, <1>4, <1>6, <1>7
    <2>3. CASE i >= k + Len(new)
      <3>1. i \in Nat /\ i <= Len(c) + Len(new)
        BY <1>7, <1>0
      <3>2. i - Len(x) = i - k + 1 - Len(new) /\ i - Len(x) \in 1 .. Len(c) - k + 1
        BY <2>3, <1>0, <1>4, <3>1
      <3>3. d[i] = From(c, k)[i - Len(x)]
        <4>1. i \in 1 .. Len(x) + Len(From(c, k)) /\ ~(i <= Len(x))
          BY <2>3, <1>0, <1>2, <1>4, <3>1
        <4> QED
          BY <4>1, <1>6
      <3>4. d[i] = c[k + (i - Len(x)) - 1]
        BY <3>2, <3>3, <1>2
      <3>5. k + (i - Len(x)) - 1 = i - Len(new)
        BY <3>2, <3>1, <1>0
      <3> QED
        BY <3>4, <3>5, <2>3, <1>0, <3>1
    <2> QED
      BY <2>1, <2>2, <2>3, <1>0, <1>7
  <1> QED
    BY <1>3, <1>5, <1>6, <1>7, <1>8

\* d is c with v in front of its k-th.
Spliced(c, v, k, d) ==
    /\ d \in Seq(Slots) /\ Len(d) = Len(c) + Len(v)
    /\ \A i \in 1 .. Len(d) :
          d[i] = IF i < k THEN c[i]
                 ELSE IF i < k + Len(v) THEN v[i - k + 1] ELSE c[i - Len(v)]

LEMMA SplicedIs ==
    ASSUME NEW c \in Seq(Slots), NEW v \in Seq(Slots), NEW k \in 1 .. Len(c) + 1,
           NEW d, d = Before(c, k) \o v \o From(c, k)
    PROVE  Spliced(c, v, k, d)
  BY SpliceIn DEF Spliced

-----------------------------------------------------------------------------
(* Tiles *)

LEMMA PowerIs ==
    /\ Power \in [0 .. Top -> Nat \ {0}] /\ Power[0] = 1
    /\ \A k \in 1 .. Top : Power[k] = 2 * Power[k - 1]
  <1> DEFINE Step(p) == [k \in 0 .. Top |-> IF k = 0 THEN 1 ELSE 2 * p[k - 1]]
             e == CHOOSE p : p = Step(p)
             X == Nat \ {0}
             h == [x \in X |-> 2 * x]
  <1>1. Top \in Nat /\ 1 \in X /\ h \in [X -> X] /\ \A x \in X : h[x] = 2 * x
    BY MemoryAssumption
  <1> HIDE DEF h, X, Step, e
  <1>2. PICK f : Repeats(f, X, 1, h, Top)
    BY <1>1, Repeated
  <1>3. /\ f \in [0 .. Top -> X] /\ f[0] = 1
        /\ \A k \in 1 .. Top : k - 1 \in 0 .. Top /\ f[k] = 2 * f[k - 1]
    BY <1>1, <1>2 DEF Repeats
  <1> USE DEF Step, e
  <1>4. f = Step(f)
    BY <1>1, <1>3
  <1>5. e = Step(e)
    BY <1>4
  <1>6. Power = e
    BY DEF Power
  <1> HIDE DEF e
  <1>7. e[0] = 1 /\ \A k \in 1 .. Top : e[k] = 2 * e[k - 1]
    BY <1>1, <1>5
  <1>8. e = [k \in 0 .. Top |-> e[k]]
    BY <1>5
  <1>9. \A k \in 0 .. Top : e[k] \in X
    <2>1. \A k \in 1 .. Top : e[k - 1] \in X => e[k] \in X
      BY <1>7 DEF X
    <2> QED
      BY <1>1, <1>7, <2>1, StaysIn
  <1> QED
    BY <1>6, <1>7, <1>8, <1>9 DEF X

\* A power of two divides those that are not less.
LEMMA PowersDivide ==
    ASSUME NEW p \in PowersOf2, NEW q \in PowersOf2, p <= q
    PROVE  \E c \in Nat \ {0} : q = c * p
  <1>1. PICK j \in 0 .. Top : p = Power[j]
    BY DEF PowersOf2
  <1>2. PICK k \in 0 .. Top : q = Power[k]
    BY DEF PowersOf2
  <1> DEFINE Above(i, l) == \E c \in Nat \ {0} : Power[l] = c * Power[i]
  <1>3. ASSUME NEW i \in 0 .. Top
        PROVE  \A l \in i .. Top : Above(i, l)
    <2> DEFINE S == {n \in Nat : i + n <= Top => Above(i, i + n)}
    <2>1. 0 \in S
      <3>1. Power[i] = 1 * Power[i]
        BY PowerIs
      <3> QED
        BY <3>1
    <2>2. ASSUME NEW n \in Nat, n \in S, i + (n + 1) <= Top
          PROVE  Above(i, i + (n + 1))
      <3>1. PICK c \in Nat \ {0} : Power[i + n] = c * Power[i]
        BY <2>2, MemoryAssumption
      <3>2. /\ Power[i + (n + 1)] = 2 * Power[i + n] /\ Power[i] \in Nat
        <4>1. i + (n + 1) \in 1 .. Top /\ (i + (n + 1)) - 1 = i + n
          BY <2>2, MemoryAssumption
        <4> QED
          BY <4>1, PowerIs
      <3>3. 2 * (c * Power[i]) = (2 * c) * Power[i]
        BY <3>2
      <3>4. Power[i + (n + 1)] = (2 * c) * Power[i] /\ 2 * c \in Nat \ {0}
        BY <3>1, <3>2, <3>3
      <3> QED
        BY <3>4
    <2> HIDE DEF S, Above
    <2>3. \A n \in Nat : n \in S
      <3>1. \A n \in Nat : n \in S => n + 1 \in S
        BY <2>2 DEF S
      <3> QED
        BY <2>1, <3>1, SetInduction
    <2>4. ASSUME NEW l \in i .. Top
          PROVE  Above(i, l)
      <3>1. l - i \in Nat /\ i + (l - i) = l /\ l <= Top
        BY MemoryAssumption
      <3> QED
        BY <2>3, <3>1 DEF S
    <2> QED
      BY <2>4
  <1>4. p \in Nat \ {0} /\ q \in Nat \ {0}
    BY <1>1, <1>2, PowerIs
  <1>5. CASE j <= k
    BY <1>1, <1>2, <1>3, <1>5
  <1>6. CASE k <= j
    <2>1. PICK c \in Nat \ {0} : p = c * q
      BY <1>1, <1>2, <1>3, <1>6
    <2>2. c * q >= q
      BY <1>4
    <2>3. q = 1 * p
      BY <1>4, <2>1, <2>2
    <2> QED
      BY <2>3
  <1> QED
    BY <1>5, <1>6

LEMMA Multiples ==
    /\ \A n \in Nat, p \in Nat \ {0} : n % p = 0 => \E q \in Nat : n = q * p
    /\ \A q \in Nat, p \in Nat \ {0} : (q * p) % p = 0
  OBVIOUS

LEMMA Transitive ==
    ASSUME NEW a \in Nat, NEW b \in Nat \ {0}, NEW p \in Nat \ {0}, a % b = 0, b % p = 0
    PROVE  a % p = 0
  <1>1. PICK q \in Nat : a = q * b
    BY Multiples
  <1>2. PICK d \in Nat : b = d * p
    BY Multiples
  <1>3. a = (q * d) * p /\ q * d \in Nat
    BY <1>1, <1>2
  <1> QED
    BY <1>3, Multiples

LEMMA PowersAre ==
    /\ PowersOf2 \subseteq 1 .. Top /\ 1 \in PowersOf2
    /\ \A p, q \in PowersOf2 : p <= q => q % p = 0
  <1>1. 1 \in PowersOf2
    BY PowerIs, MemoryAssumption DEF PowersOf2
  <1>2. ASSUME NEW p \in PowersOf2, NEW q \in PowersOf2, p <= q
        PROVE  q % p = 0
    <2>1. PICK c \in Nat \ {0} : q = c * p
      BY <1>2, PowersDivide
    <2>2. p \in Nat \ {0}
      BY MemoryAssumption DEF PowersOf2
    <2> QED
      BY <2>1, <2>2, Multiples
  <1> QED
    BY <1>1, <1>2 DEF PowersOf2

LEMMA LowestBitIs ==
    ASSUME NEW a \in Nat \ {0}
    PROVE  /\ LowestBit(a) \in PowersOf2 /\ a % LowestBit(a) = 0
           /\ LowestBit(a) \in 1 .. a
           /\ \A p \in PowersOf2 : a % p = 0 => p <= LowestBit(a)
  <1> DEFINE set == {p \in PowersOf2 : a % p = 0}
  <1>1. set \in SUBSET Nat /\ 1 \in set /\ \A p \in set : p <= Top
    <2>1. Top \in Nat /\ 1 \in PowersOf2 /\ \A p \in PowersOf2 : p \in Nat /\ p <= Top
      BY PowersAre, MemoryAssumption
    <2>2. a % 1 = 0
      OBVIOUS
    <2> QED
      BY <2>1, <2>2
  <1>2. LastOf(set) \in set /\ \A p \in set : p <= LastOf(set)
    <2> HIDE DEF set
    <2> QED
      BY <1>1, LastOfIs, MemoryAssumption
  <1>3. LowestBit(a) = LastOf(set)
    <2>1. a # 0
      OBVIOUS
    <2> QED
      BY <2>1, Zenon DEF LowestBit
  <1> HIDE DEF LowestBit
  <1>4. \A p \in set : p \in 1 .. a
    <2>1. ASSUME NEW p \in set
          PROVE  p \in 1 .. a
      <3>1. p \in Nat \ {0} /\ a % p = 0
        BY PowersAre, MemoryAssumption
      <3> QED
        BY <3>1
    <2> QED
      BY <2>1
  <1> QED
    BY <1>2, <1>3, <1>4

\* A tile fits, and if the memory is not greater than all there is, it is a
\* region the MPU can hold; what divides the memory divides the tile.
Fitting(b, n, tile) ==
    /\ tile \in 1 .. n
    /\ n <= Top => /\ tile \in PowersOf2 /\ b % tile = 0
                   /\ \A p \in PowersOf2 : b % p = 0 /\ n % p = 0 => tile % p = 0

LEMMA TileIs ==
    ASSUME NEW b \in Nat, NEW n \in Nat \ {0}
    PROVE  Fitting(b, n, Tile(b, n))
  <1>1. /\ LowestBit(n) \in PowersOf2 /\ n % LowestBit(n) = 0 /\ LowestBit(n) \in 1 .. n
        /\ \A p \in PowersOf2 : n % p = 0 => p <= LowestBit(n)
    BY LowestBitIs
  <1>2. CASE b = 0
    <2>1. LowestBit(b) = 2 * Top
      BY <1>2 DEF LowestBit
    <2>2. Top \in Nat \ {0}
      BY MemoryAssumption
    <2>3. CASE 2 * Top > n
      <3>1. Tile(b, n) = LowestBit(n)
        BY <2>1, <2>3 DEF Tile
      <3>2. b % Tile(b, n) = 0
        BY <1>1, <1>2, <3>1
      <3> QED
        BY <1>1, <3>1, <3>2, PowersAre DEF Fitting
    <2>4. CASE ~(2 * Top > n)
      <3>1. Tile(b, n) = 2 * Top
        BY <2>1, <2>4 DEF Tile
      <3> QED
        BY <3>1, <2>2, <2>4 DEF Fitting
    <2> QED
      BY <2>3, <2>4
  <1>3. CASE b # 0
    <2>1. /\ LowestBit(b) \in PowersOf2 /\ b % LowestBit(b) = 0 /\ LowestBit(b) \in 1 .. b
          /\ \A p \in PowersOf2 : b % p = 0 => p <= LowestBit(b)
      BY <1>3, LowestBitIs
    <2>2. CASE LowestBit(b) > n
      <3>1. Tile(b, n) = LowestBit(n)
        BY <2>2 DEF Tile
      <3>2. LowestBit(n) <= LowestBit(b)
        BY <1>1, <2>1, <2>2
      <3>3. LowestBit(b) % LowestBit(n) = 0
        BY <1>1, <2>1, <3>2, PowersAre
      <3>4. b % LowestBit(n) = 0
        BY <1>1, <2>1, <3>3, Transitive
      <3> QED
        BY <1>1, <3>1, <3>4, PowersAre DEF Fitting
    <2>3. CASE ~(LowestBit(b) > n)
      <3>1. Tile(b, n) = LowestBit(b)
        BY <2>3 DEF Tile
      <3>2. LowestBit(b) \in 1 .. n
        BY <2>1, <2>3
      <3> QED
        BY <2>1, <3>1, <3>2, PowersAre DEF Fitting
    <2> QED
      BY <2>2, <2>3
  <1> QED
    BY <1>2, <1>3

-----------------------------------------------------------------------------
(* New fpages *)

SameLive(m, u) == u.live = m.live

LEMMA CreateIs ==
    ASSUME NEW m \in Tables, NEW fpage \in Fpages, NEW r, r = Create(m, fpage)
    PROVE  /\ r.mem \in Tables /\ r.val \in Slots \cup {NULL} /\ SameLive(m, r.mem)
           /\ r.val = NULL => r.mem.fault # "none" /\ r.mem.fault \in {m.fault, "full"}
           /\ r.val # NULL => /\ r.val \in Slots \ m.used
                              /\ \A g \in Slots : g < r.val => g \in m.used
                              /\ r.mem.used = m.used \cup {r.val}
                              /\ r.mem.fp = [m.fp EXCEPT ![r.val] = fpage]
                              /\ r.mem.mapNext = [m.mapNext EXCEPT ![r.val] = r.val]
                              /\ Same(m, r.mem, {"used", "fp", "mapNext", "mpuNext"})
  <1> DEFINE free == Slots \ m.used
  <1>1. CASE free = {}
    <2>1. r = Result(Faulty(m, "full"), NULL)
      BY <1>1 DEF Create
    <2>2. r.mem = Faulty(m, "full") /\ r.val = NULL
      BY <2>1 DEF Result
    <2>3. PICK u : u = Faulty(m, "full")
      OBVIOUS
    <2>4. u \in Tables /\ u.fault # "none" /\ u.fault \in {m.fault, "full"} /\ Same(m, u, {"fault"})
      <3>1. "full" \in Faults \ {"none"}
        BY DEF Faults
      <3> QED
        BY <2>3, <3>1, FaultyIs
    <2>5. SameLive(m, u)
      BY <2>4 DEF Tables, Same, SameLive
    <2> QED
      BY <2>2, <2>3, <2>4, <2>5
  <1>2. CASE free # {}
    <2>0. free \in SUBSET Nat
      BY SlotsAre
    <2>1. PICK f \in free : f = FirstOf(free)
      BY <1>2, <2>0, FirstOfIs
    <2>2. r = Result([m EXCEPT !.used = @ \cup {f}, !.fp[f] = fpage,
                              !.mapNext[f] = f, !.mpuNext[f] = NULL], f)
      BY <1>2, <2>1 DEF Create
    <2>3. r.val = f /\ r.mem = [m EXCEPT !.used = @ \cup {f}, !.fp[f] = fpage,
                              !.mapNext[f] = f, !.mpuNext[f] = NULL]
      BY <2>2 DEF Result
    <2>4. f \in Slots \ m.used /\ f # NULL /\ m.used \cup {f} \in SUBSET Slots
      BY <2>1, SlotsAre DEF Tables
    <2>5. PICK v \in Slots \cup {NULL} : v = NULL
      OBVIOUS
    <2>s. PICK s \in SUBSET Slots : s = m.used \cup {f}
      BY <2>4
    <2>6. PICK o : o = [m EXCEPT !.used = s]
      OBVIOUS
    <2>7. PICK p : p = [o EXCEPT !.fp[f] = fpage]
      OBVIOUS
    <2>8. PICK q : q = [p EXCEPT !.mapNext[f] = f]
      OBVIOUS
    <2>9. PICK z : z = [q EXCEPT !.mpuNext[f] = v]
      OBVIOUS
    <2>z. r.mem = z
      BY <2>3, <2>5, <2>s, <2>6, <2>7, <2>8, <2>9
    <2>10. o \in Tables /\ o.used = m.used \cup {f} /\ Same(m, o, {"used"})
      BY <2>6, <2>s DEF Tables, Same
    <2>11. p \in Tables /\ p.fp = [o.fp EXCEPT ![f] = fpage] /\ Same(o, p, {"fp"})
      BY <2>4, <2>7, <2>10 DEF Tables, Same
    <2>12. q \in Tables /\ q.mapNext = [p.mapNext EXCEPT ![f] = f] /\ Same(p, q, {"mapNext"})
      BY <2>4, <2>8, <2>11 DEF Tables, Same
    <2>13. z \in Tables /\ Same(q, z, {"mpuNext"})
      BY <2>4, <2>9, <2>12 DEF Tables, Same
    <2>14. /\ z.used = m.used \cup {f} /\ z.fp = [m.fp EXCEPT ![f] = fpage]
           /\ z.mapNext = [m.mapNext EXCEPT ![f] = f]
           /\ Same(m, z, {"used", "fp", "mapNext", "mpuNext"})
      <3>1. /\ p.used = m.used \cup {f} /\ p.fp = [m.fp EXCEPT ![f] = fpage] /\ p.mapNext = m.mapNext
            /\ Same(m, p, {"used", "fp"})
        BY <2>10, <2>11 DEF Tables, Same
      <3>2. /\ z.used = p.used /\ z.fp = p.fp /\ z.mapNext = [p.mapNext EXCEPT ![f] = f]
            /\ Same(p, z, {"mapNext", "mpuNext"})
        BY <2>11, <2>12, <2>13 DEF Tables, Same
      <3>3. Same(m, z, {"used", "fp", "mapNext", "mpuNext"})
        BY <3>1, <3>2, <2>11 DEF Tables, Same
      <3> QED
        BY <3>1, <3>2, <3>3
    <2>15. ASSUME NEW g \in Slots, g < f, g \notin m.used
           PROVE  FALSE
      <3>1. f <= g
        BY <2>0, <2>1, <2>15, FirstOfIs
      <3> QED
        BY <2>15, <3>1, SlotsAre
    <2>16. SameLive(m, z)
      BY <2>14 DEF Tables, Same, SameLive
    <2> QED
      BY <2>3, <2>4, <2>z, <2>13, <2>14, <2>15, <2>16
  <1> QED
    BY <1>1, <1>2

LEMMA AppendIs ==
    ASSUME NEW v \in Seq(Slots), NEW f \in Slots
    PROVE  /\ Append(v, f) \in Seq(Slots) /\ Len(Append(v, f)) = Len(v) + 1
           /\ DOMAIN Append(v, f) = 1 .. Len(v) + 1
           /\ \A i \in 1 .. Len(v) : Append(v, f)[i] = v[i]
           /\ Append(v, f)[Len(v) + 1] = f
           /\ ToSet(Append(v, f)) = ToSet(v) \cup {f}
           /\ Distinct(v) /\ f \notin ToSet(v) => Distinct(Append(v, f))
  <1>w. PICK w : w = Append(v, f)
    OBVIOUS
  <1>1. /\ w \in Seq(Slots) /\ Len(w) = Len(v) + 1 /\ DOMAIN w = 1 .. Len(v) + 1
        /\ \A i \in 1 .. Len(v) : w[i] = v[i]
        /\ w[Len(v) + 1] = f /\ Len(v) \in Nat /\ DOMAIN v = 1 .. Len(v)
    BY <1>w
  <1>2. \A i \in 1 .. Len(v) + 1 : i \in 1 .. Len(v) \/ i = Len(v) + 1
    BY <1>1
  <1>3. ToSet(w) = ToSet(v) \cup {f}
    BY <1>1, <1>2 DEF ToSet
  <1>4. Distinct(v) /\ f \notin ToSet(v) => Distinct(w)
    BY <1>1, <1>2 DEF Distinct, ToSet
  <1> QED
    BY <1>w, <1>1, <1>3, <1>4

\* The fpages of v are new, not mapped, and in no space yet; they are the first
\* that were free.
Fresh(m, u, v) ==
    /\ Same(m, u, {"used", "fp", "mapNext", "mpuNext"})
    /\ v \in Seq(Slots) /\ Distinct(v)
    /\ ToSet(v) \cap m.used = {} /\ u.used = m.used \cup ToSet(v)
    /\ \A f \in m.used : u.fp[f] = m.fp[f] /\ u.mapNext[f] = m.mapNext[f]
    /\ \A f \in ToSet(v) : u.mapNext[f] = f /\ ~u.fp[f].clone
    /\ \A f \in ToSet(v), g \in Slots : g < f => g \in u.used

\* They are the memory from b to e, one behind the other.
Tiled(u, v, b, e) ==
    /\ \A i \in 1 .. Len(v) : Base(u, v[i]) >= b /\ End(u, v[i]) <= e /\ Base(u, v[i]) < End(u, v[i])
    /\ \A i, j \in 1 .. Len(v) : i < j => End(u, v[i]) <= Base(u, v[j])
    /\ \A x \in b .. e - 1 : \E i \in 1 .. Len(v) : x \in Base(u, v[i]) .. End(u, v[i]) - 1

\* A region of the MPU, of which p divides base and size if it divides b and n.
Shaped(u, f, b, n) ==
    n <= Top => /\ u.fp[f].size \in PowersOf2 /\ Base(u, f) % u.fp[f].size = 0
                /\ \A p \in PowersOf2 : b % p = 0 /\ n % p = 0 =>
                       Base(u, f) % p = 0 /\ u.fp[f].size % p = 0

\* One more fpage.
Longer(o, u, v, w, fpage) ==
    /\ w \in Seq(Slots) /\ Len(w) = Len(v) + 1 /\ u.fp[w[Len(v) + 1]] = fpage
    /\ \A i \in 1 .. Len(v) : w[i] = v[i] /\ u.fp[w[i]] = o.fp[v[i]]

LEMMA FreshNext ==
    ASSUME NEW m \in Tables, NEW t \in Tables, NEW v, Fresh(m, t, v),
           NEW fpage \in Fpages, ~fpage.clone, NEW r, r = Create(t, fpage), r.val # NULL,
           NEW w, w = Append(v, r.val)
    PROVE  Fresh(m, r.mem, w) /\ r.mem \in Tables /\ Longer(t, r.mem, v, w, fpage)
  <1>1. PICK u : u = r.mem
    OBVIOUS
  <1>2. PICK f : f = r.val
    OBVIOUS
  <1>3. /\ u \in Tables /\ f \in Slots \ t.used
        /\ u.used = t.used \cup {f} /\ u.fp = [t.fp EXCEPT ![f] = fpage]
        /\ u.mapNext = [t.mapNext EXCEPT ![f] = f]
        /\ Same(t, u, {"used", "fp", "mapNext", "mpuNext"})
        /\ \A g \in Slots : g < f => g \in t.used
    BY <1>1, <1>2, CreateIs
  <1>4. v \in Seq(Slots) /\ Distinct(v) /\ ToSet(v) \subseteq t.used /\ m.used \subseteq t.used
    BY DEF Fresh
  <1>5. /\ w \in Seq(Slots) /\ Len(w) = Len(v) + 1 /\ DOMAIN w = 1 .. Len(v) + 1
        /\ \A i \in 1 .. Len(v) : w[i] = v[i]
        /\ w[Len(v) + 1] = f
        /\ ToSet(w) = ToSet(v) \cup {f} /\ Distinct(w)
    <2>1. w = Append(v, f) /\ f \in Slots /\ v \in Seq(Slots) /\ f \notin ToSet(v)
      BY <1>2, <1>3, <1>4
    <2> QED
      <3>1. /\ Append(v, f) \in Seq(Slots) /\ Len(Append(v, f)) = Len(v) + 1
            /\ DOMAIN Append(v, f) = 1 .. Len(v) + 1
            /\ \A i \in 1 .. Len(v) : Append(v, f)[i] = v[i]
            /\ Append(v, f)[Len(v) + 1] = f
            /\ ToSet(Append(v, f)) = ToSet(v) \cup {f}
        BY <2>1, AppendIs
      <3>2. Distinct(Append(v, f))
        BY <2>1, <1>4, AppendIs
      <3> QED
        BY <2>1, <3>1, <3>2
  <1>6. /\ \A g \in t.used : u.fp[g] = t.fp[g] /\ u.mapNext[g] = t.mapNext[g]
        /\ u.fp[f] = fpage /\ u.mapNext[f] = f
    BY <1>3 DEF Tables
  <1>7. Same(m, u, {"used", "fp", "mapNext", "mpuNext"})
    BY <1>3 DEF Same, Fresh, Tables
  <1>8. Fresh(m, u, w)
    <2>1. ToSet(w) \cap m.used = {} /\ u.used = m.used \cup ToSet(w)
      BY <1>3, <1>4, <1>5 DEF Fresh
    <2>2. \A g \in m.used : u.fp[g] = m.fp[g] /\ u.mapNext[g] = m.mapNext[g]
      BY <1>4, <1>6 DEF Fresh
    <2>3. \A g \in ToSet(w) : u.mapNext[g] = g /\ ~u.fp[g].clone
      BY <1>4, <1>5, <1>6 DEF Fresh
    <2>4. ASSUME NEW i \in ToSet(w), NEW g \in Slots, g < i
          PROVE  g \in u.used
      <3>1. i \in ToSet(v) \/ i = f
        BY <1>5
      <3>2. i \in ToSet(v) => g \in t.used
        BY <2>4 DEF Fresh
      <3>3. i = f => g \in t.used
        BY <1>3, <2>4
      <3> QED
        BY <1>3, <3>1, <3>2, <3>3
    <2> QED
      BY <1>5, <1>7, <2>1, <2>2, <2>3, <2>4 DEF Fresh
  <1>9. \A i \in 1 .. Len(v) : v[i] \in ToSet(v)
    BY <1>4 DEF ToSet
  <1>10. Longer(t, u, v, w, fpage)
    BY <1>4, <1>5, <1>6, <1>9 DEF Longer
  <1> QED
    BY <1>1, <1>3, <1>8, <1>10

LEMMA Sums ==
    ASSUME NEW p \in Nat \ {0}, NEW x \in Nat, NEW y \in Nat, x % p = 0, y % p = 0
    PROVE  (x + y) % p = 0 /\ (x >= y => (x - y) % p = 0)
  <1>1. PICK i \in Nat : x = i * p
    BY Multiples
  <1>2. PICK j \in Nat : y = j * p
    BY Multiples
  <1>3. x + y = (i + j) * p /\ i + j \in Nat
    BY <1>1, <1>2
  <1>4. (x + y) % p = 0
    BY <1>3, Multiples
  <1>5. ASSUME x >= y
        PROVE  (x - y) % p = 0
    <2>1. i >= j
      <3>1. ASSUME i < j
            PROVE  FALSE
        <4>1. i + 1 <= j
          BY <3>1
        <4>2. (i + 1) * p <= j * p
          BY <4>1
        <4>3. (i + 1) * p = i * p + p
          OBVIOUS
        <4> QED
          BY <1>1, <1>2, <1>5, <4>2, <4>3
      <3> QED
        BY <3>1
    <2>2. x - y = (i - j) * p /\ i - j \in Nat
      BY <1>1, <1>2, <2>1
    <2> QED
      BY <2>2, Multiples
  <1> QED
    BY <1>4, <1>5

\* What k turns of the loop of create_fpage_chain() have made of m.
ChainGood(m, b, n, k, s) ==
    /\ s \in [mem : Tables, val : Seq(Slots), b : Nat, n : Nat]
    /\ s.mem.fault \in {m.fault, "full"} /\ s.mem.live = m.live
    /\ s.b + s.n = b + n /\ s.b >= b
    /\ s.mem.fault = "none" =>
           /\ s.n = 0 \/ s.n <= n - k
           /\ Fresh(m, s.mem, s.val) /\ Tiled(s.mem, s.val, b, s.b)
           /\ \A i \in 1 .. Len(s.val) : Shaped(s.mem, s.val[i], b, n)
           /\ n <= Top => \A p \in PowersOf2 : b % p = 0 /\ n % p = 0 => s.b % p = 0 /\ s.n % p = 0

LEMMA CreateNextType ==
    ASSUME NEW s \in [mem : Tables, val : Seq(Slots), b : Nat, n : Nat], NEW always \in BOOLEAN,
           NEW t, t = CreateNext(s, always)
    PROVE  /\ t \in [mem : Tables, val : Seq(Slots), b : Nat, n : Nat]
           /\ s.n = 0 \/ s.mem.fault # "none" => t = s
           /\ s.n # 0 /\ s.mem.fault = "none" =>
                LET tile == Tile(s.b, s.n)
                    r == Create(s.mem, [base |-> s.b, size |-> tile, always |-> always, clone |-> FALSE])
                IN  /\ tile \in 1 .. s.n
                    /\ t.mem = r.mem
                    /\ r.val = NULL => t.mem.fault = "full"
                    /\ r.val # NULL => /\ t.mem.fault = s.mem.fault
                                       /\ t.val = Append(s.val, r.val)
                                       /\ t.b = s.b + tile /\ t.n = s.n - tile
  <1> DEFINE tile == Tile(s.b, s.n)
             fpage == [base |-> s.b, size |-> tile, always |-> always, clone |-> FALSE]
             r == Create(s.mem, fpage)
  <1>1. CASE s.n = 0 \/ s.mem.fault # "none"
    BY <1>1 DEF CreateNext
  <1>2. CASE s.n # 0 /\ s.mem.fault = "none"
    <2>1. tile \in 1 .. s.n
      <3>1. Fitting(s.b, s.n, tile)
        BY <1>2, TileIs
      <3> QED
        BY <3>1 DEF Fitting
    <2>2. fpage \in Fpages
      BY <2>1 DEF Fpages
    <2>3. PICK q : q = r
      OBVIOUS
    <2>4. t = IF q.val = NULL THEN [s EXCEPT !.mem = q.mem]
              ELSE [mem |-> q.mem, val |-> Append(s.val, q.val), b |-> s.b + tile, n |-> s.n - tile]
      BY <1>2, <2>3 DEF CreateNext
    <2> HIDE DEF fpage, tile
    <2>5. /\ q.mem \in Tables /\ q.val \in Slots \cup {NULL}
          /\ q.val = NULL => q.mem.fault # "none" /\ q.mem.fault \in {s.mem.fault, "full"}
          /\ q.val # NULL => Same(s.mem, q.mem, {"used", "fp", "mapNext", "mpuNext"})
      BY <2>2, <2>3, CreateIs
    <2>6. q.val # NULL => q.mem.fault = s.mem.fault
      BY <2>5 DEF Same, Tables
    <2>7. CASE q.val = NULL
      <3>1. t = [s EXCEPT !.mem = q.mem]
        BY <2>4, <2>7
      <3>2. t \in [mem : Tables, val : Seq(Slots), b : Nat, n : Nat] /\ t.mem = q.mem
        BY <2>5, <3>1
      <3> QED
        BY <1>2, <2>1, <2>3, <2>5, <2>7, <3>2 DEF tile, fpage
    <2>8. CASE q.val # NULL
      <3>1. t = [mem |-> q.mem, val |-> Append(s.val, q.val), b |-> s.b + tile, n |-> s.n - tile]
        BY <2>4, <2>8
      <3>2. Append(s.val, q.val) \in Seq(Slots) /\ s.b + tile \in Nat /\ s.n - tile \in Nat
        BY <2>1, <2>5, <2>8
      <3>3. t \in [mem : Tables, val : Seq(Slots), b : Nat, n : Nat]
        BY <2>5, <3>1, <3>2
      <3> QED
        BY <1>2, <2>1, <2>3, <2>6, <2>8, <3>1, <3>3 DEF tile, fpage
    <2> QED
      BY <2>7, <2>8
  <1> QED
    BY <1>1, <1>2

LEMMA TiledNext ==
    ASSUME NEW o \in Tables, NEW u \in Tables, NEW v \in Seq(Slots), NEW w \in Seq(Slots),
           NEW b \in Nat, NEW e \in Nat, NEW d \in Nat, b <= e, e < d, Tiled(o, v, b, e),
           NEW fpage \in Fpages, fpage.base = e, fpage.base + fpage.size = d, Longer(o, u, v, w, fpage)
    PROVE  Tiled(u, w, b, d)
  <1>0. /\ Len(w) = Len(v) + 1 /\ Len(v) \in Nat
        /\ \A i \in 1 .. Len(v) : w[i] = v[i] /\ u.fp[w[i]] = o.fp[v[i]]
        /\ Base(u, w[Len(v) + 1]) = e /\ End(u, w[Len(v) + 1]) = d
    BY DEF Longer, Base, End
  <1>1. /\ \A i \in 1 .. Len(v) : Base(u, w[i]) = Base(o, v[i]) /\ End(u, w[i]) = End(o, v[i])
        /\ \A i \in 1 .. Len(w) : i \in 1 .. Len(v) \/ i = Len(v) + 1
        /\ Len(v) \in Nat
    <2>1. \A i \in 1 .. Len(v) : Base(u, w[i]) = Base(o, v[i]) /\ End(u, w[i]) = End(o, v[i])
      BY <1>0 DEF Base, End
    <2>2. \A i \in 1 .. Len(w) : i \in 1 .. Len(v) \/ i = Len(v) + 1
      BY <1>0
    <2> QED
      BY <1>0, <2>1, <2>2, Zenon
  <1>2. \A i \in 1 .. Len(v) : Base(o, v[i]) \in Nat /\ End(o, v[i]) \in Nat
    BY BoundsAre
  <1>3. \A i \in 1 .. Len(w) : /\ Base(u, w[i]) >= b /\ End(u, w[i]) <= d
                               /\ Base(u, w[i]) < End(u, w[i])
    <2>1. \A i \in 1 .. Len(v) : /\ Base(o, v[i]) >= b /\ End(o, v[i]) <= e
                                 /\ Base(o, v[i]) < End(o, v[i])
      BY DEF Tiled
    <2>2. \A i \in 1 .. Len(v) : /\ Base(u, w[i]) >= b /\ End(u, w[i]) <= d
                                 /\ Base(u, w[i]) < End(u, w[i])
      BY <1>0, <1>1, <1>2, <2>1
    <2> QED
      BY <1>0, <1>1, <2>2
  <1>4. ASSUME NEW i \in 1 .. Len(w), NEW j \in 1 .. Len(w), i < j
        PROVE  End(u, w[i]) <= Base(u, w[j])
    <2>1. i \in 1 .. Len(v)
      BY <1>0, <1>1, <1>4
    <2>2. CASE j \in 1 .. Len(v)
      <3>1. End(o, v[i]) <= Base(o, v[j])
        BY <1>4, <2>1, <2>2 DEF Tiled
      <3> QED
        BY <1>0, <1>1, <2>1, <2>2, <3>1
    <2>3. CASE j = Len(v) + 1
      <3>1. End(o, v[i]) <= e
        BY <2>1 DEF Tiled
      <3> QED
        BY <1>0, <1>1, <2>1, <2>3, <3>1
    <2> QED
      BY <1>0, <1>1, <2>2, <2>3
  <1>5. ASSUME NEW x \in b .. d - 1
        PROVE  \E i \in 1 .. Len(w) : x \in Base(u, w[i]) .. End(u, w[i]) - 1
    <2>1. CASE x \in b .. e - 1
      <3>1. PICK i \in 1 .. Len(v) : x \in Base(o, v[i]) .. End(o, v[i]) - 1
        BY <2>1 DEF Tiled
      <3>2. i \in 1 .. Len(w) /\ Base(u, w[i]) = Base(o, v[i]) /\ End(u, w[i]) = End(o, v[i])
        BY <1>0, <1>1
      <3> QED
        BY <3>1, <3>2
    <2>2. CASE x \in e .. d - 1
      <3>1. Len(v) + 1 \in 1 .. Len(w)
        BY <1>0
      <3>2. x \in Base(u, w[Len(v) + 1]) .. End(u, w[Len(v) + 1]) - 1
        BY <1>0, <2>2
      <3> QED
        BY <3>1, <3>2
    <2> QED
      BY <2>1, <2>2
  <1> QED
    BY <1>3, <1>4, <1>5 DEF Tiled

LEMMA CreateNextGood ==
    ASSUME NEW m \in Tables, NEW b \in Nat, NEW n \in Nat, NEW always \in BOOLEAN,
           NEW k \in Nat, k >= 1, NEW s, ChainGood(m, b, n, k - 1, s), NEW t, t = CreateNext(s, always)
    PROVE  ChainGood(m, b, n, k, t)
  <1>1. s \in [mem : Tables, val : Seq(Slots), b : Nat, n : Nat]
    BY DEF ChainGood
  <1>2. CASE s.n = 0 \/ s.mem.fault # "none"
    <2>1. t = s
      BY <1>2 DEF CreateNext
    <2> QED
      BY <1>2, <2>1 DEF ChainGood
  <1>3. CASE s.n # 0 /\ s.mem.fault = "none"
    <2>1. PICK o \in Tables, v \in Seq(Slots), sb \in Nat, sn \in Nat \ {0} :
              o = s.mem /\ v = s.val /\ sb = s.b /\ sn = s.n
      BY <1>1, <1>3
    <2> DEFINE tile == Tile(sb, sn)
    <2>2. Fitting(sb, sn, tile)
      BY TileIs
    <2>3. tile \in 1 .. sn
      BY <2>2 DEF Fitting
    <2>4. PICK fpage \in Fpages : fpage = [base |-> sb, size |-> tile, always |-> always, clone |-> FALSE]
      <3> DEFINE new == [base |-> sb, size |-> tile, always |-> always, clone |-> FALSE]
      <3>1. tile \in Nat
        BY <2>3
      <3> HIDE DEF tile
      <3>2. new \in Fpages
        BY <3>1 DEF Fpages
      <3> HIDE DEF new
      <3>3. \E fpage \in Fpages : fpage = new
        BY <3>2
      <3> QED
        BY <3>3 DEF new
    <2>5. ~fpage.clone /\ fpage.base = sb /\ fpage.size = tile
      <3> HIDE DEF tile
      <3> QED
        BY <2>4
    <2>6. PICK r : r = Create(o, fpage)
      OBVIOUS
    <2>7. /\ r.mem \in Tables /\ r.val \in Slots \cup {NULL} /\ r.mem.live = o.live
          /\ r.val = NULL => r.mem.fault = "full"
      <3>1. /\ r.mem \in Tables /\ r.val \in Slots \cup {NULL}
            /\ r.val = NULL => r.mem.fault # "none" /\ r.mem.fault \in {o.fault, "full"}
        BY <2>6, CreateIs
      <3>2. SameLive(o, r.mem)
        BY <2>6, CreateIs
      <3> QED
        BY <1>3, <2>1, <3>1, <3>2 DEF SameLive
    <2>8. t = IF r.val = NULL THEN [s EXCEPT !.mem = r.mem]
              ELSE [mem |-> r.mem, val |-> Append(v, r.val), b |-> sb + tile, n |-> sn - tile]
      BY <1>3, <2>1, <2>4, <2>6 DEF CreateNext
    <2> HIDE DEF tile
    <2>9. /\ Fresh(m, o, v) /\ Tiled(o, v, b, sb)
          /\ \A i \in 1 .. Len(v) : Shaped(o, v[i], b, n)
          /\ n <= Top => \A p \in PowersOf2 : b % p = 0 /\ n % p = 0 => sb % p = 0 /\ sn % p = 0
          /\ sn <= n - (k - 1) /\ sb + sn = b + n /\ sb >= b /\ o.fault = m.fault /\ o.fault = "none"
          /\ o.live = m.live
      BY <1>3, <2>1 DEF ChainGood
    <2>10. CASE r.val = NULL
      <3>1. t = [s EXCEPT !.mem = r.mem]
        BY <2>8, <2>10
      <3>2. t \in [mem : Tables, val : Seq(Slots), b : Nat, n : Nat] /\ t.mem = r.mem /\ t.b = sb /\ t.n = sn
        BY <1>1, <2>1, <2>7, <3>1
      <3> QED
        BY <2>7, <2>9, <2>10, <3>2 DEF ChainGood
    <2>11. CASE r.val # NULL
      <3>1. PICK u \in Tables, f \in Slots : u = r.mem /\ f = r.val
        BY <2>7, <2>11
      <3>2. PICK w : w = Append(v, f)
        OBVIOUS
      <3>3. Fresh(m, u, w) /\ Longer(o, u, v, w, fpage)
        <4>1. w = Append(v, r.val)
          BY <3>1, <3>2
        <4>2. Fresh(m, r.mem, w) /\ Longer(o, r.mem, v, w, fpage)
          BY <2>5, <2>6, <2>9, <2>11, <4>1, FreshNext
        <4> QED
          BY <3>1, <4>2
      <3>4. /\ w \in Seq(Slots) /\ Len(w) = Len(v) + 1 /\ Len(v) \in Nat
            /\ \A i \in 1 .. Len(v) : w[i] = v[i] /\ u.fp[w[i]] = o.fp[v[i]]
            /\ u.fp[w[Len(v) + 1]] = fpage
        BY <3>3 DEF Longer
      <3>5. Tiled(u, w, b, sb + tile)
        <4>1. sb + tile \in Nat /\ sb < sb + tile /\ b <= sb
          BY <2>3, <2>9
        <4>2. fpage.base = sb /\ fpage.base + fpage.size = sb + tile
          BY <2>5
        <4> QED
          BY <2>9, <3>3, <3>4, <4>1, <4>2, TiledNext
      <3>6. \A i \in 1 .. Len(w) : Shaped(u, w[i], b, n)
        <4>1. \A i \in 1 .. Len(v) : Shaped(u, w[i], b, n)
          BY <2>9, <3>4 DEF Shaped, Base
        <4>2. Shaped(u, w[Len(v) + 1], b, n)
          <5>1. sn <= n /\ n \in Nat /\ Top \in Nat
            BY <2>9, MemoryAssumption
          <5>2. u.fp[w[Len(v) + 1]].size = tile /\ Base(u, w[Len(v) + 1]) = sb
            BY <2>5, <3>4 DEF Base
          <5> QED
            BY <2>2, <2>9, <5>1, <5>2 DEF Shaped, Fitting
        <4>3. \A i \in 1 .. Len(w) : i \in 1 .. Len(v) \/ i = Len(v) + 1
          BY <3>4
        <4> QED
          BY <4>1, <4>2, <4>3
      <3>7. ASSUME n <= Top, NEW p \in PowersOf2, b % p = 0, n % p = 0
             PROVE  (sb + tile) % p = 0 /\ (sn - tile) % p = 0
        <4>1. sb % p = 0 /\ sn % p = 0
          BY <2>9, <3>7
        <4>2. sn <= Top
          BY <2>9, <3>7, MemoryAssumption
        <4>3. tile % p = 0
          BY <2>2, <4>1, <4>2 DEF Fitting
        <4>4. tile \in Nat /\ tile <= sn /\ p \in Nat \ {0}
          BY <2>3, PowersAre, MemoryAssumption
        <4> QED
          BY <4>1, <4>3, <4>4, Sums
      <3>8. /\ sn - tile <= n - k /\ (sb + tile) + (sn - tile) = b + n /\ sb + tile >= b
            /\ u.fault = m.fault /\ u.live = m.live
        <4>1. u.fault = m.fault /\ u.live = m.live
          BY <3>3 DEF Fresh, Same, Tables
        <4>2. sn - tile <= n - k /\ (sb + tile) + (sn - tile) = b + n /\ sb + tile >= b
          <5>1. sn <= n - (k - 1) /\ sb + sn = b + n /\ sb >= b /\ tile \in Nat /\ tile >= 1
            BY <2>3, <2>9
          <5> QED
            BY <5>1
        <4> QED
          BY <4>1, <4>2
      <3>9. /\ t.mem = u /\ t.val = w /\ t.b = sb + tile /\ t.n = sn - tile
            /\ t \in [mem : Tables, val : Seq(Slots), b : Nat, n : Nat]
        <4>1. t = [mem |-> u, val |-> w, b |-> sb + tile, n |-> sn - tile]
          BY <2>8, <2>11, <3>1, <3>2
        <4>2. sb + tile \in Nat /\ sn - tile \in Nat
          BY <2>3
        <4> QED
          BY <3>4, <4>1, <4>2
      <3> QED
        BY <3>3, <3>5, <3>6, <3>7, <3>8, <3>9 DEF ChainGood
    <2> QED
      BY <2>10, <2>11
  <1> QED
    BY <1>2, <1>3

\* The chain is new, and is the memory from b to b + n.
Chained(m, u, v, b, n) ==
    /\ m.fault = "none" /\ n >= 0 /\ (n > 0 => Len(v) > 0)
    /\ Fresh(m, u, v) /\ Tiled(u, v, b, b + n)
    /\ \A i \in 1 .. Len(v) : Shaped(u, v[i], b, n)

LEMMA ChainStart ==
    ASSUME NEW m \in Tables, NEW b \in Nat, NEW n \in Nat
    PROVE  ChainGood(m, b, n, 0, [mem |-> m, val |-> <<>>, b |-> b, n |-> n])
  <1>1. PICK v \in Seq(Slots) : v = <<>>
    BY EmptySeq, Zenon
  <1>2. PICK s : s = [mem |-> m, val |-> v, b |-> b, n |-> n]
    OBVIOUS
  <1>3. /\ s \in [mem : Tables, val : Seq(Slots), b : Nat, n : Nat]
        /\ s.mem = m /\ s.val = v /\ s.b = b /\ s.n = n
    BY <1>2
  <1>4. Len(v) = 0 /\ ToSet(v) = {} /\ DOMAIN v = {}
    BY <1>1 DEF ToSet
  <1>5. Fresh(m, m, v)
    BY <1>4 DEF Fresh, Same, Distinct
  <1>6. Tiled(m, v, b, b) /\ \A i \in 1 .. Len(v) : Shaped(m, v[i], b, n)
    <2>1. 1 .. Len(v) = {} /\ b .. b - 1 = {}
      BY <1>4
    <2> QED
      BY <2>1, Zenon DEF Tiled
  <1>7. ChainGood(m, b, n, 0, s)
    <2>1. /\ s.mem.fault \in {m.fault, "full"} /\ s.mem.live = m.live
          /\ s.b + s.n = b + n /\ s.b >= b /\ s.n <= n - 0
      BY <1>3
    <2>2. Fresh(m, s.mem, s.val) /\ Tiled(s.mem, s.val, b, s.b) /\ \A i \in 1 .. Len(s.val) : Shaped(s.mem, s.val[i], b, n)
      BY <1>3, <1>5, <1>6, Zenon
    <2>3. \A p \in PowersOf2 : b % p = 0 /\ n % p = 0 => s.b % p = 0 /\ s.n % p = 0
      BY <1>3
    <2> QED
      BY <1>3, <2>1, <2>2, <2>3 DEF ChainGood
  <1> QED
    BY <1>1, <1>2, <1>7

LEMMA CreateLoop ==
    ASSUME NEW m \in Tables, NEW b \in Nat, NEW n \in Nat, NEW always \in BOOLEAN,
           NEW r, r = CreateChain(m, b, n, always)
    PROVE  \E s : ChainGood(m, b, n, n, s) /\ r = Result(s.mem, s.val)
  <1> DEFINE start == [mem |-> m, val |-> <<>>, b |-> b, n |-> n]
             X == [mem : Tables, val : Seq(Slots), b : Nat, n : Nat]
             Step(f) == [k \in 0 .. n |-> IF k = 0 THEN start ELSE CreateNext(f[k - 1], always)]
             e == CHOOSE f : f = Step(f)
             h == [x \in X |-> CreateNext(x, always)]
             G == {z \in (0 .. n) \X X : ChainGood(m, b, n, z[1], z[2])}
  <1>1. start \in X /\ ChainGood(m, b, n, 0, start)
    BY ChainStart DEF ChainGood
  <1>2. h \in [X -> X] /\ \A x \in X : h[x] = CreateNext(x, always)
    <2>1. \A x \in X : CreateNext(x, always) \in X
      <3>1. ASSUME NEW x \in X
            PROVE  CreateNext(x, always) \in X
        <4> HIDE DEF X
        <4>1. PICK t : t = CreateNext(x, always)
          OBVIOUS
        <4>2. t \in X
          BY <4>1, CreateNextType DEF X
        <4> QED
          BY <4>1, <4>2
      <3> QED
        BY <3>1
    <2> HIDE DEF X
    <2> QED
      BY <2>1
  <1>r. r = Result(e[n].mem, e[n].val)
    <2>1. ~(n < 0)
      OBVIOUS
    <2> QED
      BY <2>1, Zenon DEF CreateChain
  <1> HIDE DEF start, h, X, Step, e
  <1>3. PICK f : Repeats(f, X, start, h, n)
    BY <1>1, <1>2, Repeated
  <1>4. /\ f \in [0 .. n -> X] /\ f[0] = start
        /\ \A k \in 1 .. n : k - 1 \in 0 .. n /\ f[k] = CreateNext(f[k - 1], always)
    BY <1>2, <1>3 DEF Repeats
  <1>5. f = Step(f)
    BY <1>4 DEF Step
  <1>6. e = Step(e)
    BY <1>5 DEF e
  <1>7. e[0] = start /\ \A k \in 1 .. n : e[k] = CreateNext(e[k - 1], always)
    BY <1>6 DEF Step
  <1>8. \A k \in 0 .. n : <<k, e[k]>> \in G
    <2>1. <<0, e[0]>> \in G
      BY <1>1, <1>7
    <2>2. ASSUME NEW k \in 1 .. n, <<k - 1, e[k - 1]>> \in G
          PROVE  <<k, e[k]>> \in G
      <3>1. ChainGood(m, b, n, k - 1, e[k - 1])
        BY <2>2
      <3>2. PICK t : t = CreateNext(e[k - 1], always)
        OBVIOUS
      <3>3. PICK s : s = e[k - 1]
        OBVIOUS
      <3>4. k \in Nat /\ k >= 1 /\ ChainGood(m, b, n, k - 1, s) /\ t = CreateNext(s, always)
        BY <3>1, <3>2, <3>3
      <3>5. ChainGood(m, b, n, k, t)
        BY <3>4, CreateNextGood
      <3>6. e[k] = t /\ t \in X
        BY <1>7, <3>2, <3>5 DEF ChainGood, X
      <3> QED
        BY <3>5, <3>6
    <2> HIDE DEF G
    <2> QED
      BY <2>1, <2>2, StaysGood
  <1>9. ChainGood(m, b, n, n, e[n])
    <2>1. <<n, e[n]>> \in G
      <3> HIDE DEF G
      <3>1. n \in 0 .. n
        OBVIOUS
      <3> QED
        BY <1>8, <3>1
    <2> QED
      BY <2>1
  <1> QED
    BY <1>r, <1>9

LEMMA CreateChainIs ==
    ASSUME NEW m \in Tables, NEW b \in Nat, NEW n \in Int, NEW always \in BOOLEAN,
           NEW r, r = CreateChain(m, b, n, always)
    PROVE  /\ r.mem \in Tables /\ r.val \in Seq(Slots) /\ r.mem.fault \in {m.fault, "full"}
           /\ SameLive(m, r.mem)
           /\ r.mem.fault = "none" => Chained(m, r.mem, r.val, b, n)
  <1>1. CASE n < 0
    <2>1. r = Result(Faulty(m, "full"), <<>>)
      BY <1>1 DEF CreateChain
    <2>2. r.mem = Faulty(m, "full") /\ r.val = <<>>
      BY <2>1 DEF Result
    <2>3. PICK v \in Seq(Slots) : v = <<>>
      BY EmptySeq, Zenon
    <2>4. PICK u : u = Faulty(m, "full")
      OBVIOUS
    <2>5. u \in Tables /\ u.fault # "none" /\ u.fault \in {m.fault, "full"} /\ Same(m, u, {"fault"})
      <3>1. "full" \in Faults \ {"none"}
        BY DEF Faults
      <3> QED
        BY <2>4, <3>1, FaultyIs
    <2>6. SameLive(m, u)
      BY <2>5 DEF Tables, Same, SameLive
    <2> QED
      BY <2>2, <2>3, <2>4, <2>5, <2>6
  <1>2. CASE n \in Nat
    <2>1. PICK s : ChainGood(m, b, n, n, s) /\ r = Result(s.mem, s.val)
      BY <1>2, CreateLoop
    <2>2. PICK u \in Tables, v \in Seq(Slots), sb \in Nat, sn \in Nat :
              u = s.mem /\ v = s.val /\ sb = s.b /\ sn = s.n
      BY <2>1 DEF ChainGood
    <2>3. r.mem = u /\ r.val = v
      BY <2>1, <2>2 DEF Result
    <2>4. u.fault \in {m.fault, "full"} /\ SameLive(m, u) /\ sb + sn = b + n
      BY <2>1, <2>2 DEF ChainGood, SameLive
    <2>5. ASSUME u.fault = "none"
          PROVE  Chained(m, u, v, b, n)
      <3>1. /\ sn = 0 \/ sn <= n - n
            /\ Fresh(m, u, v) /\ Tiled(u, v, b, sb)
            /\ \A i \in 1 .. Len(v) : Shaped(u, v[i], b, n)
        BY <2>1, <2>2, <2>5 DEF ChainGood
      <3>2. sb = b + n
        BY <1>2, <2>4, <3>1
      <3>3. n > 0 => Len(v) > 0
        <4>1. ASSUME n > 0
              PROVE  \E i \in 1 .. Len(v) : TRUE
          <5>1. b \in b .. (b + n) - 1
            BY <4>1
          <5> QED
            BY <3>1, <3>2, <5>1 DEF Tiled
        <4>2. Len(v) \in Nat
          OBVIOUS
        <4> QED
          BY <4>1, <4>2
      <3>4. m.fault = "none"
        BY <2>4, <2>5
      <3>5. Tiled(u, v, b, b + n)
        BY <3>1, <3>2
      <3>6. n >= 0
        BY <1>2
      <3> QED
        BY <3>1, <3>3, <3>4, <3>5, <3>6 DEF Chained
    <2> QED
      BY <2>3, <2>4, <2>5
  <1> QED
    BY <1>1, <1>2

-----------------------------------------------------------------------------
(* Chains into which others are put, and from which fpages are taken *)

LEMMA ToSetIs ==
    ASSUME NEW c \in Seq(Slots)
    PROVE  /\ DOMAIN c = 1 .. Len(c) /\ Len(c) \in Nat
           /\ ToSet(c) = {c[i] : i \in 1 .. Len(c)} /\ ToSet(c) \subseteq Slots
  BY DEF ToSet

\* d has the fpages of c and new, and none twice.
Merged(c, new, d) ==
    /\ d \in Seq(Slots) /\ ToSet(d) = ToSet(c) \cup ToSet(new)
    /\ Distinct(c) /\ Distinct(new) /\ ToSet(c) \cap ToSet(new) = {} => Distinct(d)

LEMMA SpliceMerges ==
    ASSUME NEW c \in Seq(Slots), NEW new \in Seq(Slots), NEW k \in 1 .. Len(c) + 1,
           NEW d, d = Before(c, k) \o new \o From(c, k)
    PROVE  Merged(c, new, d)
  <1>1. /\ d \in Seq(Slots) /\ Len(d) = Len(c) + Len(new)
        /\ \A i \in 1 .. Len(d) :
              d[i] = IF i < k THEN c[i]
                     ELSE IF i < k + Len(new) THEN new[i - k + 1] ELSE c[i - Len(new)]
    BY SpliceIn

  <1>2. /\ Len(c) \in Nat /\ Len(new) \in Nat /\ k \in Nat /\ k >= 1 /\ k <= Len(c) + 1
        /\ ToSet(c) = {c[i] : i \in 1 .. Len(c)}
        /\ ToSet(new) = {new[i] : i \in 1 .. Len(new)}
        /\ DOMAIN c = 1 .. Len(c) /\ DOMAIN new = 1 .. Len(new)
    <2>1. Len(c) \in Nat /\ Len(new) \in Nat /\ k \in Nat /\ k >= 1 /\ k <= Len(c) + 1
      OBVIOUS
    <2>2. ToSet(c) = {c[i] : i \in 1 .. Len(c)} /\ DOMAIN c = 1 .. Len(c)
      BY ToSetIs
    <2>3. ToSet(new) = {new[i] : i \in 1 .. Len(new)} /\ DOMAIN new = 1 .. Len(new)
      BY ToSetIs
    <2> QED
      BY <2>1, <2>2, <2>3
  <1>3. /\ ToSet(d) = {d[i] : i \in 1 .. Len(d)} /\ DOMAIN d = 1 .. Len(d)
    BY <1>1, ToSetIs
  <1>4. ASSUME NEW i \in 1 .. Len(d)
        PROVE  \/ i < k /\ i \in 1 .. Len(c) /\ d[i] = c[i]
               \/ i >= k /\ i < k + Len(new) /\ i - k + 1 \in 1 .. Len(new) /\ d[i] = new[i - k + 1]
               \/ i >= k + Len(new) /\ i - Len(new) \in 1 .. Len(c) /\ d[i] = c[i - Len(new)]
    <2>0. /\ i \in Nat /\ i >= 1 /\ i <= Len(c) + Len(new)
          /\ d[i] = IF i < k THEN c[i]
                    ELSE IF i < k + Len(new) THEN new[i - k + 1] ELSE c[i - Len(new)]
      <3>1. d[i] = IF i < k THEN c[i]
                   ELSE IF i < k + Len(new) THEN new[i - k + 1] ELSE c[i - Len(new)]
        BY <1>1, Zenon
      <3>2. i \in Nat /\ i >= 1 /\ i <= Len(c) + Len(new)
        BY <1>1, <1>2
      <3> QED
        BY <3>1, <3>2, Zenon
    <2>1. CASE i < k
      <3>1. i \in 1 .. Len(c) /\ d[i] = c[i]
        BY <1>2, <2>0, <2>1
      <3> QED
        BY <2>1, <3>1
    <2>2. CASE i >= k /\ i < k + Len(new)
      <3>1. i - k + 1 \in 1 .. Len(new) /\ ~(i < k)
        BY <1>2, <2>0, <2>2
      <3> QED
        BY <2>0, <2>2, <3>1
    <2>3. CASE i >= k + Len(new)
      <3>1. i - Len(new) \in 1 .. Len(c) /\ ~(i < k) /\ ~(i < k + Len(new))
        BY <1>2, <2>0, <2>3
      <3> QED
        BY <2>0, <2>3, <3>1
    <2>4. i < k \/ (i >= k /\ i < k + Len(new)) \/ i >= k + Len(new)
      BY <1>2, <2>0
    <2> QED
      BY <2>1, <2>2, <2>3, <2>4
  <1>5. ToSet(d) \subseteq ToSet(c) \cup ToSet(new)
    BY <1>2, <1>3, <1>4
  <1>6. ASSUME NEW i \in 1 .. Len(c)
        PROVE  c[i] \in ToSet(d)
    <2>1. CASE i < k
      <3>1. i \in 1 .. Len(d)
        BY <1>1, <1>2
      <3>2. d[i] = c[i]
        BY <1>1, <2>1, <3>1
      <3> QED
        BY <1>3, <3>1, <3>2
    <2>2. CASE i >= k
      <3>1. i + Len(new) \in 1 .. Len(d) /\ ~(i + Len(new) < k + Len(new)) /\ ~(i + Len(new) < k)
            /\ (i + Len(new)) - Len(new) = i
        BY <1>1, <1>2, <2>2
      <3> QED
        BY <1>1, <1>3, <3>1
    <2> QED
      BY <1>2, <2>1, <2>2
  <1>7. ASSUME NEW i \in 1 .. Len(new)
        PROVE  new[i] \in ToSet(d)
    <2>1. i + k - 1 \in 1 .. Len(d) /\ ~(i + k - 1 < k) /\ i + k - 1 < k + Len(new)
          /\ (i + k - 1) - k + 1 = i
      BY <1>1, <1>2
    <2> QED
      BY <1>1, <1>3, <2>1
  <1>8. ASSUME Distinct(c), Distinct(new), ToSet(c) \cap ToSet(new) = {},
               NEW i \in 1 .. Len(d), NEW j \in 1 .. Len(d), d[i] = d[j]
        PROVE  i = j
    <2>1. \A p, q \in 1 .. Len(c) : c[p] = c[q] => p = q
      BY <1>2, <1>8 DEF Distinct
    <2>2. \A p, q \in 1 .. Len(new) : new[p] = new[q] => p = q
      BY <1>2, <1>8 DEF Distinct
    <2>3. \A p \in 1 .. Len(c), q \in 1 .. Len(new) : c[p] # new[q]
      BY <1>2, <1>8
    <2>4. i \in Nat /\ j \in Nat /\ k \in Nat /\ Len(new) \in Nat
      BY <1>2
    <2>5. ASSUME NEW g \in 1 .. Len(d), NEW h \in 1 .. Len(d), g <= h, d[g] = d[h]
          PROVE  g = h
      <3>0. g \in Nat /\ h \in Nat
        OBVIOUS
      <3>1. CASE g < k /\ g \in 1 .. Len(c) /\ d[g] = c[g]
        <4>1. CASE h < k /\ h \in 1 .. Len(c) /\ d[h] = c[h]
          BY <2>1, <2>5, <3>1, <4>1
        <4>2. CASE h - k + 1 \in 1 .. Len(new) /\ d[h] = new[h - k + 1]
          BY <2>3, <2>5, <3>1, <4>2
        <4>3. CASE h >= k + Len(new) /\ h - Len(new) \in 1 .. Len(c) /\ d[h] = c[h - Len(new)]
          <5>1. g = h - Len(new)
            BY <2>1, <2>5, <3>1, <4>3
          <5> QED
            BY <2>4, <3>0, <3>1, <4>3, <5>1
        <4> QED
          BY <1>4, <4>1, <4>2, <4>3
      <3>2. CASE g >= k /\ g - k + 1 \in 1 .. Len(new) /\ d[g] = new[g - k + 1]
        <4>1. CASE h < k
          BY <2>4, <2>5, <3>0, <3>2, <4>1
        <4>2. CASE h - k + 1 \in 1 .. Len(new) /\ d[h] = new[h - k + 1]
          <5>1. g - k + 1 = h - k + 1
            BY <2>2, <2>5, <3>2, <4>2
          <5> QED
            BY <2>4, <3>0, <5>1
        <4>3. CASE h - Len(new) \in 1 .. Len(c) /\ d[h] = c[h - Len(new)]
          BY <2>3, <2>5, <3>2, <4>3
        <4> QED
          BY <1>4, <4>1, <4>2, <4>3
      <3>3. CASE g >= k + Len(new) /\ g - Len(new) \in 1 .. Len(c) /\ d[g] = c[g - Len(new)]
        <4>1. h >= k + Len(new)
          BY <2>4, <2>5, <3>0, <3>3
        <4>2. h - Len(new) \in 1 .. Len(c) /\ d[h] = c[h - Len(new)]
          <5>1. ~(h < k) /\ ~(h < k + Len(new))
            BY <2>4, <3>0, <4>1
          <5> QED
            BY <1>4, <5>1, Zenon
        <4>3. g - Len(new) = h - Len(new)
          BY <2>1, <2>5, <3>3, <4>2
        <4> QED
          BY <2>4, <3>0, <4>3
      <3> QED
        BY <1>4, <3>1, <3>2, <3>3
    <2>6. i <= j \/ j <= i
      BY <2>4
    <2> QED
      BY <1>8, <2>5, <2>6
  <1>9. ToSet(d) = ToSet(c) \cup ToSet(new)
    BY <1>2, <1>5, <1>6, <1>7
  <1>10. Distinct(c) /\ Distinct(new) /\ ToSet(c) \cap ToSet(new) = {} => Distinct(d)
    <2> SUFFICES ASSUME Distinct(c), Distinct(new), ToSet(c) \cap ToSet(new) = {}
                 PROVE  \A i, j \in 1 .. Len(d) : d[i] = d[j] => i = j
      BY <1>3 DEF Distinct
    <2> QED
      BY <1>8
  <1> QED
    BY <1>1, <1>9, <1>10, Zenon DEF Merged

\* insert_fpage_chain_to_as() keeps the fpages of both chains.
LEMMA InsertedIs ==
    ASSUME NEW m, NEW c \in Seq(Slots), NEW new \in Seq(Slots), NEW d, d = Inserted(m, c, new)
    PROVE  Merged(c, new, d)
  <1> DEFINE above == {j \in DOMAIN c : Base(m, new[Len(new)]) < Base(m, c[j])}
             k == IF above = {} THEN Len(c) + 1 ELSE FirstOf(above)
  <1>1. above \in SUBSET (1 .. Len(c)) /\ Len(c) \in Nat
    BY ToSetIs
  <1>2. d = Before(c, k) \o new \o From(c, k)
    BY DEF Inserted
  <1> HIDE DEF above
  <1>3. k \in 1 .. Len(c) + 1
    <2>1. CASE above = {}
      BY <1>1, <2>1
    <2>2. CASE above # {}
      <3>1. above \in SUBSET Nat
        BY <1>1
      <3>2. FirstOf(above) \in above
        BY <2>2, <3>1, FirstOfIs
      <3>3. FirstOf(above) \in 1 .. Len(c)
        BY <1>1, <3>2
      <3>4. k = FirstOf(above)
        BY <2>2
      <3> QED
        BY <1>1, <3>3, <3>4
    <2> QED
      BY <2>1, <2>2
  <1> HIDE DEF k
  <1> QED
    BY <1>2, <1>3, SpliceMerges

\* Those of d are in c, one behind the other.
InOrder(c, d) ==
    \A i, j \in 1 .. Len(d) : i < j => \E k, l \in 1 .. Len(c) : k < l /\ d[i] = c[k] /\ d[j] = c[l]

\* d has the fpages of c but f.
Without(c, f, d) ==
    d \in Seq(Slots) /\ InOrder(c, d) /\ (Distinct(c) => Distinct(d) /\ ToSet(d) = ToSet(c) \ {f})

LEMMA CutOut ==
    ASSUME NEW c \in Seq(Slots), NEW k \in 1 .. Len(c), NEW d, d = Before(c, k) \o From(c, k + 1)
    PROVE  Without(c, c[k], d)
  <1>0. k \in Nat /\ Len(c) \in Nat /\ k >= 1 /\ k <= Len(c)
    OBVIOUS
  <1>1. PICK x \in Seq(Slots) : /\ x = Before(c, k) /\ Len(x) = k - 1
                                /\ \A i \in 1 .. k - 1 : x[i] = c[i]
    <2>1. /\ Before(c, k) \in Seq(Slots) /\ Len(Before(c, k)) = k - 1
          /\ \A i \in 1 .. k - 1 : Before(c, k)[i] = c[i]
      BY DEF Before
    <2> QED
      BY <2>1
  <1>2. PICK y \in Seq(Slots) : /\ y = From(c, k + 1) /\ Len(y) = Len(c) - k
                                /\ \A i \in 1 .. Len(c) - k : y[i] = c[k + i]
    <2>1. k + 1 \in Int /\ Len(c) \in Int /\ \A i \in k + 1 .. Len(c) : c[i] \in Slots
      BY <1>0
    <2>2. /\ SubSeq(c, k + 1, Len(c)) \in Seq(Slots)
          /\ Len(SubSeq(c, k + 1, Len(c))) = IF k + 1 <= Len(c) THEN Len(c) - (k + 1) + 1 ELSE 0
          /\ \A i \in 1 .. Len(c) - (k + 1) + 1 : SubSeq(c, k + 1, Len(c))[i] = c[(k + 1) + i - 1]
      BY <2>1, SubSeqProperties
    <2>3. Len(c) - (k + 1) + 1 = Len(c) - k /\ \A i \in 1 .. Len(c) - k : (k + 1) + i - 1 = k + i
      BY <1>0
    <2>4. Len(From(c, k + 1)) = Len(c) - k
      <3>1. k + 1 <= Len(c) \/ Len(c) - k = 0
        BY <1>0
      <3>2. ~(k + 1 <= Len(c)) => Len(c) - k = 0
        BY <1>0
      <3> QED
        BY <2>2, <2>3, <3>2 DEF From
    <2>5. \A i \in 1 .. Len(c) - k : From(c, k + 1)[i] = c[k + i]
      BY <1>0, <2>2, <2>3 DEF From
    <2>6. From(c, k + 1) \in Seq(Slots)
      BY <2>2 DEF From
    <2> QED
      BY <2>4, <2>5, <2>6
  <1>3. /\ d \in Seq(Slots) /\ Len(d) = Len(x) + Len(y)
        /\ \A i \in 1 .. Len(x) + Len(y) : d[i] = IF i <= Len(x) THEN x[i] ELSE y[i - Len(x)]
    <2>1. d = x \o y
      BY <1>1, <1>2
    <2>2. /\ x \o y \in Seq(Slots) /\ Len(x \o y) = Len(x) + Len(y)
          /\ \A i \in 1 .. Len(x) + Len(y) : (x \o y)[i] = IF i <= Len(x) THEN x[i] ELSE y[i - Len(x)]
      BY ConcatProperties
    <2> QED
      BY <2>1, <2>2
  <1>4. Len(d) = Len(c) - 1
    BY <1>0, <1>1, <1>2, <1>3
  <1>5. ASSUME NEW i \in 1 .. Len(d)
        PROVE  d[i] = IF i < k THEN c[i] ELSE c[i + 1]
    <2>1. CASE i < k
      <3>1. i \in 1 .. k - 1 /\ i <= Len(x) /\ i \in 1 .. Len(x) + Len(y)
        BY <1>0, <1>1, <1>3, <2>1
      <3>2. d[i] = x[i]
        BY <1>3, <3>1
      <3>3. x[i] = c[i]
        BY <1>1, <3>1
      <3> QED
        BY <2>1, <3>2, <3>3
    <2>2. CASE i >= k
      <3>1. i - Len(x) = i - k + 1 /\ i - k + 1 \in 1 .. Len(c) - k /\ ~(i <= Len(x))
        BY <1>0, <1>1, <1>4, <2>2
      <3>2. d[i] = y[i - k + 1]
        BY <1>3, <3>1
      <3>3. k + (i - k + 1) = i + 1
        BY <1>0
      <3> QED
        BY <1>2, <2>2, <3>1, <3>2, <3>3
    <2> QED
      BY <1>0, <2>1, <2>2
  <1>6. /\ ToSet(c) = {c[i] : i \in 1 .. Len(c)} /\ DOMAIN c = 1 .. Len(c)
        /\ ToSet(d) = {d[i] : i \in 1 .. Len(d)} /\ DOMAIN d = 1 .. Len(d)
    BY <1>3, ToSetIs
  <1>7. ASSUME Distinct(c)
        PROVE  Distinct(d) /\ ToSet(d) = ToSet(c) \ {c[k]}
    <2>1. \A i, j \in 1 .. Len(c) : c[i] = c[j] => i = j
      BY <1>6, <1>7 DEF Distinct
    <2>2. ASSUME NEW i \in 1 .. Len(d), NEW j \in 1 .. Len(d), d[i] = d[j]
          PROVE  i = j
      <3> DEFINE at(h) == IF h < k THEN h ELSE h + 1
      <3>1. d[i] = c[at(i)] /\ d[j] = c[at(j)]
        BY <1>5
      <3>2. at(i) \in 1 .. Len(c) /\ at(j) \in 1 .. Len(c)
        BY <1>0, <1>4
      <3>3. at(i) = at(j)
        <4> HIDE DEF at
        <4> QED
          BY <2>1, <2>2, <3>1, <3>2
      <3> QED
        BY <1>0, <3>3
    <2>3. ASSUME NEW i \in 1 .. Len(d)
          PROVE  d[i] \in ToSet(c) \ {c[k]}
      <3> DEFINE at(h) == IF h < k THEN h ELSE h + 1
      <3>1. d[i] = c[at(i)]
        BY <1>5
      <3>2. at(i) \in 1 .. Len(c) /\ at(i) # k
        BY <1>0, <1>4
      <3> HIDE DEF at
      <3>3. c[at(i)] # c[k]
        BY <2>1, <3>2
      <3> QED
        BY <1>6, <3>1, <3>2, <3>3
    <2>4. ASSUME NEW i \in 1 .. Len(c), c[i] # c[k]
          PROVE  c[i] \in ToSet(d)
      <3>1. CASE i < k
        <4>1. i \in 1 .. Len(d)
          BY <1>0, <1>4, <3>1
        <4> QED
          BY <1>5, <1>6, <3>1, <4>1
      <3>2. CASE i > k
        <4>1. i - 1 \in 1 .. Len(d) /\ ~(i - 1 < k) /\ (i - 1) + 1 = i
          BY <1>0, <1>4, <3>2
        <4> QED
          BY <1>5, <1>6, <4>1
      <3>3. i # k
        BY <2>4
      <3> QED
        BY <1>0, <3>1, <3>2, <3>3
    <2>5. Distinct(d)
      BY <1>6, <2>2 DEF Distinct
    <2>6. ToSet(d) \subseteq ToSet(c) \ {c[k]}
      BY <1>6, <2>3
    <2>7. ToSet(c) \ {c[k]} \subseteq ToSet(d)
      BY <1>6, <2>4
    <2> QED
      BY <2>5, <2>6, <2>7
  <1>8. InOrder(c, d)
    <2>1. ASSUME NEW i \in 1 .. Len(d), NEW j \in 1 .. Len(d), i < j
          PROVE  \E h, l \in 1 .. Len(c) : h < l /\ d[i] = c[h] /\ d[j] = c[l]
      <3>1. PICK h \in 1 .. Len(c) : h = IF i < k THEN i ELSE i + 1
        BY <1>0, <1>4
      <3>2. PICK l \in 1 .. Len(c) : l = IF j < k THEN j ELSE j + 1
        BY <1>0, <1>4
      <3>3. h < l
        BY <1>0, <2>1, <3>1, <3>2
      <3>4. d[i] = c[h] /\ d[j] = c[l]
        BY <1>5, <3>1, <3>2
      <3> QED
        BY <3>3, <3>4
    <2> QED
      BY <2>1, Zenon DEF InOrder
  <1> QED
    BY <1>3, <1>7, <1>8 DEF Without

-----------------------------------------------------------------------------
(* What the tables are between operations: L are the spaces in use, x the  *)
(* fpages that are in no space.                                            *)

Placed(m, L, x) ==
    /\ \A a \in L : Distinct(m.chain[a]) /\ ToSet(m.chain[a]) \cap x = {}
    /\ \A a, b \in L : a # b => ToSet(m.chain[a]) \cap ToSet(m.chain[b]) = {}
    /\ m.used = x \cup UNION {ToSet(m.chain[a]) : a \in L}

\* Only the root thread's space has fpages that were not mapped from elsewhere.
Homed(m, L) == \A a \in L \ {RootSpace} : \A f \in ToSet(m.chain[a]) : m.fp[f].clone

\* Each fpage in use is in the ring of org of it, rk of which goes down to it.
InRing(m, org, rk, f) ==
    /\ m.mapNext[f] \in m.used /\ org[f] \in m.used
    /\ org[org[f]] = org[f] /\ org[m.mapNext[f]] = org[f]
    /\ m.fp[f].clone = (org[f] # f)
    /\ m.fp[f].base = m.fp[org[f]].base /\ m.fp[f].size = m.fp[org[f]].size
    /\ m.mapNext[f] # org[f] => rk[m.mapNext[f]] < rk[f]
RingBy(m, org, rk) ==
    /\ \A f \in m.used : InRing(m, org, rk, f)
    /\ \A f, g \in m.used : m.mapNext[f] = m.mapNext[g] => f = g
Ringed(m) == \E org \in [Slots -> Slots], rk \in [Slots -> Nat] : RingBy(m, org, rk)

\* All that is in use can be a region of the MPU.
ShapeOf(m, f) == m.fp[f].size \in PowersOf2 /\ m.fp[f].base % m.fp[f].size = 0
Shapely(m) == \A f \in m.used : ShapeOf(m, f)

Sound(m, L, x) == Placed(m, L, x) /\ Homed(m, L) /\ Ringed(m) /\ Shapely(m)

LEMMA UsedIs ==
    ASSUME NEW m \in Tables, NEW L \in SUBSET Spaces, NEW x, Placed(m, L, x)
    PROVE  /\ m.used \subseteq Slots /\ x \subseteq m.used
           /\ \A a \in L : m.chain[a] \in Seq(Slots) /\ ToSet(m.chain[a]) \subseteq m.used
  BY DEF Placed, Tables

LEMMA RingsSame ==
    ASSUME NEW m, NEW u, u.used = m.used, u.fp = m.fp, u.mapNext = m.mapNext
    PROVE  Ringed(m) => Ringed(u)
  <1>1. ASSUME NEW org, NEW rk, RingBy(m, org, rk)
        PROVE  RingBy(u, org, rk)
    <2>1. ASSUME NEW f \in m.used
          PROVE  InRing(u, org, rk, f)
      <3>1. InRing(m, org, rk, f)
        BY <1>1 DEF RingBy
      <3> QED
        BY <3>1 DEF InRing
    <2> QED
      BY <1>1, <2>1 DEF RingBy
  <1> QED
    BY <1>1 DEF Ringed

\* It does not depend on the other fields.
LEMMA SoundSame ==
    ASSUME NEW m, NEW u, NEW L, NEW x, Sound(m, L, x),
           u.used = m.used, u.fp = m.fp, u.mapNext = m.mapNext, \A a \in L : u.chain[a] = m.chain[a]
    PROVE  Sound(u, L, x)
  <1>1. Placed(u, L, x)
    <2>1. UNION {ToSet(u.chain[a]) : a \in L} = UNION {ToSet(m.chain[a]) : a \in L}
      OBVIOUS
    <2> QED
      BY <2>1 DEF Sound, Placed
  <1>2. Homed(u, L)
    BY DEF Sound, Homed
  <1>3. Ringed(u)
    BY RingsSame DEF Sound
  <1>4. Shapely(u)
    BY DEF Sound, Shapely, ShapeOf
  <1> QED
    BY <1>1, <1>2, <1>3, <1>4 DEF Sound

\* New fpages are in rings of their own.
LEMMA SoundFresh ==
    ASSUME NEW m \in Tables, NEW u \in Tables, NEW L \in SUBSET Spaces, NEW x, Sound(m, L, x),
           NEW v, Fresh(m, u, v), \A f \in ToSet(v) : ShapeOf(u, f)
    PROVE  Sound(u, L, x \cup ToSet(v)) /\ ToSet(v) \cap x = {} /\ u.chain = m.chain
  <1>1. /\ u.chain = m.chain /\ u.used = m.used \cup ToSet(v) /\ ToSet(v) \cap m.used = {}
        /\ \A f \in m.used : u.fp[f] = m.fp[f] /\ u.mapNext[f] = m.mapNext[f]
        /\ \A f \in ToSet(v) : u.mapNext[f] = f /\ ~u.fp[f].clone
        /\ ToSet(v) \subseteq Slots
    <2>1. u.chain = m.chain
      BY DEF Fresh, Same, Tables
    <2>2. ToSet(v) \subseteq Slots
      BY ToSetIs DEF Fresh
    <2> QED
      BY <2>1, <2>2 DEF Fresh
  <1>2. /\ m.used \subseteq Slots /\ x \subseteq m.used
        /\ \A a \in L : m.chain[a] \in Seq(Slots) /\ ToSet(m.chain[a]) \subseteq m.used
    BY UsedIs DEF Sound
  <1>3. Placed(u, L, x \cup ToSet(v))
    <2>1. u.used = (x \cup ToSet(v)) \cup UNION {ToSet(u.chain[a]) : a \in L}
      BY <1>1 DEF Sound, Placed
    <2>2. \A a \in L : Distinct(u.chain[a]) /\ ToSet(u.chain[a]) \cap (x \cup ToSet(v)) = {}
      BY <1>1, <1>2 DEF Sound, Placed
    <2> QED
      BY <1>1, <2>1, <2>2 DEF Sound, Placed
  <1>4. Homed(u, L)
    BY <1>1, <1>2 DEF Sound, Homed
  <1>5. Ringed(u)
    <2>1. PICK org \in [Slots -> Slots], rk \in [Slots -> Nat] : RingBy(m, org, rk)
      BY DEF Sound, Ringed
    <2> DEFINE to == [f \in Slots |-> IF f \in ToSet(v) THEN f ELSE org[f]]
    <2>2. to \in [Slots -> Slots]
      OBVIOUS
    <2>3. \A f \in ToSet(v) : to[f] = f
      BY <1>1
    <2>4. \A f \in m.used : to[f] = org[f]
      BY <1>1, <1>2
    <2> HIDE DEF to
    <2>5. ASSUME NEW f \in m.used
          PROVE  InRing(u, to, rk, f) /\ u.mapNext[f] \in m.used
      <3>1. InRing(m, org, rk, f)
        BY <2>1 DEF RingBy
      <3>2. /\ u.mapNext[f] = m.mapNext[f] /\ u.fp[f] = m.fp[f] /\ u.fp[org[f]] = m.fp[org[f]]
            /\ to[f] = org[f] /\ to[m.mapNext[f]] = org[m.mapNext[f]] /\ to[org[f]] = org[org[f]]
        BY <1>1, <2>4, <3>1 DEF InRing
      <3>3. u.used = m.used \cup ToSet(v)
        BY <1>1
      <3> QED
        BY <3>1, <3>2, <3>3 DEF InRing
    <2>6. ASSUME NEW f \in u.used, NEW g \in u.used, u.mapNext[f] = u.mapNext[g]
          PROVE  f = g
      <3>1. \A h \in m.used : u.mapNext[h] = m.mapNext[h] /\ u.mapNext[h] \in m.used
        BY <1>1, <2>5
      <3>2. \A h \in ToSet(v) : u.mapNext[h] = h /\ h \notin m.used
        BY <1>1
      <3>3. f \in m.used <=> g \in m.used
        BY <1>1, <2>6, <3>1, <3>2
      <3>4. \A h, i \in m.used : m.mapNext[h] = m.mapNext[i] => h = i
        BY <2>1, Zenon DEF RingBy
      <3> QED
        BY <1>1, <2>6, <3>1, <3>2, <3>3, <3>4
    <2>7. ASSUME NEW f \in ToSet(v)
          PROVE  InRing(u, to, rk, f)
      <3>1. u.mapNext[f] = f /\ ~u.fp[f].clone /\ to[f] = f /\ f \in u.used
        BY <1>1, <2>3
      <3>2. u.fp[f].clone \in BOOLEAN
        BY <1>1 DEF Tables, Fpages
      <3> QED
        BY <3>1, <3>2 DEF InRing
    <2>8. RingBy(u, to, rk)
      BY <1>1, <2>5, <2>6, <2>7 DEF RingBy
    <2> QED
      BY <2>2, <2>8 DEF Ringed
  <1>6. Shapely(u)
    BY <1>1 DEF Sound, Shapely, ShapeOf
  <1> QED
    BY <1>1, <1>2, <1>3, <1>4, <1>5, <1>6 DEF Sound

\* w is u but for the chain of a.
Relisted(u, w, a, d) == w \in Tables /\ Same(u, w, {"chain"}) /\ w.chain = [u.chain EXCEPT ![a] = d]

LEMMA RelistedIs ==
    ASSUME NEW u \in Tables, NEW a \in Spaces, NEW d, NEW w, Relisted(u, w, a, d)
    PROVE  /\ w.used = u.used /\ w.fp = u.fp /\ w.mapNext = u.mapNext /\ w.live = u.live
           /\ w.shared = u.shared /\ w.fault = u.fault /\ w.chain[a] = d
           /\ \A b \in Spaces \ {a} : w.chain[b] = u.chain[b]
  BY DEF Relisted, Same, Tables

LEMMA RelistIs ==
    ASSUME NEW u \in Tables, NEW a \in Spaces, NEW d \in Seq(Slots), NEW w, w = [u EXCEPT !.chain[a] = d]
    PROVE  Relisted(u, w, a, d)
  BY DEF Relisted, Tables, Same

\* Fpages that are in no space come into one.
LEMMA SoundIn ==
    ASSUME NEW u \in Tables, NEW L \in SUBSET Spaces, NEW x, NEW v \in Seq(Slots), Distinct(v),
           Sound(u, L, x \cup ToSet(v)), ToSet(v) \cap x = {}, NEW a \in L,
           a = RootSpace \/ \A f \in ToSet(v) : u.fp[f].clone,
           NEW d, Merged(u.chain[a], v, d), NEW w, Relisted(u, w, a, d)
    PROVE  Sound(w, L, x)
  <1>1. /\ w.used = u.used /\ w.fp = u.fp /\ w.mapNext = u.mapNext /\ w.chain[a] = d
        /\ \A b \in L \ {a} : w.chain[b] = u.chain[b]
    BY RelistedIs
  <1>2. /\ \A b \in L : Distinct(u.chain[b]) /\ ToSet(u.chain[b]) \cap (x \cup ToSet(v)) = {}
        /\ \A b, c \in L : b # c => ToSet(u.chain[b]) \cap ToSet(u.chain[c]) = {}
        /\ u.used = (x \cup ToSet(v)) \cup UNION {ToSet(u.chain[b]) : b \in L}
    BY DEF Sound, Placed
  <1>3. ToSet(d) = ToSet(u.chain[a]) \cup ToSet(v) /\ Distinct(d)
    BY <1>2 DEF Merged
  <1>4. Placed(w, L, x)
    <2>1. \A b \in L : Distinct(w.chain[b]) /\ ToSet(w.chain[b]) \cap x = {}
      BY <1>1, <1>2, <1>3
    <2>2. \A b, c \in L : b # c => ToSet(w.chain[b]) \cap ToSet(w.chain[c]) = {}
      BY <1>1, <1>2, <1>3
    <2>3. w.used = x \cup UNION {ToSet(w.chain[b]) : b \in L}
      <3>1. UNION {ToSet(w.chain[b]) : b \in L} = ToSet(v) \cup UNION {ToSet(u.chain[b]) : b \in L}
        BY <1>1, <1>3
      <3> QED
        BY <1>1, <1>2, <3>1
    <2> QED
      BY <2>1, <2>2, <2>3 DEF Placed
  <1>5. Homed(w, L)
    BY <1>1, <1>3 DEF Sound, Homed
  <1>6. Ringed(w)
    BY <1>1, RingsSame DEF Sound
  <1>7. Shapely(w)
    BY <1>1 DEF Sound, Shapely, ShapeOf
  <1> QED
    BY <1>4, <1>5, <1>6, <1>7 DEF Sound

\* An fpage is taken out of its space.
LEMMA SoundOut ==
    ASSUME NEW u \in Tables, NEW L \in SUBSET Spaces, NEW x, Sound(u, L, x), NEW a \in L,
           NEW f, f \in ToSet(u.chain[a]), NEW d, Without(u.chain[a], f, d), NEW w, Relisted(u, w, a, d)
    PROVE  Sound(w, L, x \cup {f}) /\ f \notin x
  <1>1. /\ w.used = u.used /\ w.fp = u.fp /\ w.mapNext = u.mapNext /\ w.chain[a] = d
        /\ \A b \in L \ {a} : w.chain[b] = u.chain[b]
    BY RelistedIs
  <1>2. /\ \A b \in L : Distinct(u.chain[b]) /\ ToSet(u.chain[b]) \cap x = {}
        /\ \A b, c \in L : b # c => ToSet(u.chain[b]) \cap ToSet(u.chain[c]) = {}
        /\ u.used = x \cup UNION {ToSet(u.chain[b]) : b \in L}
    BY DEF Sound, Placed
  <1>3. ToSet(d) = ToSet(u.chain[a]) \ {f} /\ Distinct(d)
    BY <1>2 DEF Without
  <1>4. Placed(w, L, x \cup {f})
    <2>1. \A b \in L : Distinct(w.chain[b]) /\ ToSet(w.chain[b]) \cap (x \cup {f}) = {}
      BY <1>1, <1>2, <1>3
    <2>2. \A b, c \in L : b # c => ToSet(w.chain[b]) \cap ToSet(w.chain[c]) = {}
      BY <1>1, <1>2, <1>3
    <2>3. w.used = (x \cup {f}) \cup UNION {ToSet(w.chain[b]) : b \in L}
      <3>1. {f} \cup UNION {ToSet(w.chain[b]) : b \in L} = UNION {ToSet(u.chain[b]) : b \in L}
        BY <1>1, <1>3
      <3> QED
        BY <1>1, <1>2, <3>1
    <2> QED
      BY <2>1, <2>2, <2>3 DEF Placed
  <1>5. Homed(w, L)
    BY <1>1, <1>3 DEF Sound, Homed
  <1>6. Ringed(w)
    BY <1>1, RingsSame DEF Sound
  <1>7. Shapely(w)
    BY <1>1 DEF Sound, Shapely, ShapeOf
  <1> QED
    BY <1>2, <1>4, <1>5, <1>6, <1>7 DEF Sound

-----------------------------------------------------------------------------
(* Rings *)

\* Who is in a ring of its own was not mapped, and nobody is mapped from it.
LEMMA RingAlone ==
    ASSUME NEW m \in Tables, NEW org \in [Slots -> Slots], NEW rk \in [Slots -> Nat],
           RingBy(m, org, rk), NEW f \in m.used, m.mapNext[f] = f
    PROVE  org[f] = f /\ \A g \in m.used : org[g] = f => g = f
  <1>0. m.used \subseteq Slots /\ \A g \in m.used : InRing(m, org, rk, g)
    BY DEF RingBy, Tables
  <1>1. org[f] = f
    <2>1. rk[f] \in Nat
      BY <1>0
    <2> QED
      BY <1>0, <2>1 DEF InRing
  <1>2. ASSUME NEW g0 \in m.used, org[g0] = f, g0 # f
        PROVE  FALSE
    <2> DEFINE R == {rk[g] : g \in {h \in m.used : org[h] = f /\ h # f}}
    <2>1. R \in SUBSET Nat /\ R # {}
      BY <1>0, <1>2
    <2> HIDE DEF R
    <2>2. PICK n \in R : \A k \in R : n <= k
      BY <2>1, LeastNatural
    <2> USE DEF R
    <2>3. PICK g \in m.used : org[g] = f /\ g # f /\ n = rk[g]
      BY <2>2
    <2>4. m.mapNext[g] \in m.used /\ org[m.mapNext[g]] = f /\ (m.mapNext[g] # f => rk[m.mapNext[g]] < rk[g])
      BY <1>0, <2>3 DEF InRing
    <2>5. m.mapNext[g] # f
      BY <2>3 DEF RingBy
    <2>6. rk[m.mapNext[g]] \in R
      BY <2>4, <2>5
    <2>7. rk[m.mapNext[g]] \in Nat /\ rk[g] \in Nat
      BY <1>0, <2>3, <2>4
    <2> QED
      BY <2>2, <2>3, <2>4, <2>5, <2>6, <2>7
  <1> QED
    BY <1>1, <1>2

\* It can be freed.
LEMMA RingsAlone ==
    ASSUME NEW m \in Tables, Ringed(m), NEW f \in m.used, m.mapNext[f] = f,
           NEW u, u.used = m.used \ {f}, u.fp = m.fp, u.mapNext = m.mapNext
    PROVE  Ringed(u) /\ ~m.fp[f].clone
  <1>1. PICK org \in [Slots -> Slots], rk \in [Slots -> Nat] : RingBy(m, org, rk)
    BY DEF Ringed
  <1>2. org[f] = f /\ \A g \in m.used : org[g] = f => g = f
    BY <1>1, RingAlone
  <1>3. ASSUME NEW g \in u.used
        PROVE  InRing(u, org, rk, g)
    <2>1. InRing(m, org, rk, g) /\ g \in m.used /\ g # f
      BY <1>1, <1>3 DEF RingBy
    <2>2. org[g] # f /\ m.mapNext[g] # f
      BY <1>1, <1>2, <2>1 DEF RingBy
    <2> QED
      BY <2>1, <2>2 DEF InRing
  <1>4. RingBy(u, org, rk)
    BY <1>1, <1>3 DEF RingBy
  <1>5. ~m.fp[f].clone
    BY <1>1, <1>2 DEF RingBy, InRing
  <1> QED
    BY <1>4, <1>5 DEF Ringed

\* One that was mapped goes out of its ring.
LEMMA RingsCut ==
    ASSUME NEW m \in Tables, Ringed(m), NEW f \in m.used, m.fp[f].clone,
           NEW prev \in m.used, m.mapNext[prev] = f,
           NEW u, u.used = m.used \ {f}, u.fp = m.fp, u.mapNext = [m.mapNext EXCEPT ![prev] = m.mapNext[f]]
    PROVE  Ringed(u)
  <1>1. PICK org \in [Slots -> Slots], rk \in [Slots -> Nat] : RingBy(m, org, rk)
    BY DEF Ringed
  <1>2. InRing(m, org, rk, f) /\ InRing(m, org, rk, prev)
    BY <1>1 DEF RingBy
  <1>3. org[f] # f /\ org[prev] = org[f] /\ m.used \subseteq Slots
    <2>1. org[f] # f
      BY <1>2 DEF InRing
    <2> QED
      BY <1>2, <2>1 DEF InRing, Tables
  <1>4. rk[f] < rk[prev] /\ rk[f] \in Nat /\ rk[prev] \in Nat
    BY <1>2, <1>3 DEF InRing
  <1>5. prev # f /\ m.mapNext[f] # f
    <2>1. prev # f
      BY <1>4
    <2> QED
      BY <1>1, <2>1 DEF RingBy
  <1>6. /\ u.mapNext[prev] = m.mapNext[f]
        /\ \A g \in m.used : g # prev => u.mapNext[g] = m.mapNext[g] /\ m.mapNext[g] # f
    <2>1. m.mapNext \in [Slots -> Slots]
      BY DEF Tables
    <2> QED
      BY <1>1, <1>3, <2>1 DEF RingBy
  <1>7. ASSUME NEW g \in m.used, g # f
        PROVE  InRing(u, org, rk, g)
    <2>1. InRing(m, org, rk, g) /\ org[g] # f
      <3>1. InRing(m, org, rk, g)
        BY <1>1 DEF RingBy
      <3> QED
        BY <1>3, <3>1 DEF InRing
    <2>2. CASE g # prev
      <3>1. u.mapNext[g] = m.mapNext[g] /\ m.mapNext[g] # f
        BY <1>6, <2>2
      <3> QED
        BY <2>1, <3>1 DEF InRing
    <2>3. CASE g = prev
      <3>1. u.mapNext[g] = m.mapNext[f]
        BY <1>6, <2>3
      <3>2. m.mapNext[f] \in m.used /\ org[m.mapNext[f]] = org[g]
        BY <1>2, <1>3, <2>3 DEF InRing
      <3>3. m.mapNext[f] # org[g] => rk[m.mapNext[f]] < rk[g]
        <4>1. rk[m.mapNext[f]] \in Nat
          BY <1>3, <3>2
        <4>2. m.mapNext[f] # org[f] => rk[m.mapNext[f]] < rk[f]
          BY <1>2 DEF InRing
        <4> QED
          BY <1>3, <1>4, <2>3, <4>1, <4>2
      <3> QED
        BY <1>5, <2>1, <3>1, <3>2, <3>3 DEF InRing
    <2> QED
      BY <2>2, <2>3
  <1>8. ASSUME NEW g \in u.used, NEW h \in u.used, u.mapNext[g] = u.mapNext[h]
        PROVE  g = h
    <2>1. g \in m.used /\ h \in m.used /\ g # f /\ h # f
      BY <1>8
    <2>2. \A i, j \in m.used : m.mapNext[i] = m.mapNext[j] => i = j
      BY <1>1 DEF RingBy
    <2>3. CASE g = prev
      BY <1>6, <1>8, <2>1, <2>2, <2>3
    <2>4. CASE g # prev
      BY <1>6, <1>8, <2>1, <2>2, <2>4
    <2> QED
      BY <2>3, <2>4
  <1>9. RingBy(u, org, rk)
    BY <1>7, <1>8 DEF RingBy
  <1> QED
    BY <1>9 DEF Ringed

\* A new one is mapped from f.
LEMMA RingsGrow ==
    ASSUME NEW m \in Tables, Ringed(m), NEW f \in m.used, NEW new \in Slots \ m.used,
           NEW u \in Tables, u.used = m.used \cup {new}, \A g \in m.used : u.fp[g] = m.fp[g],
           u.fp[new].clone, u.fp[new].base = m.fp[f].base, u.fp[new].size = m.fp[f].size,
           u.mapNext[new] = m.mapNext[f], u.mapNext[f] = new,
           \A g \in m.used \ {f} : u.mapNext[g] = m.mapNext[g]
    PROVE  Ringed(u)
  <1>1. PICK org \in [Slots -> Slots], rk \in [Slots -> Nat] : RingBy(m, org, rk)
    BY DEF Ringed
  <1>2. m.used \subseteq Slots /\ \A g \in m.used : InRing(m, org, rk, g)
    BY <1>1 DEF RingBy, Tables
  <1> DEFINE to == [g \in Slots |-> IF g = new THEN org[f] ELSE org[g]]
             height == [g \in Slots |-> IF g = new THEN 2 * rk[f] ELSE 2 * rk[g] + 1]
  <1>3. to \in [Slots -> Slots] /\ height \in [Slots -> Nat]
    BY <1>2
  <1>4. /\ to[new] = org[f] /\ \A g \in m.used : to[g] = org[g]
        /\ height[new] = 2 * rk[f] /\ \A g \in m.used : height[g] = 2 * rk[g] + 1
    BY <1>2
  <1> HIDE DEF to, height
  <1>5. \A g \in m.used : rk[g] \in Nat
    BY <1>2
  <1>6. ASSUME NEW g \in m.used \ {f}
        PROVE  InRing(u, to, height, g)
    <2>1. InRing(m, org, rk, g)
      BY <1>2
    <2>2. /\ u.mapNext[g] = m.mapNext[g] /\ m.mapNext[g] \in m.used /\ org[g] \in m.used
          /\ to[m.mapNext[g]] = org[m.mapNext[g]] /\ to[org[g]] = org[org[g]] /\ to[g] = org[g]
          /\ u.fp[g] = m.fp[g] /\ u.fp[org[g]] = m.fp[org[g]]
      BY <1>4, <2>1 DEF InRing
    <2>3. m.mapNext[g] # org[g] => height[m.mapNext[g]] < height[g]
      <3>1. m.mapNext[g] # org[g] => rk[m.mapNext[g]] < rk[g]
        BY <2>1 DEF InRing
      <3> QED
        BY <1>4, <1>5, <2>2, <3>1
    <2> QED
      BY <2>1, <2>2, <2>3 DEF InRing
  <1>7. InRing(u, to, height, f)
    <2>1. InRing(m, org, rk, f)
      BY <1>2
    <2>2. /\ org[f] \in m.used /\ to[org[f]] = org[org[f]] /\ to[f] = org[f] /\ to[new] = org[f]
          /\ u.fp[f] = m.fp[f] /\ u.fp[org[f]] = m.fp[org[f]]
      BY <1>4, <2>1 DEF InRing
    <2>3. height[new] < height[f]
      BY <1>4, <1>5
    <2> QED
      BY <2>1, <2>2, <2>3 DEF InRing
  <1>8. InRing(u, to, height, new)
    <2>1. InRing(m, org, rk, f)
      BY <1>2
    <2>2. /\ org[f] \in m.used /\ to[org[f]] = org[org[f]] /\ to[new] = org[f]
          /\ m.mapNext[f] \in m.used /\ to[m.mapNext[f]] = org[m.mapNext[f]]
          /\ u.fp[f] = m.fp[f] /\ u.fp[org[f]] = m.fp[org[f]]
      BY <1>4, <2>1 DEF InRing
    <2>3. m.mapNext[f] # org[f] => height[m.mapNext[f]] < height[new]
      <3>1. m.mapNext[f] # org[f] => rk[m.mapNext[f]] < rk[f]
        BY <2>1 DEF InRing
      <3> QED
        BY <1>4, <1>5, <2>2, <3>1
    <2>4. u.fp[new].clone = (to[new] # new)
      <3>1. to[new] # new
        BY <2>2
      <3>2. u.fp[new].clone \in BOOLEAN
        BY DEF Tables, Fpages
      <3> QED
        BY <3>1, <3>2
    <2>5. u.fp[new].base = u.fp[to[new]].base /\ u.fp[new].size = u.fp[to[new]].size
      BY <2>1, <2>2 DEF InRing
    <2>6. u.mapNext[new] \in u.used /\ to[new] \in u.used /\ to[to[new]] = to[new] /\ to[u.mapNext[new]] = to[new]
      BY <2>1, <2>2 DEF InRing
    <2> QED
      BY <2>2, <2>3, <2>4, <2>5, <2>6 DEF InRing
  <1>9. ASSUME NEW g \in u.used, NEW h \in u.used, u.mapNext[g] = u.mapNext[h]
        PROVE  g = h
    <2>1. \A i, j \in m.used : m.mapNext[i] = m.mapNext[j] => i = j
      BY <1>1 DEF RingBy
    <2>2. \A i \in m.used : m.mapNext[i] \in m.used /\ m.mapNext[i] # new
      BY <1>2 DEF InRing
    <2>3. CASE g = new
      BY <1>9, <2>1, <2>2, <2>3
    <2>4. CASE g = f
      BY <1>9, <2>1, <2>2, <2>4
    <2>5. CASE g \in m.used \ {f}
      BY <1>9, <2>1, <2>2, <2>5
    <2> QED
      BY <2>3, <2>4, <2>5
  <1>10. RingBy(u, to, height)
    BY <1>6, <1>7, <1>8, <1>9 DEF RingBy
  <1> QED
    BY <1>3, <1>10 DEF Ringed

LEMMA SlotsFit == Fits
  <1>1. MaxFpages \in Nat /\ 1 \in Int /\ MaxFpages \in Int
    BY SlotsAre
  <1>2. IsFiniteSet(1 .. MaxFpages) /\ Cardinality(1 .. MaxFpages) = IF 1 > MaxFpages THEN 0 ELSE MaxFpages - 1 + 1
    BY <1>1, FS_Interval
  <1>3. IsFiniteSet(Slots) /\ Cardinality(Slots) = MaxFpages
    BY <1>1, <1>2 DEF Slots
  <1> QED
    BY <1>1, <1>3, SlotsAre DEF Fits

\* g leads around in U: no two of U lead to the same.
Circles(g, U) ==
    /\ U \subseteq Slots /\ \A f \in U : g[f] \in U
    /\ \A f, h \in U : g[f] = g[h] => f = h

\* What a walk from f on comes by.
Walked(g, f, s) == s[0] = f /\ \A k \in 1 .. MaxFpages : s[k] = g[s[k - 1]]

LEMMA Walks ==
    ASSUME NEW g \in [Slots -> Slots], NEW U, Circles(g, U), NEW f \in U
    PROVE  Walked(g, f, Trail(g, f)) /\ \A k \in 0 .. MaxFpages : Trail(g, f)[k] \in U
  <1>1. g \in Links /\ f \in Slots \cup {NULL}
    BY DEF Links, Circles
  <1>2. Path(g, f, Way(g, f))
    BY <1>1, SlotsFit, WayPath
  <1>3. Trail(g, f) = Way(g, f)
    BY Zenon DEF Trail, Way, Follow
  <1>4. PICK s : s = Trail(g, f)
    OBVIOUS
  <1>5. s[0] = f /\ \A k \in 1 .. MaxFpages : s[k] = IF s[k - 1] = NULL THEN NULL ELSE g[s[k - 1]]
    BY <1>2, <1>3, <1>4 DEF Path
  <1>6. NULL \notin U /\ MaxFpages \in Nat
    BY SlotsAre DEF Circles
  <1>7. \A k \in 1 .. MaxFpages : s[k - 1] \in U => s[k] \in U
    BY <1>5, <1>6 DEF Circles
  <1>8. \A k \in 0 .. MaxFpages : s[k] \in U
    BY <1>5, <1>6, <1>7, StaysIn
  <1>9. ASSUME NEW k \in 1 .. MaxFpages
        PROVE  s[k] = g[s[k - 1]]
    <2>1. k - 1 \in 0 .. MaxFpages
      BY <1>6
    <2>2. s[k - 1] # NULL
      BY <1>6, <1>8, <2>1
    <2> QED
      BY <1>5, <2>2
  <1> QED
    BY <1>4, <1>5, <1>8, <1>9 DEF Walked

\* The walk comes back to where it began.
LEMMA Returns ==
    ASSUME NEW g \in [Slots -> Slots], NEW U, Circles(g, U), NEW f \in U
    PROVE  \E k \in 0 .. MaxFpages - 1 : g[Trail(g, f)[k]] = f
  <1>1. PICK s : s = Trail(g, f)
    OBVIOUS
  <1>2. Walked(g, f, s) /\ \A k \in 0 .. MaxFpages : s[k] \in U
    BY <1>1, Walks
  <1>3. MaxFpages \in Nat /\ IsFiniteSet(Slots) /\ Cardinality(Slots) <= MaxFpages
    BY SlotsFit, SlotsAre DEF Fits
  <1> DEFINE Meets(i) == i \in 0 .. MaxFpages /\ \E j \in 0 .. MaxFpages : i < j /\ s[i] = s[j]
             T == {i \in Nat : Meets(i)}
  <1>4. T # {}
    <2> DEFINE t == [k \in 0 .. MaxFpages |-> s[k]]
    <2>1. t \in [0 .. MaxFpages -> Slots]
      BY <1>2 DEF Circles
    <2>2. IsFiniteSet(0 .. MaxFpages) /\ Cardinality(0 .. MaxFpages) = MaxFpages + 1
      BY <1>3, FS_Interval
    <2>3. Cardinality(Slots) \in Nat
      BY <1>3, FS_CardinalityType
    <2>4. Cardinality(Slots) < Cardinality(0 .. MaxFpages)
      BY <1>3, <2>2, <2>3
    <2> HIDE DEF t
    <2>5. \E i, j \in 0 .. MaxFpages : i # j /\ t[i] = t[j]
      BY <1>3, <2>1, <2>2, <2>4, FS_PigeonHole
    <2> USE DEF t
    <2>6. PICK i \in 0 .. MaxFpages, j \in 0 .. MaxFpages : i # j /\ s[i] = s[j]
      BY <2>5
    <2>7. i \in Nat /\ j \in Nat /\ (i < j \/ j < i)
      BY <2>6
    <2> QED
      BY <2>6, <2>7
  <1>5. T \in SUBSET Nat
    OBVIOUS
  <1> HIDE DEF T
  <1>6. PICK i \in T : \A l \in T : i <= l
    BY <1>4, <1>5, LeastNatural
  <1> USE DEF T
  <1>7. PICK j \in 0 .. MaxFpages : i \in 0 .. MaxFpages /\ i < j /\ s[i] = s[j]
    BY <1>6
  <1>8. i = 0
    <2> SUFFICES ASSUME i # 0 PROVE FALSE
      OBVIOUS
    <2>1. i \in 1 .. MaxFpages /\ j \in 1 .. MaxFpages /\ i - 1 \in 0 .. MaxFpages /\ j - 1 \in 0 .. MaxFpages
          /\ i - 1 < j - 1 /\ i - 1 \in Nat /\ ~(i <= i - 1)
      BY <1>3, <1>7
    <2>2. g[s[i - 1]] = g[s[j - 1]] /\ s[i - 1] \in U /\ s[j - 1] \in U
      BY <1>2, <1>7, <2>1 DEF Walked
    <2>3. s[i - 1] = s[j - 1]
      BY <2>2 DEF Circles
    <2>4. i - 1 \in T
      BY <2>1, <2>3
    <2> QED
      BY <1>6, <2>1, <2>4
  <1>9. j \in 1 .. MaxFpages /\ j - 1 \in 0 .. MaxFpages - 1
    BY <1>3, <1>7, <1>8
  <1>10. g[s[j - 1]] = f
    BY <1>2, <1>7, <1>8, <1>9 DEF Walked
  <1> QED
    BY <1>1, <1>9, <1>10

LEMMA RingCircles ==
    ASSUME NEW m \in Tables, Ringed(m)
    PROVE  Circles(m.mapNext, m.used) /\ m.mapNext \in [Slots -> Slots]
  <1>1. PICK org \in [Slots -> Slots], rk \in [Slots -> Nat] : RingBy(m, org, rk)
    BY DEF Ringed
  <1>2. \A f \in m.used : m.mapNext[f] \in m.used
    BY <1>1 DEF RingBy, InRing
  <1>3. \A f, h \in m.used : m.mapNext[f] = m.mapNext[h] => f = h
    BY <1>1 DEF RingBy
  <1>4. m.used \subseteq Slots /\ m.mapNext \in [Slots -> Slots]
    BY DEF Tables
  <1> QED
    BY <1>2, <1>3, <1>4 DEF Circles

\* The loop in unmap_fpage() ends, at an fpage in use that leads to f.
LEMMA LinksToIs ==
    ASSUME NEW m \in Tables, Ringed(m), NEW f \in m.used
    PROVE  /\ LinksTo(m, f) # {}
           /\ \E prev \in m.used : prev = Trail(m.mapNext, f)[FirstOf(LinksTo(m, f))] /\ m.mapNext[prev] = f
  <1>1. PICK g : g = m.mapNext
    OBVIOUS
  <1>2. g \in [Slots -> Slots] /\ Circles(g, m.used)
    BY <1>1, RingCircles
  <1>3. PICK s : s = Trail(g, f)
    OBVIOUS
  <1>4. \A k \in 0 .. MaxFpages : s[k] \in m.used
    BY <1>2, <1>3, Walks
  <1>5. \E k \in 0 .. MaxFpages - 1 : g[s[k]] = f
    BY <1>2, <1>3, Returns
  <1>6. PICK T : T = {k \in 0 .. MaxFpages - 1 : g[s[k]] = f}
    OBVIOUS
  <1>7. LinksTo(m, f) = T
    BY <1>1, <1>3, <1>6, Zenon DEF LinksTo
  <1>8. T \in SUBSET Nat /\ T # {}
    BY <1>5, <1>6
  <1>9. FirstOf(T) \in T
    BY <1>8, FirstOfIs
  <1>10. FirstOf(T) \in 0 .. MaxFpages /\ g[s[FirstOf(T)]] = f
    <2>1. FirstOf(T) \in 0 .. MaxFpages - 1 /\ g[s[FirstOf(T)]] = f
      BY <1>6, <1>9
    <2>2. 0 .. MaxFpages - 1 \subseteq 0 .. MaxFpages
      BY SlotsAre
    <2> QED
      BY <2>1, <2>2
  <1> QED
    BY <1>1, <1>3, <1>4, <1>7, <1>8, <1>10

\* Each in the ring is linked from one in the ring.
LEMMA BehindIs ==
    ASSUME mem \in Tables, NEW org \in [Slots -> Slots], NEW rk \in [Slots -> Nat], RingBy(mem, org, rk),
           NEW f \in mem.used
    PROVE  /\ f \in Behind(f)
           /\ \A r \in Behind(f) : r \in mem.used /\ org[r] = org[f]
           /\ \A r \in Behind(f) : \E p \in Behind(f) : mem.mapNext[p] = r
  <1>1. PICK g : g = mem.mapNext
    OBVIOUS
  <1>2. g \in [Slots -> Slots] /\ Circles(g, mem.used)
    BY <1>1, RingCircles DEF Ringed
  <1>3. PICK h \in mem.used : h = g[f] /\ org[h] = org[f]
    BY <1>1 DEF RingBy, InRing
  <1>4. PICK s : s = Trail(g, h)
    OBVIOUS
  <1>5. Walked(g, h, s) /\ \A k \in 0 .. MaxFpages : s[k] \in mem.used
    BY <1>2, <1>4, Walks
  <1>6. Behind(f) = {s[k] : k \in 0 .. MaxFpages}
    BY <1>1, <1>3, <1>4 DEF Behind
  <1>7. MaxFpages \in Nat
    BY SlotsAre
  <1>8. f \in Behind(f)
    <2>1. PICK k \in 0 .. MaxFpages - 1 : g[s[k]] = h
      BY <1>2, <1>4, Returns
    <2>2. k \in 0 .. MaxFpages /\ s[k] = f
      BY <1>2, <1>3, <1>5, <1>7, <2>1 DEF Circles
    <2> QED
      BY <1>6, <2>2
  <1>9. ASSUME NEW k \in 0 .. MaxFpages
        PROVE  org[s[k]] = org[f]
    <2> DEFINE X == {r \in mem.used : org[r] = org[f]}
    <2>1. s[0] \in X
      BY <1>3, <1>5 DEF Walked
    <2>2. ASSUME NEW i \in 1 .. MaxFpages, s[i - 1] \in X
          PROVE  s[i] \in X
      <3>1. s[i] = g[s[i - 1]]
        BY <1>5 DEF Walked
      <3>2. InRing(mem, org, rk, s[i - 1]) /\ org[s[i - 1]] = org[f]
        BY <2>2 DEF RingBy
      <3> QED
        BY <1>1, <3>1, <3>2 DEF InRing
    <2> HIDE DEF X
    <2>3. s[k] \in X
      BY <1>7, <2>1, <2>2, StaysIn
    <2> QED
      BY <2>3 DEF X
  <1>10. ASSUME NEW k \in 0 .. MaxFpages
         PROVE  \E p \in Behind(f) : g[p] = s[k]
    <2>1. CASE k = 0
      <3>1. s[k] = g[f]
        BY <1>3, <1>5, <2>1 DEF Walked
      <3> QED
        BY <1>8, <3>1
    <2>2. CASE k # 0
      <3>1. k \in 1 .. MaxFpages /\ k - 1 \in 0 .. MaxFpages
        BY <1>7, <2>2
      <3>2. s[k] = g[s[k - 1]] /\ s[k - 1] \in Behind(f)
        BY <1>5, <1>6, <3>1 DEF Walked
      <3> QED
        BY <3>2
    <2> QED
      BY <2>1, <2>2
  <1> QED
    BY <1>1, <1>5, <1>6, <1>8, <1>9, <1>10

\* All that was mapped from f is in its ring.
LEMMA BehindHolds ==
    ASSUME mem \in Tables, NEW org \in [Slots -> Slots], NEW rk \in [Slots -> Nat], RingBy(mem, org, rk),
           NEW f \in mem.used, org[f] = f, NEW g0 \in mem.used, org[g0] = f
    PROVE  g0 \in Behind(f)
  <1>0. mem.used \subseteq Slots /\ \A g \in mem.used : InRing(mem, org, rk, g)
    BY DEF RingBy, Tables
  <1>1. /\ f \in Behind(f)
        /\ \A r \in Behind(f) : r \in mem.used /\ \E p \in Behind(f) : mem.mapNext[p] = r
    BY BehindIs
  <1> SUFFICES ASSUME g0 \notin Behind(f)
               PROVE  FALSE
    OBVIOUS
  <1> DEFINE R == {rk[g] : g \in {h \in mem.used : org[h] = f /\ h \notin Behind(f)}}
  <1>2. R \in SUBSET Nat /\ R # {}
    BY <1>0
  <1> HIDE DEF R
  <1>3. PICK n \in R : \A k \in R : n <= k
    BY <1>2, LeastNatural
  <1> USE DEF R
  <1>4. PICK g \in mem.used : org[g] = f /\ g \notin Behind(f) /\ n = rk[g]
    BY <1>3
  <1>5. PICK h \in mem.used : h = mem.mapNext[g] /\ org[h] = f /\ (h # f => rk[h] < rk[g])
    BY <1>0, <1>4 DEF InRing
  <1>6. h \notin Behind(f)
    <2> SUFFICES ASSUME h \in Behind(f) PROVE FALSE
      OBVIOUS
    <2>1. PICK p \in Behind(f) : p \in mem.used /\ mem.mapNext[p] = h
      BY <1>1
    <2>2. p = g
      BY <1>5, <2>1 DEF RingBy
    <2> QED
      BY <1>4, <2>1, <2>2
  <1>7. rk[h] \in R /\ h # f
    BY <1>1, <1>5, <1>6
  <1>8. rk[h] \in Nat /\ rk[g] \in Nat
    BY <1>0
  <1> QED
    BY <1>3, <1>4, <1>5, <1>7, <1>8

LEMMA RingsAreWhole ==
    ASSUME mem \in Tables, Ringed(mem)
    PROVE  RingsWhole
  <1>1. PICK org \in [Slots -> Slots], rk \in [Slots -> Nat] : RingBy(mem, org, rk)
    BY DEF Ringed
  <1>2. \A f \in mem.used : InRing(mem, org, rk, f)
    BY <1>1 DEF RingBy
  <1> DEFINE D == {f \in mem.used : ~mem.fp[f].clone}
             ring == [f \in D |-> Behind(f)]
  <1>3. ASSUME NEW f \in D
        PROVE  org[f] = f
    BY <1>2 DEF InRing
  <1>4. ASSUME NEW f \in D
        PROVE  /\ Behind(f) \subseteq mem.used /\ f \in Behind(f)
               /\ \A g \in Behind(f) \ {f} :
                     mem.fp[g].clone /\ Base(mem, g) = Base(mem, f) /\ End(mem, g) = End(mem, f)
    <2>1. /\ f \in Behind(f)
          /\ \A r \in Behind(f) : r \in mem.used /\ org[r] = f
      BY <1>1, <1>3, BehindIs
    <2>2. ASSUME NEW g \in Behind(f) \ {f}
          PROVE  mem.fp[g].clone /\ Base(mem, g) = Base(mem, f) /\ End(mem, g) = End(mem, f)
      <3>1. InRing(mem, org, rk, g) /\ org[g] = f /\ g # f
        BY <1>2, <2>1
      <3> QED
        BY <3>1 DEF InRing, Base, End
    <2> QED
      BY <2>1, <2>2
  <1>5. ASSUME NEW g \in mem.used
        PROVE  \E f \in D : g \in Behind(f)
    <2>1. PICK f \in mem.used : f = org[g] /\ org[f] = f
      BY <1>2 DEF InRing
    <2>2. ~mem.fp[f].clone
      BY <1>2, <2>1 DEF InRing
    <2>3. g \in Behind(f)
      BY <1>1, <2>1, BehindHolds
    <2> QED
      BY <2>2, <2>3
  <1>6. mem.used = UNION {ring[f] : f \in DOMAIN ring}
    <2>1. UNION {ring[f] : f \in DOMAIN ring} = UNION {Behind(f) : f \in D}
      OBVIOUS
    <2> HIDE DEF D, ring
    <2> QED
      BY <1>4, <1>5, <2>1
  <1>7. \A f \in DOMAIN ring :
            /\ f \in ring[f]
            /\ \A g \in ring[f] \ {f} : mem.fp[g].clone /\ Base(mem, g) = Base(mem, f) /\ End(mem, g) = End(mem, f)
    <2>1. DOMAIN ring = D /\ \A f \in D : ring[f] = Behind(f)
      OBVIOUS
    <2> HIDE DEF D, ring
    <2> QED
      BY <1>4, <2>1
  <1> QED
    BY <1>6, <1>7 DEF RingsWhole

-----------------------------------------------------------------------------
(* The order of the spaces: all begins and ends at multiples of the        *)
(* smallest fpage, fpages overlap only if one is mapped from the other, a  *)
(* space is in the order of the bases, and the fpages that are in no space *)
(* are those of the KIP, which the root thread has too.                    *)

Twins(m, f, g) == m.fp[f].base = m.fp[g].base /\ m.fp[f].size = m.fp[g].size
Apart(m, f, g) == End(m, f) <= Base(m, g) \/ End(m, g) <= Base(m, f)
OnGrid(m, f) == Multiple(Base(m, f)) /\ Multiple(End(m, f)) /\ End(m, f) <= Top
Gridded(m, U) == \A f \in U : OnGrid(m, f)
Beside(m, f, g) == Apart(m, f, g) \/ (Twins(m, f, g) /\ (m.fp[f].clone \/ m.fp[g].clone))
Sundered(m, U) == \A f, g \in U : f = g \/ Beside(m, f, g)
OrderedBy(m, c) == \A j, k \in DOMAIN c : j < k => Base(m, c[j]) <= Base(m, c[k])
Sorted(m) == \A a \in m.live : OrderedBy(m, m.chain[a])
Tidy(m) == Gridded(m, m.used) /\ Sundered(m, m.used) /\ Sorted(m)
Mirrored(m, a, f) == \E g \in ToSet(m.chain[a]) : Twins(m, f, g)
Covered(m, x) == \A f \in x : Mirrored(m, RootSpace, f)
Neat(m, x) == Tidy(m) /\ RootSpace \in m.live /\ Covered(m, x)
Kept(m, u, x) == Regular /\ Neat(m, x) => Neat(u, x)

\* What is in use is not empty.
LEMMA UsedSpans ==
    ASSUME NEW m \in Tables, Shapely(m), NEW f \in m.used
    PROVE  Base(m, f) \in Nat /\ End(m, f) \in Nat /\ Base(m, f) < End(m, f) /\ m.fp[f].size \in 1 .. Top
  <1>1. f \in Slots
    BY DEF Tables
  <1>2. PICK b \in Nat, s \in Nat : b = m.fp[f].base /\ s = m.fp[f].size
    BY <1>1, BoundsAre DEF Fpages
  <1>3. s \in 1 .. Top
    BY <1>2 DEF Shapely, ShapeOf, PowersOf2
  <1> QED
    BY <1>2, <1>3 DEF Base, End

\* All this is about the fields that give the extents and the places.
LEMMA NeatSame ==
    ASSUME NEW m, NEW u, u.used = m.used, u.fp = m.fp, u.chain = m.chain, u.live = m.live
    PROVE  /\ Tidy(m) => Tidy(u)
           /\ \A x : Neat(m, x) => Neat(u, x)
  <1>1. Gridded(m, m.used) => Gridded(u, u.used)
    BY DEF Gridded, OnGrid, Base, End
  <1>2. Sundered(m, m.used) => Sundered(u, u.used)
    BY DEF Sundered, Beside, Apart, Twins, Base, End
  <1>3. Sorted(m) => Sorted(u)
    BY DEF Sorted, OrderedBy, Base
  <1>4. \A x : Covered(m, x) => Covered(u, x)
    BY DEF Covered, Mirrored, Twins
  <1> QED
    BY <1>1, <1>2, <1>3, <1>4 DEF Neat, Tidy

LEMMA OrderedOf ==
    ASSUME NEW m, NEW c \in Seq(Slots), NEW d \in Seq(Slots), InOrder(c, d), OrderedBy(m, c)
    PROVE  OrderedBy(m, d)
  <1>1. \A j, k \in 1 .. Len(c) : j < k => Base(m, c[j]) <= Base(m, c[k])
    BY ToSetIs DEF OrderedBy
  <1>2. \A j, k \in 1 .. Len(d) : j < k => Base(m, d[j]) <= Base(m, d[k])
    BY <1>1 DEF InOrder
  <1> QED
    BY <1>2, ToSetIs DEF OrderedBy

\* Nothing of c begins inside of what is put into it.
Inside(m, new, lo, hi) == \A i \in 1 .. Len(new) : lo <= Base(m, new[i]) /\ Base(m, new[i]) < hi
Outside(m, c, lo, hi) == \A j \in 1 .. Len(c) : Base(m, c[j]) <= lo \/ hi <= Base(m, c[j])
Parted(m, c, k, lo, hi) == \A j \in 1 .. Len(c) : IF j < k THEN Base(m, c[j]) <= lo ELSE hi <= Base(m, c[j])

LEMMA SpliceOrdered ==
    ASSUME NEW m \in Tables, NEW c \in Seq(Slots), NEW new \in Seq(Slots), NEW k \in 1 .. Len(c) + 1,
           NEW d, Spliced(c, new, k, d), OrderedBy(m, c), OrderedBy(m, new),
           NEW lo \in Nat, NEW hi \in Nat, lo < hi,
           Inside(m, new, lo, hi), Parted(m, c, k, lo, hi)
    PROVE  OrderedBy(m, d)
  <1>1. /\ d \in Seq(Slots) /\ Len(d) = Len(c) + Len(new)
        /\ \A i \in 1 .. Len(d) :
              d[i] = IF i < k THEN c[i]
                     ELSE IF i < k + Len(new) THEN new[i - k + 1] ELSE c[i - Len(new)]
    BY DEF Spliced
  <1>2. PICK n \in Nat, w \in Nat : n = Len(c) /\ w = Len(new) /\ k \in 1 .. n + 1 /\ Len(d) = n + w
    BY <1>1
  <1>3. DOMAIN c = 1 .. n /\ DOMAIN new = 1 .. w /\ DOMAIN d = 1 .. n + w
    BY <1>1, <1>2
  <1> DEFINE cb == [i \in 1 .. n |-> Base(m, c[i])]
             nb == [i \in 1 .. w |-> Base(m, new[i])]
             db == [i \in 1 .. n + w |-> Base(m, d[i])]
  <1>4. cb \in [1 .. n -> Nat] /\ nb \in [1 .. w -> Nat]
    <2>1. \A i \in 1 .. n : c[i] \in Slots
      BY <1>2
    <2>2. \A i \in 1 .. w : new[i] \in Slots
      BY <1>2
    <2> QED
      BY <2>1, <2>2, BoundsAre
  <1>5. ASSUME NEW i \in 1 .. n + w
        PROVE  db[i] = IF i < k THEN cb[i] ELSE IF i < k + w THEN nb[i - k + 1] ELSE cb[i - w]
    <2>1. i < k => i \in 1 .. n
      BY <1>2
    <2>2. ~(i < k) /\ i < k + w => i - k + 1 \in 1 .. w
      BY <1>2
    <2>3. ~(i < k) /\ ~(i < k + w) => i - w \in 1 .. n
      BY <1>2
    <2>4. d[i] = IF i < k THEN c[i] ELSE IF i < k + w THEN new[i - k + 1] ELSE c[i - w]
      BY <1>1, <1>2
    <2> QED
      BY <2>1, <2>2, <2>3, <2>4
  <1>6. /\ \A i, j \in 1 .. n : i < j => cb[i] <= cb[j]
        /\ \A i, j \in 1 .. w : i < j => nb[i] <= nb[j]
        /\ \A i \in 1 .. w : lo <= nb[i] /\ nb[i] < hi
        /\ \A j \in 1 .. n : IF j < k THEN cb[j] <= lo ELSE hi <= cb[j]
    BY <1>2, <1>3 DEF OrderedBy, Inside, Parted
  <1>7. \A i \in 1 .. n + w : db[i] = Base(m, d[i])
    OBVIOUS
  <1> HIDE DEF cb, nb, db
  <1>8. ASSUME NEW i \in 1 .. n + w, NEW j \in 1 .. n + w, i < j
        PROVE  db[i] <= db[j]
    <2>1. CASE j < k
      <3>1. i \in 1 .. n /\ j \in 1 .. n /\ i < k
        BY <1>2, <1>8, <2>1
      <3> QED
        BY <1>5, <1>6, <1>8, <2>1, <3>1
    <2>2. CASE ~(j < k) /\ j < k + w
      <3>1. j - k + 1 \in 1 .. w
        BY <1>2, <2>2
      <3>2. db[j] = nb[j - k + 1]
        BY <1>5, <2>2
      <3>3. CASE i < k
        <4>1. i \in 1 .. n /\ db[i] = cb[i]
          BY <1>2, <1>5, <3>3
        <4> QED
          BY <1>4, <1>6, <3>1, <3>2, <3>3, <4>1
      <3>4. CASE ~(i < k)
        <4>1. i - k + 1 \in 1 .. w /\ i - k + 1 < j - k + 1 /\ i < k + w
          BY <1>2, <1>8, <2>2, <3>4
        <4>2. db[i] = nb[i - k + 1]
          BY <1>5, <3>4, <4>1
        <4> QED
          BY <1>6, <3>1, <3>2, <4>1, <4>2
      <3> QED
        BY <3>3, <3>4
    <2>3. CASE ~(j < k) /\ ~(j < k + w)
      <3>1. j - w \in 1 .. n /\ ~(j - w < k)
        BY <1>2, <2>3
      <3>2. db[j] = cb[j - w] /\ hi <= cb[j - w]
        BY <1>5, <1>6, <2>3, <3>1
      <3>3. CASE i < k
        <4>1. i \in 1 .. n /\ db[i] = cb[i] /\ cb[i] <= lo
          BY <1>2, <1>5, <1>6, <3>3
        <4> QED
          BY <1>4, <3>1, <3>2, <4>1
      <3>4. CASE ~(i < k) /\ i < k + w
        <4>1. i - k + 1 \in 1 .. w
          BY <1>2, <3>4
        <4>2. db[i] = nb[i - k + 1] /\ nb[i - k + 1] < hi
          BY <1>5, <1>6, <3>4, <4>1
        <4> QED
          BY <1>4, <3>1, <3>2, <4>1, <4>2
      <3>5. CASE ~(i < k) /\ ~(i < k + w)
        <4>1. i - w \in 1 .. n /\ i - w < j - w
          BY <1>2, <1>8, <3>5
        <4>2. db[i] = cb[i - w]
          BY <1>5, <3>5
        <4> QED
          BY <1>6, <3>1, <3>2, <4>1, <4>2
      <3> QED
        BY <3>3, <3>4, <3>5
    <2> QED
      BY <2>1, <2>2, <2>3
  <1>9. \A i, j \in 1 .. n + w : i < j => Base(m, d[i]) <= Base(m, d[j])
    BY <1>7, <1>8
  <1> QED
    BY <1>3, <1>9 DEF OrderedBy

\* insert_fpage_chain_to_as() finds the place.
LEMMA InsertedOrdered ==
    ASSUME NEW m \in Tables, NEW c \in Seq(Slots), NEW new \in Seq(Slots), Len(new) > 0,
           NEW d, d = Inserted(m, c, new), OrderedBy(m, c), OrderedBy(m, new),
           NEW lo \in Nat, NEW hi \in Nat, lo < hi,
           Inside(m, new, lo, hi), Outside(m, c, lo, hi)
    PROVE  OrderedBy(m, d)
  <1> DEFINE above == {j \in DOMAIN c : Base(m, new[Len(new)]) < Base(m, c[j])}
             k == IF above = {} THEN Len(c) + 1 ELSE FirstOf(above)
  <1>1. above \in SUBSET (1 .. Len(c)) /\ Len(c) \in Nat
    BY ToSetIs
  <1>2. d = Before(c, k) \o new \o From(c, k)
    BY DEF Inserted
  <1>3. PICK l \in Nat : l = Base(m, new[Len(new)]) /\ lo <= l /\ l < hi
    <2>1. Len(new) \in 1 .. Len(new) /\ new[Len(new)] \in Slots
      OBVIOUS
    <2> QED
      BY <2>1, BoundsAre DEF Inside
  <1>4. \A j \in 1 .. Len(c) : Base(m, c[j]) \in Nat
    BY BoundsAre
  <1>5. \A j \in 1 .. Len(c) : j \in above <=> l < Base(m, c[j])
    BY <1>3
  <1> HIDE DEF above
  <1>6. CASE above = {}
    <2>1. k = Len(c) + 1 /\ k \in 1 .. Len(c) + 1
      BY <1>1, <1>6
    <2> HIDE DEF k
    <2>2. Parted(m, c, k, lo, hi)
      BY <1>1, <1>3, <1>4, <1>5, <1>6, <2>1 DEF Parted, Outside
    <2>3. Spliced(c, new, k, d)
      BY <1>2, <2>1, SplicedIs
    <2> QED
      BY <2>1, <2>2, <2>3, SpliceOrdered
  <1>7. CASE above # {}
    <2>1. above \in SUBSET Nat
      BY <1>1
    <2>2. k \in above /\ \A j \in above : k <= j
      BY <1>7, <2>1, FirstOfIs
    <2> HIDE DEF k
    <2>3. k \in 1 .. Len(c) /\ k \in 1 .. Len(c) + 1
      BY <1>1, <2>2
    <2>4. hi <= Base(m, c[k])
      BY <1>3, <1>4, <1>5, <2>2, <2>3 DEF Outside
    <2>5. ASSUME NEW j \in 1 .. Len(c)
          PROVE  IF j < k THEN Base(m, c[j]) <= lo ELSE hi <= Base(m, c[j])
      <3>1. CASE j < k
        <4>1. j \notin above
          BY <1>1, <2>2, <2>3, <3>1
        <4> QED
          BY <1>3, <1>4, <1>5, <3>1, <4>1 DEF Outside
      <3>2. CASE ~(j < k)
        <4>1. j = k \/ k < j
          BY <2>3, <3>2
        <4>2. Base(m, c[k]) <= Base(m, c[j])
          BY <1>4, <2>3, <4>1, ToSetIs DEF OrderedBy
        <4> QED
          BY <1>4, <2>3, <2>4, <3>2, <4>2
      <3> QED
        BY <3>1, <3>2
    <2>6. Parted(m, c, k, lo, hi)
      BY <2>5 DEF Parted
    <2>7. Spliced(c, new, k, d)
      BY <1>2, <2>3, SplicedIs
    <2> QED
      BY <2>3, <2>6, <2>7, SpliceOrdered
  <1> QED
    BY <1>6, <1>7

\* Every fpage in use is one of the root thread's, or a map of one, or one of x,
\* which the root thread has, too.
LEMMA UsedMirrored ==
    ASSUME NEW m \in Tables, NEW L \in SUBSET Spaces, RootSpace \in L, NEW x, Sound(m, L, x), Covered(m, x),
           NEW f \in m.used
    PROVE  Mirrored(m, RootSpace, f)
  <1>1. Placed(m, L, x) /\ Homed(m, L)
    BY DEF Sound
  <1>2. PICK org \in [Slots -> Slots], rk \in [Slots -> Nat] : RingBy(m, org, rk)
    BY DEF Sound, Ringed
  <1>3. \A g \in m.used : InRing(m, org, rk, g)
    BY <1>2 DEF RingBy
  <1>4. org[f] \in m.used /\ org[org[f]] = org[f] /\ Twins(m, f, org[f])
    BY <1>3 DEF InRing, Twins
  <1>5. PICK g \in m.used : g = org[f] /\ org[g] = g /\ Twins(m, f, g)
    BY <1>4
  <1>6. ~m.fp[g].clone
    BY <1>3, <1>5 DEF InRing
  <1>7. CASE g \in x
    <2>1. PICK h \in ToSet(m.chain[RootSpace]) : Twins(m, g, h)
      BY <1>7 DEF Covered, Mirrored
    <2> QED
      BY <1>5, <2>1 DEF Mirrored, Twins
  <1>8. CASE g \notin x
    <2>1. PICK a \in L : g \in ToSet(m.chain[a])
      BY <1>1, <1>8 DEF Placed
    <2>2. a = RootSpace
      BY <1>1, <1>6, <2>1 DEF Homed
    <2> QED
      BY <1>5, <2>1, <2>2 DEF Mirrored
  <1> QED
    BY <1>7, <1>8

\* An fpage in a ring of its own overlaps with no other.
LEMMA AloneApart ==
    ASSUME NEW m \in Tables, Ringed(m), Sundered(m, m.used), NEW f \in m.used, m.mapNext[f] = f,
           NEW g \in m.used, g # f
    PROVE  Apart(m, f, g)
  <1>1. PICK org \in [Slots -> Slots], rk \in [Slots -> Nat] : RingBy(m, org, rk)
    BY DEF Ringed
  <1>2. org[f] = f /\ org[g] # f
    BY <1>1, RingAlone
  <1>3. \A h \in m.used : InRing(m, org, rk, h)
    BY <1>1 DEF RingBy
  <1>4. f \in Slots
    BY DEF Tables
  <1>5. PICK o \in m.used : o = org[g] /\ org[o] = o /\ Twins(m, g, o)
    BY <1>3 DEF InRing, Twins
  <1>6. ~m.fp[f].clone /\ ~m.fp[o].clone /\ f # o
    BY <1>2, <1>3, <1>5 DEF InRing
  <1>7. Beside(m, f, o)
    BY <1>6 DEF Sundered
  <1>8. Apart(m, f, o)
    BY <1>6, <1>7 DEF Beside
  <1> QED
    BY <1>5, <1>8 DEF Apart, Twins, Base, End

\* No fpage of U is in the memory from b to e.
Clear(m, U, b, e) == \A g \in U : End(m, g) <= b \/ e <= Base(m, g)

\* A chain that is made where nothing is fits with the rest.
LEMMA ChainedFits ==
    ASSUME NEW m \in Tables, NEW u \in Tables, Smallest \in PowersOf2,
           NEW v \in Seq(Slots), NEW b \in Nat, NEW n \in 1 .. Top, Chained(m, u, v, b, n),
           Multiple(b), Multiple(n), b + n <= Top,
           NEW U, U \subseteq m.used, Gridded(m, U), Sundered(m, U), Clear(m, U, b, b + n)
    PROVE  /\ Gridded(u, U \cup ToSet(v)) /\ Sundered(u, U \cup ToSet(v))
           /\ OrderedBy(u, v) /\ Inside(u, v, b, b + n)
           /\ \A f \in ToSet(v) : b <= Base(u, f) /\ End(u, f) <= b + n
  <1>1. n \in Nat /\ n <= Top /\ Top \in Nat /\ Smallest \in Nat \ {0}
    BY MemoryAssumption
  <1>2. Fresh(m, u, v) /\ Tiled(u, v, b, b + n) /\ \A i \in 1 .. Len(v) : Shaped(u, v[i], b, n)
    BY DEF Chained
  <1>3. \A f \in U : u.fp[f] = m.fp[f] /\ f \in Slots
    BY <1>2 DEF Fresh, Tables
  <1>4. \A f \in U : Base(u, f) = Base(m, f) /\ End(u, f) = End(m, f)
    BY <1>3 DEF Base, End
  <1>5. \A f \in Slots : Base(u, f) \in Nat /\ End(u, f) \in Nat
    BY BoundsAre
  <1>6. ToSet(v) = {v[i] : i \in 1 .. Len(v)} /\ DOMAIN v = 1 .. Len(v) /\ ToSet(v) \subseteq Slots
    BY ToSetIs
  <1>7. \A i \in 1 .. Len(v) : v[i] \in Slots /\ Base(u, v[i]) >= b /\ End(u, v[i]) <= b + n /\ Base(u, v[i]) < End(u, v[i])
    BY <1>2, <1>6 DEF Tiled
  <1>8. \A f \in ToSet(v) : f \in Slots /\ Base(u, f) >= b /\ End(u, f) <= b + n /\ Base(u, f) < End(u, f)
    BY <1>6, <1>7
  <1>9. \A i, j \in 1 .. Len(v) : i < j => End(u, v[i]) <= Base(u, v[j])
    BY <1>2 DEF Tiled
  <1>10. OrderedBy(u, v)
    BY <1>5, <1>6, <1>7, <1>9 DEF OrderedBy
  <1>11. Inside(u, v, b, b + n)
    BY <1>1, <1>5, <1>7 DEF Inside
  <1>12. ASSUME NEW f \in ToSet(v)
         PROVE  OnGrid(u, f)
    <2>1. PICK i \in 1 .. Len(v) : f = v[i]
      BY <1>6
    <2>2. Base(u, f) % Smallest = 0 /\ u.fp[f].size % Smallest = 0
      BY <1>1, <1>2, <2>1 DEF Shaped, Multiple
    <2>3. PICK p \in Nat, q \in Nat : p = u.fp[f].base /\ q = u.fp[f].size
      BY <1>8, BoundsAre DEF Fpages
    <2>4. (p + q) % Smallest = 0
      <3>1. PICK y \in Nat : p = y * Smallest
        BY <1>1, <2>2, <2>3, Multiples DEF Base
      <3>2. PICK z \in Nat : q = z * Smallest
        BY <1>1, <2>2, <2>3, Multiples
      <3>3. p + q = (y + z) * Smallest /\ y + z \in Nat
        BY <1>1, <3>1, <3>2
      <3> QED
        BY <1>1, <3>3, Multiples
    <2>5. End(u, f) <= Top
      BY <1>1, <1>5, <1>8
    <2> QED
      BY <2>2, <2>3, <2>4, <2>5 DEF OnGrid, Multiple, Base, End
  <1>13. ASSUME NEW f \in U
         PROVE  OnGrid(u, f)
    BY <1>4 DEF Gridded, OnGrid
  <1>14. ASSUME NEW f \in ToSet(v), NEW g \in ToSet(v), f # g
         PROVE  Apart(u, f, g)
    <2>1. PICK i \in 1 .. Len(v), j \in 1 .. Len(v) : f = v[i] /\ g = v[j]
      BY <1>6
    <2>2. i < j \/ j < i
      BY <1>14, <2>1
    <2> QED
      BY <1>9, <2>1, <2>2 DEF Apart
  <1>15. ASSUME NEW f \in ToSet(v), NEW g \in U
         PROVE  Apart(u, f, g) /\ Apart(u, g, f)
    <2>1. End(u, g) <= b \/ b + n <= Base(u, g)
      BY <1>4 DEF Clear
    <2> QED
      BY <1>1, <1>3, <1>5, <1>8, <2>1 DEF Apart
  <1>16. ASSUME NEW f \in U, NEW g \in U, f # g
         PROVE  Beside(u, f, g)
    <2>1. Beside(m, f, g)
      BY <1>16 DEF Sundered
    <2> QED
      BY <1>3, <1>4, <2>1 DEF Beside, Apart, Twins
  <1>17. Gridded(u, U \cup ToSet(v))
    BY <1>12, <1>13 DEF Gridded
  <1>18. Sundered(u, U \cup ToSet(v))
    BY <1>14, <1>15, <1>16 DEF Sundered, Beside
  <1> QED
    BY <1>8, <1>10, <1>11, <1>17, <1>18

\* What is in the root thread's space is mirrored as long as it is there.
LEMMA MirrorStays ==
    ASSUME NEW m, NEW u, NEW a, NEW f, Mirrored(m, a, f), u.fp[f] = m.fp[f],
           \A g \in ToSet(m.chain[a]) : g \in ToSet(u.chain[a]) /\ u.fp[g] = m.fp[g]
    PROVE  Mirrored(u, a, f)
  BY DEF Mirrored, Twins

\* A hole of the root thread's space is filled: nothing is there in any space.
LEMMA FilledNeat ==
    ASSUME NEW m \in Tables, NEW L \in SUBSET Spaces, L = m.live, NEW x, Sound(m, L, x), Regular, Neat(m, x),
           NEW a \in L, a = RootSpace, NEW u \in Tables,
           NEW v \in Seq(Slots), NEW b \in Nat, NEW n \in 1 .. Top, Chained(m, u, v, b, n),
           Multiple(b), Multiple(n), b + n <= Top,
           NEW c \in Seq(Slots), c = m.chain[a], NEW k \in 1 .. Len(c) + 1,
           \A j \in 1 .. Len(c) : IF j < k THEN End(m, c[j]) <= b ELSE b + n <= Base(m, c[j]),
           NEW d, Spliced(c, v, k, d), Merged(c, v, d), NEW w, Relisted(u, w, a, d)
    PROVE  Neat(w, x)
  <1>1. /\ Gridded(m, m.used) /\ Sundered(m, m.used) /\ Sorted(m) /\ Covered(m, x)
        /\ Shapely(m) /\ Placed(m, L, x)
    BY DEF Neat, Tidy, Sound
  <1>2. Fresh(m, u, v)
    BY DEF Chained
  <1>3. /\ u.used = m.used \cup ToSet(v) /\ ToSet(v) \cap m.used = {} /\ \A f \in m.used : u.fp[f] = m.fp[f]
        /\ u.chain = m.chain /\ u.live = m.live
    BY <1>2 DEF Fresh, Same, Tables
  <1>4. /\ w.used = u.used /\ w.fp = u.fp /\ w.live = u.live /\ w.chain[a] = d
        /\ \A g \in Spaces \ {a} : w.chain[g] = u.chain[g]
    <2>1. a \in Spaces /\ Relisted(u, w, a, d)
      OBVIOUS
    <2>2. /\ w.used = u.used /\ w.fp = u.fp /\ w.mapNext = u.mapNext /\ w.live = u.live
          /\ w.shared = u.shared /\ w.fault = u.fault /\ w.chain[a] = d
          /\ \A g \in Spaces \ {a} : w.chain[g] = u.chain[g]
      BY <2>1 DEF Relisted, Same, Tables
    <2> QED
      BY <2>2
  <1>5. /\ x \subseteq m.used /\ m.used \subseteq Slots
        /\ \A g \in L : m.chain[g] \in Seq(Slots) /\ ToSet(m.chain[g]) \subseteq m.used
    BY <1>1, UsedIs
  <1>6. n \in Nat /\ Smallest \in PowersOf2
    BY MemoryAssumption DEF Regular
  <1>7. \A g \in ToSet(c) : End(m, g) <= b \/ b + n <= Base(m, g)
    BY ToSetIs
  <1>8. Clear(m, m.used, b, b + n)
    <2>1. ASSUME NEW f \in m.used
          PROVE  End(m, f) <= b \/ b + n <= Base(m, f)
      <3>1. PICK g \in ToSet(c) : Twins(m, f, g)
        BY <1>1, UsedMirrored DEF Mirrored
      <3>2. End(m, f) = End(m, g) /\ Base(m, f) = Base(m, g)
        BY <3>1 DEF Twins, Base, End
      <3> QED
        BY <1>7, <3>2
    <2> QED
      BY <2>1 DEF Clear
  <1>9. /\ Gridded(u, m.used \cup ToSet(v)) /\ Sundered(u, m.used \cup ToSet(v))
        /\ OrderedBy(u, v) /\ Inside(u, v, b, b + n)
    BY <1>1, <1>6, <1>8, ChainedFits
  <1>10. Gridded(w, w.used) /\ Sundered(w, w.used)
    <2>1. w.used = m.used \cup ToSet(v) /\ w.fp = u.fp
      BY <1>3, <1>4
    <2> QED
      BY <1>9, <2>1 DEF Gridded, Sundered, Beside, Apart, Twins, OnGrid, Base, End
  <1>11. ASSUME NEW g \in L
         PROVE  OrderedBy(u, m.chain[g])
    <2>1. OrderedBy(m, m.chain[g])
      BY <1>1 DEF Sorted
    <2>2. \A i \in DOMAIN m.chain[g] : u.fp[m.chain[g][i]] = m.fp[m.chain[g][i]]
      BY <1>3, <1>5 DEF ToSet
    <2> QED
      BY <2>1, <2>2 DEF OrderedBy, Base
  <1>12. OrderedBy(u, d)
    <2>1. Parted(u, c, k, b, b + n)
      <3>1. ASSUME NEW j \in 1 .. Len(c)
            PROVE  IF j < k THEN Base(u, c[j]) <= b ELSE b + n <= Base(u, c[j])
        <4>1. c[j] \in m.used
          BY <1>5, ToSetIs
        <4>2. Base(u, c[j]) = Base(m, c[j])
          BY <1>3, <4>1 DEF Base
        <4>3. Base(m, c[j]) \in Nat /\ End(m, c[j]) \in Nat /\ Base(m, c[j]) < End(m, c[j])
          BY <1>1, <4>1, UsedSpans
        <4>4. IF j < k THEN End(m, c[j]) <= b ELSE b + n <= Base(m, c[j])
          OBVIOUS
        <4> QED
          BY <4>2, <4>3, <4>4
      <3> QED
        BY <3>1 DEF Parted
    <2>2. OrderedBy(u, c)
      BY <1>11
    <2>3. PICK e \in Nat : e = b + n /\ b < e
      BY <1>6
    <2>4. Inside(u, v, b, e) /\ Parted(u, c, k, b, e)
      BY <1>9, <2>1, <2>3
    <2> QED
      BY <1>9, <2>2, <2>3, <2>4, SpliceOrdered
  <1>13. Sorted(w)
    <2>1. ASSUME NEW g \in w.live
          PROVE  OrderedBy(w, w.chain[g])
      <3>1. g \in L /\ g \in Spaces
        BY <1>3, <1>4
      <3>2. w.chain[g] = IF g = a THEN d ELSE m.chain[g]
        BY <1>3, <1>4, <3>1
      <3>3. OrderedBy(u, w.chain[g])
        BY <1>11, <1>12, <3>1, <3>2
      <3> QED
        BY <1>4, <3>3 DEF OrderedBy, Base
    <2> QED
      BY <2>1 DEF Sorted
  <1>14. Covered(w, x)
    <2>1. ASSUME NEW f \in x
          PROVE  Mirrored(w, RootSpace, f)
      <3>1. Mirrored(m, RootSpace, f)
        BY <1>1 DEF Covered
      <3>2. \A g \in m.used : w.fp[g] = m.fp[g]
        BY <1>3, <1>4
      <3>3. ToSet(m.chain[RootSpace]) \subseteq ToSet(w.chain[RootSpace])
        BY <1>4 DEF Merged
      <3> QED
        BY <1>5, <3>1, <3>2, <3>3, MirrorStays
    <2> QED
      BY <2>1 DEF Covered
  <1>15. RootSpace \in w.live
    BY <1>3, <1>4
  <1> QED
    BY <1>10, <1>13, <1>14, <1>15 DEF Neat, Tidy

\* Fpages that are not used any more leave the rest as it is.
LEMMA NeatLess ==
    ASSUME NEW m, NEW u, u.used \subseteq m.used, u.fp = m.fp
    PROVE  /\ Gridded(m, m.used) => Gridded(u, u.used)
           /\ Sundered(m, m.used) => Sundered(u, u.used)
  <1>1. Gridded(m, m.used) => Gridded(u, u.used)
    BY DEF Gridded, OnGrid, Base, End
  <1>2. Sundered(m, m.used) => Sundered(u, u.used)
    BY DEF Sundered, Beside, Apart, Twins, Base, End
  <1> QED
    BY <1>1, <1>2

-----------------------------------------------------------------------------
(* What an operation makes of the tables *)

\* A fault stays; and if there is none, all is sound, and in order if it was, and no
\* space has come or gone.
After(m, u, x) ==
    /\ u \in Tables /\ u.fault # "endless"
    /\ u.fault = "none" => /\ m.fault = "none" /\ u.live = m.live /\ u.shared = m.shared
                           /\ Sound(u, m.live, x) /\ Kept(m, u, x)
Good(m, x) == After(m, m, x)

LEMMA AfterGood ==
    ASSUME NEW m, NEW u, NEW x, After(m, u, x)
    PROVE  Good(u, x)
  BY DEF After, Good, Kept

LEMMA AfterBoth ==
    ASSUME NEW m, NEW u, NEW w, NEW x, After(m, u, x), After(u, w, x)
    PROVE  After(m, w, x)
  BY DEF After, Kept

LEMMA AfterFault ==
    ASSUME NEW m, NEW u \in Tables, NEW x, u.fault # "none", u.fault # "endless"
    PROVE  After(m, u, x)
  BY DEF After

LEMMA LiveIs ==
    ASSUME NEW m \in Tables
    PROVE  m.live \in SUBSET Spaces /\ m.chain \in [Spaces -> Seq(Slots)]
  BY DEF Tables

LEMMA AlignedIs ==
    ASSUME NEW a \in Nat
    PROVE  Aligned(a) \in Nat /\ a <= Aligned(a) /\ (a <= Top => Aligned(a) <= Top) /\ Multiple(Aligned(a))
  <1>1. Smallest \in Nat \ {0} /\ Top \in Nat /\ Top % Smallest = 0
    BY MemoryAssumption
  <1>2. PICK y \in Nat : y = a + Smallest - 1
    BY <1>1
  <1>3. PICK q \in Nat : q = y \div Smallest /\ y = q * Smallest + (y % Smallest) /\ y % Smallest \in 0 .. Smallest - 1
    BY <1>1
  <1>4. Aligned(a) = q * Smallest
    BY <1>2, <1>3 DEF Aligned
  <1>5. q * Smallest \in Nat
    BY <1>1
  <1>6. a <= q * Smallest
    <2>1. y % Smallest <= Smallest - 1 /\ y % Smallest \in Nat
      BY <1>1, <1>3
    <2> QED
      BY <1>1, <1>2, <1>3, <1>5, <2>1
  <1>7. ASSUME a <= Top
        PROVE  q * Smallest <= Top
    <2>1. PICK t \in Nat : Top = t * Smallest
      BY <1>1, Multiples
    <2>2. q * Smallest <= a + Smallest - 1
      BY <1>1, <1>2, <1>3, <1>5
    <2>3. ASSUME t < q
          PROVE  FALSE
      <3>1. (t + 1) * Smallest <= q * Smallest
        BY <1>1, <2>3
      <3>2. (t + 1) * Smallest = t * Smallest + Smallest
        BY <1>1
      <3>3. t * Smallest \in Nat
        BY <1>1
      <3> QED
        BY <1>1, <1>5, <1>7, <2>1, <2>2, <3>1, <3>2, <3>3
    <2>4. q <= t
      BY <2>3
    <2> QED
      BY <1>1, <2>1, <2>4
  <1>8. Multiple(q * Smallest)
    BY <1>1, <1>5, Multiples DEF Multiple
  <1> QED
    BY <1>4, <1>5, <1>6, <1>7, <1>8

\* It is the next multiple, and so itself for one.
LEMMA AlignedLeast ==
    ASSUME NEW a \in Nat, NEW z \in Nat, a <= z, Multiple(z)
    PROVE  Aligned(a) <= z
  <1>1. Smallest \in Nat \ {0}
    BY MemoryAssumption
  <1>2. PICK y \in Nat : y = a + Smallest - 1
    BY <1>1
  <1>3. PICK q \in Nat : q = y \div Smallest /\ y = q * Smallest + (y % Smallest) /\ y % Smallest \in 0 .. Smallest - 1
    BY <1>1
  <1>4. Aligned(a) = q * Smallest
    BY <1>2, <1>3 DEF Aligned
  <1>5. PICK t \in Nat : z = t * Smallest
    BY <1>1, Multiples DEF Multiple
  <1>6. q * Smallest \in Nat /\ t * Smallest \in Nat /\ q * Smallest <= a + Smallest - 1
    BY <1>1, <1>2, <1>3
  <1>7. ASSUME t < q
        PROVE  FALSE
    <2>1. (t + 1) * Smallest <= q * Smallest
      BY <1>1, <1>7
    <2>2. (t + 1) * Smallest = t * Smallest + Smallest
      BY <1>1
    <2> QED
      BY <1>1, <1>5, <1>6, <2>1, <2>2
  <1>8. q <= t
    BY <1>7
  <1> QED
    BY <1>1, <1>4, <1>5, <1>8

LEMMA AlignedSame ==
    ASSUME NEW a \in Nat, Multiple(a)
    PROVE  Aligned(a) = a
  <1>1. Aligned(a) \in Nat /\ a <= Aligned(a)
    BY AlignedIs
  <1>2. Aligned(a) <= a
    BY AlignedLeast
  <1> QED
    BY <1>1, <1>2

\* What is between two multiples is one.
LEMMA Difference ==
    ASSUME NEW a \in Nat, NEW z \in Nat, a <= z, Multiple(a), Multiple(z)
    PROVE  z - a \in Nat /\ Multiple(z - a)
  <1>1. PICK s \in Nat \ {0} : s = Smallest
    BY MemoryAssumption
  <1>2. PICK p \in Nat, q \in Nat : a = p * s /\ z = q * s
    BY <1>1, Multiples DEF Multiple
  <1>3. p <= q
    <2>1. ASSUME q < p
          PROVE  FALSE
      <3>1. (q + 1) * s <= p * s
        BY <1>1, <2>1
      <3>2. (q + 1) * s = q * s + s
        BY <1>1
      <3>3. q * s \in Nat /\ p * s \in Nat
        BY <1>1
      <3> QED
        BY <1>1, <1>2, <3>1, <3>2, <3>3
    <2> QED
      BY <2>1
  <1>4. PICK d \in Nat : q = p + d
    <2>1. q - p \in Nat /\ q = p + (q - p)
      BY <1>3
    <2> QED
      BY <2>1
  <1>5. q * s = p * s + d * s
    BY <1>1, <1>4
  <1>6. p * s \in Nat /\ d * s \in Nat /\ q * s \in Nat
    BY <1>1
  <1>7. z - a = d * s
    BY <1>2, <1>5, <1>6
  <1>8. Multiple(d * s)
    BY <1>1, Multiples DEF Multiple
  <1> QED
    BY <1>2, <1>6, <1>7, <1>8

\* A chain of which all fpages can be regions, and that can come into a space.
Ready(m, u, L, x, v, n) ==
    /\ Sound(u, L, x \cup ToSet(v)) /\ ToSet(v) \cap x = {} /\ u.chain = m.chain
    /\ v \in Seq(Slots) /\ Distinct(v) /\ (n > 0 => Len(v) > 0)
    /\ u.live = m.live /\ u.shared = m.shared /\ u.fault = "none"

LEMMA ChainedSound ==
    ASSUME NEW m \in Tables, NEW u \in Tables, NEW L \in SUBSET Spaces, NEW x, Sound(m, L, x),
           NEW v, NEW b, NEW n, n <= Top, Chained(m, u, v, b, n)
    PROVE  Ready(m, u, L, x, v, n)
  <1>1. Fresh(m, u, v) /\ m.fault = "none" /\ (n > 0 => Len(v) > 0)
    BY DEF Chained
  <1>2. v \in Seq(Slots) /\ Distinct(v) /\ u.live = m.live /\ u.shared = m.shared /\ u.fault = "none"
    BY <1>1 DEF Fresh, Same, Tables
  <1>3. \A f \in ToSet(v) : ShapeOf(u, f)
    <2>1. \A i \in 1 .. Len(v) : ShapeOf(u, v[i])
      BY DEF Chained, Shaped, ShapeOf, Base
    <2> QED
      BY <1>2, <2>1, ToSetIs
  <1>4. Sound(u, L, x \cup ToSet(v)) /\ ToSet(v) \cap x = {} /\ u.chain = m.chain
    BY <1>1, <1>3, SoundFresh
  <1> QED
    BY <1>1, <1>2, <1>4 DEF Ready

LEMMA Ends ==
    ASSUME NEW v \in Seq(Slots), Len(v) > 0
    PROVE  v[1] \in ToSet(v) /\ v[Len(v)] \in ToSet(v)
  <1>1. 1 \in 1 .. Len(v) /\ Len(v) \in 1 .. Len(v)
    BY ToSetIs
  <1> QED
    BY <1>1, ToSetIs

-----------------------------------------------------------------------------
(* assign_fpages_ext() *)

Bounds == (Slots \cup {NULL}) \X (Slots \cup {NULL})
AssignStates == [mem : Tables, val : Bounds, pos : Nat \ {0}, base : Nat]

LEMMA FoundIs ==
    ASSUME NEW val \in Bounds, NEW f \in Slots, NEW l \in Slots
    PROVE  Found(val, f, l) \in Bounds /\ {Found(val, f, l)[1], Found(val, f, l)[2]} \subseteq {val[1], f, l}
  <1>1. PICK b : b = (IF val[1] = NULL THEN f ELSE val[1])
    OBVIOUS
  <1>2. Found(val, f, l) = <<b, l>>
    BY <1>1 DEF Found
  <1>3. b \in Slots \cup {NULL} /\ b \in {val[1], f}
    BY <1>1 DEF Bounds
  <1> QED
    BY <1>2, <1>3 DEF Bounds

\* Where a chain can be put into that of a.
Places(s, a) == 1 .. Len(s.mem.chain[a]) + 1

LEMMA FilledIs ==
    ASSUME NEW s \in AssignStates, NEW a \in Spaces, NEW pos \in Places(s, a),
           NEW u \in Tables, NEW v \in Seq(Slots), Len(v) > 0, u.chain = s.mem.chain,
           NEW new, new.mem = u, new.val = v, NEW t, t = Filled(s, a, pos, new)
    PROVE  /\ t \in AssignStates /\ t.pos = s.pos /\ t.base = s.base
           /\ {t.val[1], t.val[2]} \subseteq {s.val[1]} \cup ToSet(v)
           /\ \E d : Merged(u.chain[a], v, d) /\ Relisted(u, t.mem, a, d) /\ Spliced(u.chain[a], v, pos, d)
  <1>1. PICK c \in Seq(Slots) : c = u.chain[a]
    BY DEF Tables
  <1>2. PICK d : d = Before(c, pos) \o v \o From(c, pos)
    OBVIOUS
  <1>3. Merged(c, v, d) /\ Spliced(c, v, pos, d)
    <2>1. pos \in 1 .. Len(c) + 1
      BY <1>1 DEF Places
    <2> QED
      BY <1>2, <2>1, SpliceMerges, SplicedIs
  <1>4. PICK w : w = [u EXCEPT !.chain[a] = d]
    OBVIOUS
  <1>5. d \in Seq(Slots)
    BY <1>3 DEF Merged
  <1>6. Relisted(u, w, a, d)
    BY <1>4, <1>5 DEF Relisted, Tables, Same
  <1>7. PICK f \in Slots, l \in Slots : f = v[1] /\ l = v[Len(v)] /\ f \in ToSet(v) /\ l \in ToSet(v)
    BY Ends, ToSetIs
  <1>8. PICK b \in Bounds : b = Found(s.val, f, l) /\ {b[1], b[2]} \subseteq {s.val[1], f, l}
    <2>1. PICK val \in Bounds : val = s.val
      BY DEF AssignStates
    <2>2. Found(val, f, l) \in Bounds /\ {Found(val, f, l)[1], Found(val, f, l)[2]} \subseteq {val[1], f, l}
      BY FoundIs
    <2> QED
      BY <2>1, <2>2
  <1>9. t = [s EXCEPT !.mem = w, !.val = b]
    BY <1>1, <1>2, <1>4, <1>7, <1>8 DEF Filled
  <1>10. t \in AssignStates /\ t.pos = s.pos /\ t.base = s.base /\ t.mem = w /\ t.val = b
    <2>1. w \in Tables
      BY <1>6 DEF Relisted
    <2> QED
      BY <1>9, <2>1 DEF AssignStates
  <1> QED
    BY <1>1, <1>3, <1>6, <1>7, <1>8, <1>10

\* What turns of the loop over the chain of a have made of m.
AssignGood(m, x, a, s) ==
    /\ s \in AssignStates /\ After(m, s.mem, x)
    /\ s.mem.fault = "none" => {s.val[1], s.val[2]} \subseteq {NULL} \cup ToSet(s.mem.chain[a])


\* The chain for a hole in front of h.
HoleFits(base, h, b, n) == b = base /\ Multiple(n) /\ \A z \in Nat : h <= z /\ Multiple(z) => b + n <= z
HoleGood(s, base, h, new) ==
    /\ new.mem \in Tables /\ new.val \in Seq(Slots) /\ new.mem.fault \in {"none", "full", "region"}
    /\ new.mem.fault = "none" =>
           \E b \in Nat, n \in 1 .. Top :
               Chained(s.mem, new.mem, new.val, b, n) /\ (Multiple(base) => HoleFits(base, h, b, n))

LEMMA HoleIs ==
    ASSUME NEW s \in AssignStates, s.mem.fault = "none", NEW base \in Nat, NEW h \in Nat, base < h, h <= Top,
           NEW pool, pool.always \in BOOLEAN, NEW new, new = Hole(s, base, h, pool)
    PROVE  HoleGood(s, base, h, new)
  <1>1. PICK o \in Tables : o = s.mem
    BY DEF AssignStates
  <1>r. CASE ~pool.fpages
    <2>1. PICK u : u = Faulty(o, "region")
      OBVIOUS
    <2>2. "region" \in Faults \ {"none"}
      BY DEF Faults
    <2>3. u \in Tables /\ u.fault # "none" /\ u.fault \in {o.fault, "region"}
      BY <2>1, <2>2, FaultyIs
    <2>4. new = Result(u, <<>>)
      BY <1>1, <1>r, <2>1 DEF Hole
    <2>5. new.mem = u /\ new.val = <<>>
      BY <2>4 DEF Result
    <2>6. new.val \in Seq(Slots)
      BY <2>5, EmptySeq, Zenon
    <2> QED
      BY <1>1, <2>3, <2>5, <2>6 DEF HoleGood
  <1>f. SUFFICES ASSUME pool.fpages
                 PROVE  HoleGood(s, base, h, new)
    BY <1>r
  <1>a. PICK always \in BOOLEAN : always = pool.always
    OBVIOUS
  <1>2. PICK n \in 1 .. Top : n = Aligned(h - base)
    <2>1. h - base \in Nat /\ h - base <= Top /\ h - base > 0 /\ Top \in Nat
      BY MemoryAssumption
    <2>2. Aligned(h - base) \in Nat /\ h - base <= Aligned(h - base) /\ Aligned(h - base) <= Top
      BY <2>1, AlignedIs
    <2> QED
      BY <2>1, <2>2
  <1>3. PICK b \in Nat : b = Aligned(base)
    BY AlignedIs
  <1>4. new = CreateChain(o, b, n, always)
    BY <1>1, <1>2, <1>3, <1>f, <1>a DEF Hole
  <1>5. n \in Int
    OBVIOUS
  <1>6. /\ new.mem \in Tables /\ new.val \in Seq(Slots) /\ new.mem.fault \in {o.fault, "full"}
        /\ new.mem.fault = "none" => Chained(o, new.mem, new.val, b, n)
    BY <1>4, <1>5, CreateChainIs
  <1>7. ASSUME Multiple(base)
        PROVE  HoleFits(base, h, b, n)
    <2>1. b = base
      BY <1>3, <1>7, AlignedSame
    <2>2. h - base \in Nat
      OBVIOUS
    <2>3. Multiple(n) /\ n \in Nat
      BY <1>2, <2>2, AlignedIs
    <2>4. ASSUME NEW z \in Nat, h <= z, Multiple(z)
          PROVE  b + n <= z
      <3>1. z - base \in Nat /\ Multiple(z - base) /\ h - base <= z - base
        BY <1>7, <2>4, Difference
      <3>2. n <= z - base
        BY <1>2, <2>2, <3>1, AlignedLeast
      <3> QED
        BY <2>1, <2>3, <3>2
    <2> QED
      BY <2>1, <2>3, <2>4 DEF HoleFits
  <1> QED
    BY <1>1, <1>6, <1>7 DEF HoleGood

\* A hole of c in front of its k-th, and the list with the hole filled: all up to
\* where the hole was are below what is behind it.
HoleAt(o, c, k, base, h) ==
    /\ Multiple(base) /\ h <= Top
    /\ \A j \in 1 .. Len(c) : IF j < k THEN End(o, c[j]) <= base ELSE h <= Base(o, c[j])
Upto(o, w, c, d, k, len, h) ==
    /\ Len(d) = Len(c) + len
    /\ \A z \in Nat : h <= z /\ Multiple(z) => \A j \in 1 .. k + len - 1 : End(w, d[j]) <= z
    /\ k <= Len(c) => d[k + len] = c[k] /\ End(w, c[k]) = End(o, c[k])

\* All of v, and of c all in front of the k-th, end at e or before.
Ending(o, w, c, k, v, e) ==
    /\ \A j \in 1 .. Len(c) : End(w, c[j]) = End(o, c[j]) /\ (j < k => End(o, c[j]) <= e)
    /\ \A i \in 1 .. Len(v) : End(w, v[i]) <= e
Least(h, e) == \A z \in Nat : h <= z /\ Multiple(z) => e <= z

LEMMA UptoIs ==
    ASSUME NEW o \in Tables, NEW w \in Tables, NEW c \in Seq(Slots), NEW v \in Seq(Slots), NEW k \in 1 .. Len(c) + 1,
           NEW d, Spliced(c, v, k, d), NEW h \in Nat, NEW e \in Nat,
           Ending(o, w, c, k, v, e), Least(h, e)
    PROVE  Upto(o, w, c, d, k, Len(v), h)
  <1>1. /\ d \in Seq(Slots) /\ Len(d) = Len(c) + Len(v)
        /\ \A i \in 1 .. Len(d) :
              d[i] = IF i < k THEN c[i]
                     ELSE IF i < k + Len(v) THEN v[i - k + 1] ELSE c[i - Len(v)]
    BY DEF Spliced
  <1>2. PICK p \in Nat, q \in Nat : p = Len(c) /\ q = Len(v) /\ k \in 1 .. p + 1
    OBVIOUS
  <1>3. /\ Len(d) = p + q
        /\ \A i \in 1 .. p + q : d[i] = IF i < k THEN c[i] ELSE IF i < k + q THEN v[i - k + 1] ELSE c[i - q]
    BY <1>1, <1>2
  <1>4. /\ \A j \in 1 .. p : End(w, c[j]) = End(o, c[j]) /\ (j < k => End(w, c[j]) <= e)
        /\ \A i \in 1 .. q : End(w, v[i]) <= e
    BY <1>2 DEF Ending
  <1>5. ASSUME NEW j \in 1 .. k + q - 1
        PROVE  j \in 1 .. p + q /\ d[j] \in Slots /\ End(w, d[j]) <= e
    <2>1. j \in 1 .. p + q /\ (j < k => j \in 1 .. p) /\ (~(j < k) => j < k + q /\ j - k + 1 \in 1 .. q)
      BY <1>2
    <2>2. d[j] \in Slots
      BY <1>1, <1>2, <2>1
    <2>3. CASE j < k
      BY <1>3, <1>4, <2>1, <2>2, <2>3
    <2>4. CASE ~(j < k)
      BY <1>3, <1>4, <2>1, <2>2, <2>4
    <2> QED
      BY <2>1, <2>2, <2>3, <2>4
  <1>6. ASSUME NEW z \in Nat, h <= z, Multiple(z), NEW j \in 1 .. k + q - 1
        PROVE  End(w, d[j]) <= z
    <2>1. e <= z
      BY <1>6 DEF Least
    <2>2. d[j] \in Slots /\ End(w, d[j]) <= e
      BY <1>5
    <2>3. End(w, d[j]) \in Nat
      BY <2>2, BoundsAre
    <2> QED
      BY <2>1, <2>2, <2>3
  <1>7. ASSUME k <= p
        PROVE  d[k + q] = c[k] /\ End(w, c[k]) = End(o, c[k])
    <2>1. k + q \in 1 .. p + q /\ ~(k + q < k) /\ ~(k + q < k + q) /\ k + q - q = k /\ k \in 1 .. p
      BY <1>2, <1>7
    <2> QED
      BY <1>3, <1>4, <2>1
  <1>8. \A z \in Nat : h <= z /\ Multiple(z) => \A j \in 1 .. k + Len(v) - 1 : End(w, d[j]) <= z
    BY <1>2, <1>6
  <1>9. k <= Len(c) => d[k + Len(v)] = c[k] /\ End(w, c[k]) = End(o, c[k])
    BY <1>2, <1>7
  <1> QED
    BY <1>1, <1>8, <1>9 DEF Upto

LEMMA FilledOrder ==
    ASSUME NEW o \in Tables, NEW L \in SUBSET Spaces, L = o.live, NEW x, Sound(o, L, x), Regular, Neat(o, x),
           NEW a \in L, a = RootSpace, NEW u \in Tables,
           NEW v \in Seq(Slots), NEW b \in Nat, NEW n \in 1 .. Top, Chained(o, u, v, b, n),
           NEW base \in Nat, NEW h \in Nat, HoleFits(base, h, b, n),
           NEW c \in Seq(Slots), c = o.chain[a], NEW k \in 1 .. Len(c) + 1, HoleAt(o, c, k, base, h),
           NEW d, Spliced(c, v, k, d), Merged(c, v, d), NEW w, Relisted(u, w, a, d)
    PROVE  Neat(w, x) /\ Upto(o, w, c, d, k, Len(v), h)
  <1>1. /\ Gridded(o, o.used) /\ Shapely(o) /\ Placed(o, L, x)
        /\ \A j \in 1 .. Len(c) : IF j < k THEN End(o, c[j]) <= base ELSE h <= Base(o, c[j])
    BY DEF Neat, Tidy, Sound, HoleAt
  <1>2. b = base /\ Multiple(n) /\ Multiple(b) /\ n \in Nat /\ n > 0
    BY MemoryAssumption DEF HoleFits, HoleAt
  <1>3. \A z \in Nat : h <= z /\ Multiple(z) => b + n <= z
    BY DEF HoleFits
  <1>4. b + n <= Top
    BY <1>3, MemoryAssumption DEF HoleAt, Multiple
  <1>5. \A j \in 1 .. Len(c) : c[j] \in o.used /\ c[j] \in Slots
    <2>1. ToSet(c) \subseteq o.used
      BY <1>1, UsedIs
    <2> QED
      BY <2>1, ToSetIs
  <1>6. \A j \in 1 .. Len(c) : Base(o, c[j]) \in Nat /\ End(o, c[j]) \in Nat /\ Multiple(Base(o, c[j]))
    BY <1>1, <1>5, BoundsAre DEF Gridded, OnGrid
  <1>7. \A j \in 1 .. Len(c) : IF j < k THEN End(o, c[j]) <= b ELSE b + n <= Base(o, c[j])
    BY <1>1, <1>2, <1>3, <1>6
  <1>8. Neat(w, x)
    BY <1>2, <1>4, <1>7, FilledNeat
  <1>9. Fresh(o, u, v) /\ Tiled(u, v, b, b + n)
    BY DEF Chained
  <1>10. w.fp = u.fp /\ \A f \in o.used : w.fp[f] = o.fp[f]
    <2>1. a \in Spaces
      OBVIOUS
    <2>2. w.fp = u.fp
      BY <2>1, RelistedIs
    <2> QED
      BY <1>9, <2>2 DEF Fresh
  <1>11. Ending(o, w, c, k, v, b + n)
    <2>1. \A i \in 1 .. Len(v) : v[i] \in Slots /\ End(u, v[i]) <= b + n
      BY <1>9 DEF Tiled
    <2>2. \A i \in 1 .. Len(v) : End(w, v[i]) <= b + n
      BY <1>10, <2>1 DEF End
    <2>3. \A j \in 1 .. Len(c) : End(w, c[j]) = End(o, c[j])
      BY <1>5, <1>10 DEF End
    <2>4. \A j \in 1 .. Len(c) : j < k => End(o, c[j]) <= b + n
      BY <1>2, <1>6, <1>7
    <2> QED
      BY <2>2, <2>3, <2>4 DEF Ending
  <1>12. PICK e \in Nat : e = b + n
    BY <1>2
  <1>13. Ending(o, w, c, k, v, e) /\ Least(h, e)
    BY <1>3, <1>11, <1>12 DEF Least
  <1>14. w \in Tables
    BY DEF Relisted
  <1>15. Upto(o, w, c, d, k, Len(v), h)
    BY <1>13, <1>14, UptoIs
  <1> QED
    BY <1>8, <1>15

Hollow(m, x, s, a, pos, base, h) == Regular /\ Neat(m, x) => HoleAt(s.mem, s.mem.chain[a], pos, base, h)
Overgone(m, x, s, t, a, pos, len, h) ==
    Regular /\ Neat(m, x) => Upto(s.mem, t.mem, s.mem.chain[a], t.mem.chain[a], pos, len, h)

LEMMA FilledGood ==
    ASSUME NEW m \in Tables, NEW x, NEW a \in m.live, a = RootSpace,
           NEW s, AssignGood(m, x, a, s), s.mem.fault = "none", NEW pos \in Places(s, a),
           NEW base \in Nat, NEW h \in Nat, Hollow(m, x, s, a, pos, base, h),
           NEW new, HoleGood(s, base, h, new), new.mem.fault = "none", NEW t, t = Filled(s, a, pos, new)
    PROVE  /\ AssignGood(m, x, a, t) /\ t.pos = s.pos /\ t.base = s.base /\ t.mem.fault = "none"
           /\ Overgone(m, x, s, t, a, pos, Len(new.val), h)
  <1>0. PICK u \in Tables, v \in Seq(Slots) : u = new.mem /\ v = new.val
    BY DEF HoleGood
  <1>n. PICK b \in Nat, n \in 1 .. Top :
            Chained(s.mem, u, v, b, n) /\ (Multiple(base) => HoleFits(base, h, b, n))
    BY <1>0 DEF HoleGood
  <1>1. PICK o \in Tables : o = s.mem
    BY DEF AssignGood, AssignStates
  <1>2. /\ o.live = m.live /\ o.shared = m.shared /\ Sound(o, m.live, x) /\ m.fault = "none"
        /\ m.live \in SUBSET Spaces
    BY <1>1, LiveIs DEF AssignGood, After
  <1>3. n <= Top /\ n > 0 /\ Chained(o, u, v, b, n)
    BY <1>n, <1>1, MemoryAssumption
  <1>4. /\ Sound(u, m.live, x \cup ToSet(v)) /\ ToSet(v) \cap x = {} /\ u.chain = o.chain
        /\ Distinct(v) /\ Len(v) > 0
        /\ u.live = o.live /\ u.shared = o.shared /\ u.fault = "none"
    <2>1. Ready(o, u, m.live, x, v, n)
      BY <1>2, <1>3, ChainedSound
    <2> QED
      BY <1>3, <2>1 DEF Ready
  <1>5. /\ t \in AssignStates /\ t.pos = s.pos /\ t.base = s.base
        /\ {t.val[1], t.val[2]} \subseteq {s.val[1]} \cup ToSet(v)
        /\ \E d : Merged(u.chain[a], v, d) /\ Relisted(u, t.mem, a, d) /\ Spliced(u.chain[a], v, pos, d)
    <2>1. s \in AssignStates /\ a \in Spaces /\ u.chain = s.mem.chain
      BY <1>1, <1>2, <1>4 DEF AssignGood
    <2> QED
      BY <1>0, <1>4, <2>1, FilledIs, SMTT(60)
  <1>6. PICK d : Merged(u.chain[a], v, d) /\ Relisted(u, t.mem, a, d) /\ Spliced(u.chain[a], v, pos, d)
    BY <1>5
  <1>7. PICK w \in Tables : w = t.mem
    BY <1>5 DEF AssignStates
  <1>8. Sound(w, m.live, x)
    <2>1. Relisted(u, w, a, d)
      BY <1>6, <1>7
    <2> QED
      BY <1>2, <1>4, <1>6, <2>1, SoundIn
  <1>9. w.live = u.live /\ w.shared = u.shared /\ w.fault = u.fault /\ w.chain[a] = d
    BY <1>2, <1>6, <1>7, RelistedIs
  <1>o. PICK c \in Seq(Slots) : c = o.chain[a] /\ c = u.chain[a]
    BY <1>2, <1>4, LiveIs
  <1>p. ASSUME Regular, Neat(m, x)
        PROVE  Neat(w, x) /\ Upto(o, w, c, d, pos, Len(v), h)
    <2>1. Kept(m, o, x)
      BY <1>1, <1>2 DEF AssignGood, After
    <2>2. Neat(o, x)
      BY <1>p, <2>1 DEF Kept
    <2>3. HoleAt(o, c, pos, base, h)
      BY <1>1, <1>o, <1>p DEF Hollow
    <2>4. HoleFits(base, h, b, n)
      BY <1>n, <2>3 DEF HoleAt
    <2>5. pos \in 1 .. Len(c) + 1
      BY <1>1, <1>o DEF Places
    <2>6. Merged(c, v, d) /\ Relisted(u, w, a, d) /\ Spliced(c, v, pos, d)
      BY <1>6, <1>7, <1>o
    <2>7. PICK L \in SUBSET Spaces : L = m.live /\ L = o.live /\ a \in L
      BY <1>2
    <2>8. Sound(o, L, x)
      BY <1>2, <2>7
    <2> QED
      BY <1>3, <1>o, <1>p, <2>2, <2>3, <2>4, <2>5, <2>6, <2>7, <2>8, FilledOrder
  <1>10. After(m, w, x)
    BY <1>2, <1>4, <1>8, <1>9, <1>p DEF After, Kept
  <1>r. Overgone(m, x, s, t, a, pos, Len(new.val), h)
    BY <1>0, <1>1, <1>7, <1>9, <1>o, <1>p DEF Overgone
  <1>11. ToSet(d) = ToSet(o.chain[a]) \cup ToSet(v)
    BY <1>4, <1>6 DEF Merged
  <1>12. {t.val[1], t.val[2]} \subseteq {NULL} \cup ToSet(w.chain[a])
    <2>1. s.val[1] \in {NULL} \cup ToSet(o.chain[a])
      BY <1>1 DEF AssignGood
    <2> QED
      BY <1>5, <1>9, <1>11, <2>1
  <1> QED
    BY <1>4, <1>5, <1>7, <1>9, <1>10, <1>12, <1>r DEF AssignGood

\* Where the loop stands, with so many turns left: all fpages that it has passed end
\* where the rest of the request begins or before, and there are turns for the others.
Stands(o, c, p, b, end, left) ==
    /\ Multiple(b) /\ p <= Len(c) + 1
    /\ \A j \in 1 .. p - 1 : End(o, c[j]) <= b
    /\ b >= end \/ Len(c) + 1 - p <= left
Standing(s, a, end, left) == Stands(s.mem, s.mem.chain[a], s.pos, s.base, end, left)
Assigning(m, x, a, end, left, s) ==
    AssignGood(m, x, a, s) /\ (Regular /\ Neat(m, x) /\ s.mem.fault = "none" => Standing(s, a, end, left))

LEMMA StandsStill ==
    ASSUME NEW o, NEW c \in Seq(Slots), NEW p \in Nat \ {0}, NEW b \in Nat, NEW end \in Nat, NEW left \in Nat \ {0},
           Stands(o, c, p, b, end, left), b >= end \/ p > Len(c)
    PROVE  Stands(o, c, p, b, end, left - 1)
  <1>1. PICK n \in Nat : n = Len(c)
    OBVIOUS
  <1>2. p <= n + 1 /\ (b >= end \/ p > n)
    BY <1>1 DEF Stands
  <1>3. b >= end \/ n + 1 - p <= left - 1
    BY <1>2
  <1> QED
    BY <1>1, <1>3 DEF Stands

LEMMA StandsNext ==
    ASSUME NEW o \in Tables, NEW c \in Seq(Slots), NEW p \in Nat \ {0}, NEW b \in Nat, NEW end \in Nat, NEW left \in Nat \ {0},
           Stands(o, c, p, b, end, left), b < end, p <= Len(c),
           NEW e \in Nat, Multiple(e), b <= e, End(o, c[p]) <= e
    PROVE  Stands(o, c, p + 1, e, end, left - 1)
  <1>1. PICK n \in Nat : n = Len(c)
    OBVIOUS
  <1>2. p <= n /\ n + 1 - p <= left /\ \A j \in 1 .. p - 1 : End(o, c[j]) <= b
    BY <1>1 DEF Stands
  <1>3. \A j \in 1 .. n : End(o, c[j]) \in Nat
    BY <1>1, BoundsAre
  <1>4. \A j \in 1 .. (p + 1) - 1 : End(o, c[j]) <= e
    <2>1. \A j \in 1 .. (p + 1) - 1 : j \in 1 .. n /\ (j = p \/ j \in 1 .. p - 1)
      BY <1>2
    <2> QED
      BY <1>2, <1>3, <2>1
  <1>5. p + 1 <= n + 1 /\ n + 1 - (p + 1) <= left - 1
    BY <1>2
  <1> QED
    BY <1>1, <1>4, <1>5 DEF Stands

LEMMA StandsFilled ==
    ASSUME NEW o \in Tables, NEW c \in Seq(Slots), NEW p \in Nat \ {0}, NEW b \in Nat, NEW end \in Nat, NEW left \in Nat \ {0},
           Stands(o, c, p, b, end, left), b < end, p <= Len(c),
           NEW w \in Tables, NEW d \in Seq(Slots), NEW len \in Nat, NEW h \in Nat, Upto(o, w, c, d, p, len, h),
           NEW z \in Nat, h <= z, Multiple(z), NEW e \in Nat, z <= e, Multiple(e), e = End(o, c[p])
    PROVE  Stands(w, d, p + (len + 1), e, end, left - 1)
  <1>1. PICK n \in Nat : n = Len(c)
    OBVIOUS
  <1>2. p <= n /\ n + 1 - p <= left
    BY <1>1 DEF Stands
  <1>u. /\ Len(d) = Len(c) + len
        /\ \A y \in Nat : h <= y /\ Multiple(y) => \A j \in 1 .. p + len - 1 : End(w, d[j]) <= y
        /\ p <= Len(c) => d[p + len] = c[p] /\ End(w, c[p]) = End(o, c[p])
    BY DEF Upto
  <1>v. d[p + len] = c[p] /\ End(w, c[p]) = e
    BY <1>u
  <1>w. \A j \in 1 .. p + len - 1 : End(w, d[j]) <= z
    BY <1>u
  <1>3. Len(d) = n + len /\ \A j \in 1 .. p + len - 1 : End(w, d[j]) <= z
    BY <1>1, <1>u, <1>w
  <1>4. \A j \in 1 .. n + len : End(w, d[j]) \in Nat
    BY <1>3, BoundsAre
  <1>5. \A j \in 1 .. p + (len + 1) - 1 : End(w, d[j]) <= e
    <2>1. \A j \in 1 .. p + (len + 1) - 1 : j \in 1 .. n + len /\ (j = p + len \/ j \in 1 .. p + len - 1)
      BY <1>2
    <2>2. End(w, d[p + len]) = e
      BY <1>v
    <2>3. ASSUME NEW j \in 1 .. p + (len + 1) - 1
          PROVE  End(w, d[j]) <= e
      <3>1. CASE j = p + len
        BY <2>2, <3>1
      <3>2. CASE j \in 1 .. p + len - 1
        <4>1. End(w, d[j]) <= z /\ End(w, d[j]) \in Nat
          BY <1>3, <1>4, <2>1, <3>2
        <4> QED
          BY <4>1
      <3> QED
        BY <2>1, <3>1, <3>2
    <2> QED
      BY <2>3
  <1>6. p + (len + 1) <= n + len + 1 /\ n + len + 1 - (p + (len + 1)) <= left - 1
    BY <1>2
  <1> QED
    BY <1>3, <1>5, <1>6 DEF Stands

\* The hole in front of the fpage where the loop stands is free.
LEMMA StandsHollow ==
    ASSUME NEW o \in Tables, NEW c \in Seq(Slots), OrderedBy(o, c), NEW p \in Nat \ {0}, NEW b \in Nat,
           NEW end, NEW left, Stands(o, c, p, b, end, left),
           NEW h \in Nat, h <= Top, p <= Len(c) => h <= Base(o, c[p])
    PROVE  HoleAt(o, c, p, b, h)
  <1>1. PICK n \in Nat : n = Len(c)
    OBVIOUS
  <1>2. p <= n + 1 /\ Multiple(b) /\ \A j \in 1 .. p - 1 : End(o, c[j]) <= b
    BY <1>1 DEF Stands
  <1>3. \A j \in 1 .. n : Base(o, c[j]) \in Nat
    BY <1>1, BoundsAre
  <1>4. DOMAIN c = 1 .. n
    BY <1>1
  <1>5. ASSUME NEW j \in 1 .. n
        PROVE  IF j < p THEN End(o, c[j]) <= b ELSE h <= Base(o, c[j])
    <2>1. CASE j < p
      <3>1. j \in 1 .. p - 1
        BY <2>1
      <3> QED
        BY <1>2, <2>1, <3>1
    <2>2. CASE ~(j < p)
      <3>1. p \in 1 .. n /\ (j = p \/ p < j)
        BY <2>2
      <3>2. h <= Base(o, c[p])
        BY <1>1, <3>1
      <3>3. Base(o, c[p]) <= Base(o, c[j])
        BY <1>3, <1>4, <3>1 DEF OrderedBy
      <3> QED
        BY <1>3, <2>2, <3>1, <3>2, <3>3
    <2> QED
      BY <2>1, <2>2
  <1> QED
    BY <1>1, <1>2, <1>5 DEF HoleAt

LEMMA AssignMoved ==
    ASSUME NEW m \in Tables, NEW x, NEW a, NEW s, AssignGood(m, x, a, s), NEW t \in AssignStates,
           t.mem = s.mem, {t.val[1], t.val[2]} \subseteq {NULL} \cup ToSet(s.mem.chain[a]) \/ t.val = s.val
    PROVE  AssignGood(m, x, a, t)
  BY DEF AssignGood

\* There was no room for a hole.
LEMMA HoleFails ==
    ASSUME NEW m \in Tables, NEW x, NEW a, NEW s, NEW base, NEW h, NEW new, HoleGood(s, base, h, new), new.mem.fault # "none",
           NEW t \in AssignStates, t.mem = new.mem
    PROVE  AssignGood(m, x, a, t)
  <1>1. PICK u \in Tables : u = t.mem /\ u.fault \in {"full", "region"}
    BY DEF HoleGood, AssignStates
  <1>2. After(m, u, x)
    BY <1>1, AfterFault
  <1> QED
    BY <1>1, <1>2 DEF AssignGood

LEMMA AssignNextGood ==
    ASSUME NEW m \in Tables, NEW x, NEW a \in Spaces, a = RootSpace, m.fault = "none" => a \in m.live,
           NEW end \in Nat, end <= Top, NEW pool, pool.always \in BOOLEAN,
           NEW left \in Nat \ {0}, NEW s, Assigning(m, x, a, end, left, s), NEW t, t = AssignNext(s, a, end, pool)
    PROVE  Assigning(m, x, a, end, left - 1, t)
  <1>g. AssignGood(m, x, a, s)
    BY DEF Assigning
  <1>1. CASE s.mem.fault # "none" \/ s.base >= end \/ s.pos > Len(s.mem.chain[a])
    <2>1. t = s
      BY <1>1 DEF AssignNext
    <2>2. ASSUME Standing(s, a, end, left), s.mem.fault = "none"
          PROVE  Standing(s, a, end, left - 1)
      <3>1. PICK o \in Tables, b \in Nat, p \in Nat \ {0} : o = s.mem /\ b = s.base /\ p = s.pos
        BY <1>g DEF AssignGood, AssignStates
      <3>2. PICK c \in Seq(Slots) : c = o.chain[a]
        BY LiveIs
      <3>3. Stands(o, c, p, b, end, left) /\ (b >= end \/ p > Len(c))
        BY <1>1, <2>2, <3>1, <3>2 DEF Standing
      <3>4. Stands(o, c, p, b, end, left - 1)
        BY <3>3, StandsStill
      <3> QED
        BY <3>1, <3>2, <3>4 DEF Standing
    <2> QED
      BY <1>g, <2>1, <2>2 DEF Assigning
  <1>2. CASE ~(s.mem.fault # "none" \/ s.base >= end \/ s.pos > Len(s.mem.chain[a]))
    <2>1. PICK o \in Tables, base \in Nat, pos \in Nat \ {0}, val \in Bounds :
              o = s.mem /\ base = s.base /\ pos = s.pos /\ val = s.val
      BY <1>g DEF AssignGood, AssignStates
    <2>2. PICK c \in Seq(Slots) : c = o.chain[a]
      BY LiveIs
    <2>3. pos \in 1 .. Len(c) /\ base < end /\ o.fault = "none" /\ pos \in 1 .. Len(c) + 1
      BY <1>2, <2>1, <2>2, ToSetIs
    <2>4. PICK f \in Slots : f = c[pos] /\ f \in ToSet(c)
      BY <2>3, ToSetIs
    <2>5. Base(o, f) \in Nat /\ End(o, f) \in Nat
      BY BoundsAre
    <2>s. s \in AssignStates
      BY <1>g DEF AssignGood
    <2>n. PICK n \in Nat : n = Len(c) /\ pos <= n
      BY <2>3
    <2>o. ASSUME Regular, Neat(m, x)
          PROVE  /\ Stands(o, c, pos, base, end, left) /\ OrderedBy(o, c)
                 /\ Multiple(Base(o, f)) /\ Multiple(End(o, f)) /\ Base(o, f) < End(o, f)
      <3>1. After(m, o, x)
        BY <1>g, <2>1 DEF AssignGood
      <3>2. o.live = m.live /\ a \in m.live /\ Sound(o, m.live, x) /\ Neat(o, x)
        BY <2>3, <2>o, <3>1 DEF After, Kept
      <3>3. f \in o.used /\ Shapely(o)
        <4>1. m.live \in SUBSET Spaces
          BY <3>2, LiveIs
        <4>2. ToSet(c) \subseteq o.used
          BY <2>2, <3>2, <4>1, UsedIs DEF Sound
        <4> QED
          BY <2>4, <3>2, <4>2 DEF Sound
      <3>4. Base(o, f) < End(o, f)
        BY <3>3, UsedSpans
      <3>5. Standing(s, a, end, left)
        BY <2>1, <2>3, <2>o DEF Assigning
      <3> QED
        BY <2>1, <2>2, <3>2, <3>3, <3>4, <3>5 DEF Standing, Neat, Tidy, Gridded, OnGrid, Sorted
    <2>6. CASE base < Base(o, f)
      <3>1. PICK h \in Nat : h = HoleEnd(end, Base(o, f)) /\ base < h /\ h <= Top /\ h <= Base(o, f)
        <4>1. PICK z \in Nat : z = Base(o, f)
          BY <2>5
        <4>2. Top \in Nat
          BY MemoryAssumption
        <4>3. PICK h \in Nat : h = IF end < z THEN end ELSE z
          OBVIOUS
        <4>4. base < h /\ h <= Top /\ h <= z
          BY <2>3, <2>6, <4>1, <4>2, <4>3
        <4> QED
          BY <4>1, <4>3, <4>4 DEF HoleEnd
      <3>2. PICK new : new = Hole(s, base, h, pool)
        OBVIOUS
      <3>3. HoleGood(s, base, h, new)
        BY <2>1, <2>3, <2>s, <3>1, <3>2, HoleIs
      <3>h. Hollow(m, x, s, a, pos, base, h)
        <4>1. ASSUME Regular, Neat(m, x)
              PROVE  HoleAt(o, c, pos, base, h)
          BY <2>4, <2>o, <3>1, <4>1, StandsHollow
        <4> QED
          BY <2>1, <2>2, <4>1 DEF Hollow
      <3>4. pos \in Places(s, a) /\ s.mem.fault = "none" /\ a \in m.live
        <4>1. After(m, o, x) /\ o.fault = "none"
          BY <1>g, <2>1, <2>3 DEF AssignGood
        <4> QED
          BY <2>1, <2>2, <2>3, <4>1 DEF Places, After
      <3>5. CASE new.mem.fault # "none"
        <4>1. t = [s EXCEPT !.mem = new.mem]
          BY <1>2, <2>1, <2>2, <2>4, <2>6, <3>1, <3>2, <3>5 DEF AssignNext
        <4>2. t \in AssignStates /\ t.mem = new.mem
          BY <2>s, <3>3, <4>1 DEF AssignStates, HoleGood
        <4>3. AssignGood(m, x, a, t)
          BY <3>3, <3>5, <4>2, HoleFails
        <4> QED
          BY <3>5, <4>2, <4>3 DEF Assigning
      <3>6. CASE new.mem.fault = "none"
        <4>1. PICK q : q = Filled(s, a, pos, new)
          OBVIOUS
        <4>2. /\ AssignGood(m, x, a, q) /\ q.pos = s.pos /\ q.base = s.base /\ q.mem.fault = "none"
              /\ Overgone(m, x, s, q, a, pos, Len(new.val), h)
          BY <1>g, <3>3, <3>4, <3>6, <3>h, <4>1, FilledGood
        <4>3. PICK len \in Nat : len = Len(new.val)
          BY <3>3, ToSetIs DEF HoleGood
        <4>4. t = [q EXCEPT !.pos = @ + (len + 1), !.base = End(o, f)]
          BY <1>2, <2>1, <2>2, <2>4, <2>6, <3>1, <3>2, <3>6, <4>1, <4>3 DEF AssignNext
        <4>5. q \in AssignStates /\ q.pos + (len + 1) \in Nat \ {0}
          BY <2>1, <4>2 DEF AssignGood
        <4>6. /\ t \in AssignStates /\ t.mem = q.mem /\ t.val = q.val
              /\ t.pos = pos + (len + 1) /\ t.base = End(o, f)
          BY <2>1, <2>5, <4>2, <4>4, <4>5 DEF AssignStates
        <4>7. AssignGood(m, x, a, t)
          BY <4>2, <4>6, AssignMoved
        <4>8. ASSUME Regular, Neat(m, x)
              PROVE  Standing(t, a, end, left - 1)
          <5>1. PICK w \in Tables : w = t.mem
            BY <4>6 DEF AssignStates
          <5>2. PICK d \in Seq(Slots) : d = w.chain[a]
            BY LiveIs
          <5>3. Upto(o, w, c, d, pos, len, h)
            BY <2>1, <2>2, <4>2, <4>3, <4>6, <4>8, <5>1, <5>2 DEF Overgone
          <5>4. PICK z \in Nat, e \in Nat : z = Base(o, f) /\ e = End(o, f)
            BY <2>5
          <5>5. /\ Stands(o, c, pos, base, end, left) /\ Multiple(z) /\ Multiple(e) /\ z <= e /\ h <= z
                /\ e = End(o, c[pos]) /\ pos <= Len(c)
            BY <2>4, <2>n, <2>o, <3>1, <4>8, <5>4
          <5>6. Stands(w, d, pos + (len + 1), e, end, left - 1)
            BY <2>3, <5>3, <5>5, StandsFilled
          <5> QED
            BY <4>6, <5>1, <5>2, <5>4, <5>6 DEF Standing
        <4> QED
          BY <4>7, <4>8 DEF Assigning
      <3> QED
        BY <3>5, <3>6
    <2>7. CASE ~(base < Base(o, f)) /\ base < End(o, f)
      <3>1. PICK b \in Bounds : b = Found(val, f, f) /\ {b[1], b[2]} \subseteq {val[1], f}
        <4>1. Found(val, f, f) \in Bounds /\ {Found(val, f, f)[1], Found(val, f, f)[2]} \subseteq {val[1], f, f}
          BY FoundIs
        <4> QED
          BY <4>1
      <3>2. t = [[s EXCEPT !.val = b] EXCEPT !.pos = @ + 1, !.base = End(o, f)]
        BY <1>2, <2>1, <2>2, <2>4, <2>7, <3>1 DEF AssignNext
      <3>3. pos + 1 \in Nat \ {0}
        BY <2>3
      <3>4. t \in AssignStates /\ t.mem = s.mem /\ t.val = b /\ t.pos = pos + 1 /\ t.base = End(o, f)
        BY <2>1, <2>5, <2>s, <3>2, <3>3 DEF AssignStates
      <3>5. {val[1], val[2]} \subseteq {NULL} \cup ToSet(c)
        BY <1>g, <2>1, <2>2, <2>3 DEF AssignGood
      <3>6. {t.val[1], t.val[2]} \subseteq {NULL} \cup ToSet(s.mem.chain[a])
        <4>1. {b[1], b[2]} \subseteq {NULL} \cup ToSet(c)
          BY <2>4, <3>1, <3>5
        <4>2. t.val = b /\ s.mem.chain[a] = c
          BY <2>1, <2>2, <3>4
        <4> QED
          BY <4>1, <4>2
      <3>7. AssignGood(m, x, a, t)
        BY <1>g, <3>4, <3>6, AssignMoved
      <3>8. ASSUME Regular, Neat(m, x)
            PROVE  Standing(t, a, end, left - 1)
        <4>1. PICK e \in Nat : e = End(o, f)
          BY <2>5
        <4>2. /\ Stands(o, c, pos, base, end, left) /\ Multiple(e) /\ base <= e
              /\ e = End(o, c[pos]) /\ pos <= Len(c)
          BY <2>4, <2>7, <2>n, <2>o, <3>8, <4>1
        <4>3. Stands(o, c, pos + 1, e, end, left - 1)
          BY <2>3, <4>2, StandsNext
        <4> QED
          BY <2>1, <2>2, <3>4, <4>1, <4>3 DEF Standing
      <3> QED
        BY <3>7, <3>8 DEF Assigning
    <2>8. CASE ~(base < Base(o, f)) /\ ~(base < End(o, f))
      <3>1. t = [s EXCEPT !.pos = @ + 1]
        BY <1>2, <2>1, <2>2, <2>4, <2>8 DEF AssignNext
      <3>2. pos + 1 \in Nat \ {0}
        BY <2>3
      <3>3. t \in AssignStates /\ t.mem = s.mem /\ t.val = s.val /\ t.pos = pos + 1 /\ t.base = base
        BY <2>1, <2>s, <3>1, <3>2 DEF AssignStates
      <3>4. AssignGood(m, x, a, t)
        BY <1>g, <3>3, AssignMoved
      <3>5. ASSUME Regular, Neat(m, x)
            PROVE  Standing(t, a, end, left - 1)
        <4>1. End(o, c[pos]) <= base
          BY <2>4, <2>5, <2>8
        <4>2. Stands(o, c, pos, base, end, left) /\ Multiple(base) /\ pos <= Len(c)
          BY <2>n, <2>o, <3>5 DEF Stands
        <4>3. Stands(o, c, pos + 1, base, end, left - 1)
          BY <2>3, <4>1, <4>2, StandsNext
        <4> QED
          BY <2>1, <2>2, <3>3, <4>3 DEF Standing
      <3> QED
        BY <3>4, <3>5 DEF Assigning
    <2> QED
      BY <2>6, <2>7, <2>8
  <1> QED
    BY <1>1, <1>2

LEMMA RestGood ==
    ASSUME NEW m \in Tables, NEW x, NEW a \in Spaces, a = RootSpace, m.fault = "none" => a \in m.live,
           NEW end \in Nat, end <= Top, NEW pool, pool.always \in BOOLEAN,
           NEW s, Assigning(m, x, a, end, 0, s), NEW t, t = Rest(s, a, end, pool)
    PROVE  AssignGood(m, x, a, t)
  <1>g. AssignGood(m, x, a, s)
    BY DEF Assigning
  <1>1. CASE s.mem.fault # "none" \/ s.base >= end
    BY <1>1, <1>g DEF Rest
  <1>2. CASE ~(s.mem.fault # "none" \/ s.base >= end)
    <2>1. PICK o \in Tables, base \in Nat : o = s.mem /\ base = s.base
      BY <1>g DEF AssignGood, AssignStates
    <2>2. PICK c \in Seq(Slots) : c = o.chain[a]
      BY LiveIs
    <2>3. base < end /\ o.fault = "none"
      BY <1>2, <2>1
    <2>4. s \in AssignStates
      BY <1>g DEF AssignGood
    <2>5. PICK new : new = Hole(s, base, end, pool)
      OBVIOUS
    <2>6. HoleGood(s, base, end, new)
      BY <2>1, <2>3, <2>4, <2>5, HoleIs
    <2>7. PICK pos \in Places(s, a) : pos = Len(c) + 1
      <3>1. Len(c) + 1 \in 1 .. Len(c) + 1
        BY ToSetIs
      <3> QED
        BY <2>1, <2>2, <3>1 DEF Places
    <2>8. s.mem.fault = "none" /\ a \in m.live
      <3>1. After(m, o, x) /\ o.fault = "none"
        BY <1>g, <2>1, <2>3 DEF AssignGood
      <3> QED
        BY <2>1, <3>1 DEF After
    <2>h. Hollow(m, x, s, a, pos, base, end)
      <3>1. ASSUME Regular, Neat(m, x)
            PROVE  HoleAt(o, c, pos, base, end)
        <4>1. Kept(m, o, x) /\ o.live = m.live /\ a \in m.live
          BY <1>g, <2>1, <2>3, <2>8 DEF AssignGood, After
        <4>2. OrderedBy(o, c)
          BY <2>2, <3>1, <4>1 DEF Kept, Neat, Tidy, Sorted
        <4>3. Stands(o, c, s.pos, base, end, 0)
          BY <2>1, <2>2, <2>3, <3>1 DEF Assigning, Standing
        <4>4. PICK n \in Nat, p \in Nat \ {0} : n = Len(c) /\ p = s.pos
          BY <2>4 DEF AssignStates
        <4>5. p <= n + 1 /\ n + 1 - p <= 0
          BY <2>3, <4>3, <4>4 DEF Stands
        <4>6. p = n + 1 /\ ~(p <= n)
          BY <4>5
        <4>7. Stands(o, c, p, base, end, 0) /\ ~(p <= Len(c)) /\ pos = p
          BY <2>7, <4>3, <4>4, <4>6
        <4>8. HoleAt(o, c, p, base, end)
          BY <4>2, <4>7, StandsHollow
        <4> QED
          BY <4>7, <4>8
      <3> QED
        BY <2>1, <2>2, <3>1 DEF Hollow
    <2>9. CASE new.mem.fault # "none"
      <3>1. t = [s EXCEPT !.mem = new.mem]
        BY <1>2, <2>1, <2>5, <2>9 DEF Rest
      <3>2. t \in AssignStates /\ t.mem = new.mem
        BY <2>4, <2>6, <3>1 DEF AssignStates, HoleGood
      <3> QED
        BY <2>6, <2>9, <3>2, HoleFails
    <2>10. CASE new.mem.fault = "none"
      <3>1. PICK q : q = Filled(s, a, pos, new)
        OBVIOUS
      <3>2. AssignGood(m, x, a, q) /\ q.pos = s.pos /\ q.base = s.base /\ q.mem.fault = "none"
        BY <1>g, <2>6, <2>8, <2>10, <2>h, <3>1, FilledGood
      <3>3. t = q
        <4>1. pos = Len(s.mem.chain[a]) + 1 /\ new = Hole(s, s.base, end, pool)
          BY <2>1, <2>2, <2>5, <2>7
        <4> QED
          BY <1>2, <2>10, <3>1, <4>1 DEF Rest
      <3> QED
        BY <3>2, <3>3
    <2> QED
      BY <2>9, <2>10
  <1> QED
    BY <1>1, <1>2

LEMMA PoolsOfAre ==
    ASSUME NEW base \in Nat, NEW size \in Int, PoolsOf(base, size) # {}
    PROVE  base + size <= Top /\ Pools[FirstOf(PoolsOf(base, size))].always \in BOOLEAN
  <1>1. PoolsOf(base, size) \in SUBSET Nat /\ PoolsOf(base, size) \subseteq DOMAIN Pools
    BY MemoryAssumption DEF PoolsOf
  <1>2. PICK n \in PoolsOf(base, size) : n = FirstOf(PoolsOf(base, size))
    BY <1>1, FirstOfIs
  <1>3. n \in DOMAIN Pools /\ Pools[n].end >= base + size
    BY <1>2 DEF PoolsOf
  <1>4. Pools[n] \in [start : 0 .. Top, end : 0 .. Top, user : BOOLEAN, always : BOOLEAN, fpages : BOOLEAN]
    <2>1. \A S : Pools \in Seq(S) /\ n \in DOMAIN Pools => Pools[n] \in S
      OBVIOUS
    <2> QED
      BY <1>3, <2>1, MemoryAssumption, Zenon
  <1>5. PICK p : p = Pools[n]
    OBVIOUS
  <1>6. p.end \in 0 .. Top /\ p.always \in BOOLEAN
    BY <1>4, <1>5
  <1>7. base + size <= Top
    <2>1. p.end \in Int /\ p.end <= Top /\ p.end >= base + size /\ base + size \in Int /\ Top \in Int
      BY <1>3, <1>5, <1>6, MemoryAssumption
    <2> QED
      BY <2>1
  <1> QED
    BY <1>2, <1>5, <1>6, <1>7

\* What an operation that also names an fpage or two makes of m.
Assigned(m, r, x, a) ==
    /\ After(m, r.mem, x) /\ r.val \in Bounds
    /\ r.mem.fault = "none" => {r.val[1], r.val[2]} \subseteq {NULL} \cup ToSet(r.mem.chain[a])

LEMMA AssignFpagesGood ==
    ASSUME NEW m \in Tables, NEW x, Good(m, x), NEW a \in Spaces, a = RootSpace, m.fault = "none" => a \in m.live,
           NEW base \in Nat, Regular => Multiple(base), NEW size \in Int, NEW r, r = AssignFpages(m, a, base, size)
    PROVE  Assigned(m, r, x, a)
  <1>1. PICK nothing \in Bounds : nothing = <<NULL, NULL>> /\ nothing[1] = NULL /\ nothing[2] = NULL
    <2>1. <<NULL, NULL>> \in Bounds
      BY DEF Bounds
    <2>2. <<NULL, NULL>>[1] = NULL /\ <<NULL, NULL>>[2] = NULL
      OBVIOUS
    <2> QED
      BY <2>1, <2>2, Zenon
  <1>2. CASE size <= 0 \/ PoolsOf(base, size) = {}
    <2>1. r = Result(m, nothing)
      BY <1>1, <1>2 DEF AssignFpages
    <2>2. r.mem = m /\ r.val = nothing
      BY <2>1 DEF Result
    <2> QED
      BY <1>1, <2>2 DEF Assigned, Good
  <1>3. CASE ~(size <= 0 \/ PoolsOf(base, size) = {})
    <2>1. PICK pool : pool = Pools[FirstOf(PoolsOf(base, size))] /\ pool.always \in BOOLEAN
      BY <1>3, PoolsOfAre
    <2>2. PICK end \in Nat : end = base + size /\ end <= Top
      BY <1>3, PoolsOfAre
    <2>3. PICK n \in Nat : n = Len(m.chain[a])
      BY LiveIs
    <2> DEFINE start == [mem |-> m, val |-> nothing, pos |-> 1, base |-> base]
               X == {s \in AssignStates : AssignGood(m, x, a, s)}
               G == {p \in Nat \X X : Assigning(m, x, a, end, n - p[1], p[2])}
               Step(f) == [k \in 0 .. n |-> IF k = 0 THEN start ELSE AssignNext(f[k - 1], a, end, pool)]
               e == CHOOSE f : f = Step(f)
               h == [p \in Nat \X X |-> IF p[1] \in 1 .. n /\ <<p[1] - 1, p[2]>> \in G
                                        THEN AssignNext(p[2], a, end, pool) ELSE p[2]]
    <2>a. \A k \in Nat : \A s : <<k, s>> \in G <=> Assigning(m, x, a, end, n - k, s)
      BY DEF Assigning, AssignGood
    <2>b. \A k \in Nat : \A s : <<k, s>> \in G => s \in X
      OBVIOUS
    <2>4. <<0, start>> \in G
      <3>1. PICK s : s = start
        OBVIOUS
      <3>2. s \in AssignStates /\ s.mem = m /\ s.val = nothing /\ s.pos = 1 /\ s.base = base
        BY <3>1 DEF AssignStates
      <3>3. AssignGood(m, x, a, s)
        BY <1>1, <3>2 DEF AssignGood, Good
      <3>4. ASSUME Regular
            PROVE  Stands(m, m.chain[a], 1, base, end, n)
        <4>1. 1 .. 1 - 1 = {} /\ 1 <= n + 1 /\ n + 1 - 1 <= n
          OBVIOUS
        <4> QED
          BY <2>3, <3>4, <4>1 DEF Stands
      <3>5. Regular => Standing(s, a, end, n)
        BY <3>2, <3>4 DEF Standing
      <3>6. Assigning(m, x, a, end, n - 0, s)
        <4>1. n - 0 = n
          OBVIOUS
        <4> QED
          BY <3>3, <3>5, <4>1 DEF Assigning
      <3> HIDE DEF G, start
      <3> QED
        BY <2>a, <3>1, <3>6
    <2>5. ASSUME NEW k \in 1 .. n, NEW s, <<k - 1, s>> \in G
          PROVE  <<k, AssignNext(s, a, end, pool)>> \in G
      <3>1. k \in Nat /\ k - 1 \in Nat /\ n - (k - 1) \in Nat \ {0} /\ n - (k - 1) - 1 = n - k
        OBVIOUS
      <3>2. PICK left \in Nat \ {0} : left = n - (k - 1) /\ left - 1 = n - k
        BY <3>1
      <3>3. Assigning(m, x, a, end, left, s)
        BY <2>5, <2>a, <3>1, <3>2
      <3>4. PICK t : t = AssignNext(s, a, end, pool)
        OBVIOUS
      <3> HIDE DEF G, start, X
      <3>5. Assigning(m, x, a, end, left - 1, t)
        BY <2>1, <2>2, <3>3, <3>4, AssignNextGood
      <3> QED
        BY <2>a, <3>1, <3>2, <3>4, <3>5
    <2>c. start \in X
      BY <2>4, <2>b
    <2> HIDE DEF start, X, G
    <2>6. /\ h \in [Nat \X X -> X]
          /\ \A k \in 1 .. n, s \in X : <<k - 1, s>> \in G => h[<<k, s>>] = AssignNext(s, a, end, pool)
      <3>1. ASSUME NEW p \in Nat \X X
            PROVE  (IF p[1] \in 1 .. n /\ <<p[1] - 1, p[2]>> \in G
                    THEN AssignNext(p[2], a, end, pool) ELSE p[2]) \in X
        <4>1. CASE p[1] \in 1 .. n /\ <<p[1] - 1, p[2]>> \in G
          <5>1. <<p[1], AssignNext(p[2], a, end, pool)>> \in G
            BY <2>5, <4>1
          <5>2. AssignNext(p[2], a, end, pool) \in X
            BY <2>b, <5>1
          <5> QED
            BY <4>1, <5>2
        <4>2. CASE ~(p[1] \in 1 .. n /\ <<p[1] - 1, p[2]>> \in G)
          <5>1. p[2] \in X
            OBVIOUS
          <5> QED
            BY <4>2, <5>1
        <4> QED
          BY <4>1, <4>2
      <3>2. ASSUME NEW k \in 1 .. n, NEW s \in X
            PROVE  <<k, s>> \in Nat \X X /\ <<k, s>>[1] = k /\ <<k, s>>[2] = s
        OBVIOUS
      <3> QED
        BY <3>1, <3>2
    <2>r. r = Result(Rest(e[n], a, end, pool).mem, Rest(e[n], a, end, pool).val)
      <3> DEFINE s0[k \in 0 .. Len(m.chain[a])] ==
                    IF k = 0 THEN [mem |-> m, val |-> <<NULL, NULL>>, pos |-> 1, base |-> base]
                    ELSE AssignNext(s0[k - 1], a, base + size, Pools[FirstOf(PoolsOf(base, size))])
      <3>1. s0 = e
        BY <1>1, <2>1, <2>2, <2>3, Zenon DEF start
      <3> HIDE DEF e, Step
      <3>2. r = Result(Rest(s0[Len(m.chain[a])], a, base + size, Pools[FirstOf(PoolsOf(base, size))]).mem,
                       Rest(s0[Len(m.chain[a])], a, base + size, Pools[FirstOf(PoolsOf(base, size))]).val)
        BY <1>3, Zenon DEF AssignFpages
      <3> HIDE DEF s0
      <3> QED
        BY <2>1, <2>2, <2>3, <3>1, <3>2
    <2> HIDE DEF h, Step, e
    <2>7. PICK f : Recursive(f, X, start, h, n)
      BY <2>c, <2>6, Recursion
    <2>8. f \in [0 .. n -> X] /\ f[0] = start /\ \A k \in 1 .. n : f[k] = h[<<k, f[k - 1]>>]
      BY <2>7 DEF Recursive
    <2>d. ASSUME NEW k \in 1 .. n, <<k - 1, f[k - 1]>> \in G
          PROVE  f[k] = AssignNext(f[k - 1], a, end, pool) /\ <<k, f[k]>> \in G
      <3>1. k - 1 \in 0 .. n
        OBVIOUS
      <3>2. f[k - 1] \in X /\ f[k] = h[<<k, f[k - 1]>>]
        BY <2>8, <3>1
      <3>3. f[k] = AssignNext(f[k - 1], a, end, pool)
        BY <2>6, <2>d, <3>2
      <3> QED
        BY <2>5, <2>d, <3>3
    <2>e. \A k \in 0 .. n : <<k, f[k]>> \in G
      BY <2>4, <2>8, <2>d, StaysGood
    <2>f. \A k \in 1 .. n : f[k] = AssignNext(f[k - 1], a, end, pool)
      <3>1. \A k \in 1 .. n : k - 1 \in 0 .. n
        OBVIOUS
      <3> QED
        BY <2>d, <2>e, <3>1
    <2>9. f = Step(f)
      BY <2>8, <2>f DEF Step
    <2>10. e = Step(e)
      BY <2>9 DEF e
    <2>11. e[0] = start /\ \A k \in 1 .. n : e[k] = AssignNext(e[k - 1], a, end, pool)
      BY <2>10 DEF Step
    <2>12. \A k \in 1 .. n : <<k - 1, e[k - 1]>> \in G => <<k, e[k]>> \in G
      BY <2>5, <2>11
    <2>13. <<n, e[n]>> \in G
      <3>1. <<0, e[0]>> \in G
        BY <2>4, <2>11
      <3>2. \A k \in 0 .. n : <<k, e[k]>> \in G
        BY <2>12, <3>1, StaysGood
      <3>3. n \in 0 .. n
        OBVIOUS
      <3> QED
        BY <3>2, <3>3
    <2>14. PICK s : s = e[n] /\ Assigning(m, x, a, end, 0, s)
      <3>1. n - n = 0
        OBVIOUS
      <3>2. Assigning(m, x, a, end, n - n, e[n])
        BY <2>13, <2>a
      <3> QED
        BY <3>1, <3>2
    <2>15. PICK t : t = Rest(s, a, end, pool)
      OBVIOUS
    <2>16. AssignGood(m, x, a, t)
      BY <2>1, <2>2, <2>14, <2>15, RestGood
    <2>17. r.mem = t.mem /\ r.val = t.val
      BY <2>r, <2>14, <2>15 DEF Result
    <2> QED
      BY <2>16, <2>17 DEF AssignGood, AssignStates, Assigned
  <1> QED
    BY <1>2, <1>3

-----------------------------------------------------------------------------
(* remove_fpage_from_as() *)

Wrong == {"unlisted", "uninitialised", "circular"}

\* f is taken from the list of a, or the list is not as it should be.
Removed(m, u, a, f) ==
    /\ u \in Tables /\ u.fault \in {m.fault} \cup Wrong
    /\ u.fault = "none" => /\ m.fault = "none" /\ f \in ToSet(m.chain[a])
                           /\ \E d : Without(m.chain[a], f, d) /\ Relisted(m, u, a, d)

LEMMA WrongIs ==
    ASSUME NEW m \in Tables, NEW what \in Wrong, NEW u, u = Faulty(m, what)
    PROVE  u \in Tables /\ u.fault \in {m.fault} \cup Wrong /\ u.fault # "none" /\ Same(m, u, {"fault"})
  <1>1. what \in Faults \ {"none"}
    BY DEF Wrong, Faults
  <1>2. u \in Tables /\ u.fault # "none" /\ u.fault \in {m.fault, what} /\ Same(m, u, {"fault"})
    BY <1>1, FaultyIs
  <1> QED
    BY <1>2

LEMMA RemoveAsIs ==
    ASSUME NEW m \in Tables, NEW a \in Spaces, NEW f \in Slots, NEW chance, NEW u, u = RemoveAs(m, a, f, chance)
    PROVE  Removed(m, u, a, f)
  <1>1. PICK c \in Seq(Slots) : c = m.chain[a]
    BY LiveIs
  <1>2. PICK k : k = {j \in DOMAIN c : c[j] = f}
    OBVIOUS
  <1>3. "unlisted" \in Wrong /\ "uninitialised" \in Wrong
    BY DEF Wrong
  <1>4. CASE k = {}
    <2>1. u = Faulty(m, "unlisted")
      BY <1>1, <1>2, <1>4 DEF RemoveAs
    <2>2. PICK w : w = Faulty(m, "unlisted")
      OBVIOUS
    <2>3. w \in Tables /\ w.fault \in {m.fault} \cup Wrong /\ w.fault # "none"
      BY <1>3, <2>2, WrongIs
    <2> QED
      BY <2>1, <2>2, <2>3 DEF Removed
  <1>5. CASE k # {} /\ k # {1} /\ chance
    <2>1. u = Faulty(m, "uninitialised")
      BY <1>1, <1>2, <1>5 DEF RemoveAs
    <2>2. PICK w : w = Faulty(m, "uninitialised")
      OBVIOUS
    <2>3. w \in Tables /\ w.fault \in {m.fault} \cup Wrong /\ w.fault # "none"
      BY <1>3, <2>2, WrongIs
    <2> QED
      BY <2>1, <2>2, <2>3 DEF Removed
  <1>6. CASE k # {} /\ ~(k # {1} /\ chance)
    <2>1. PICK i \in 1 .. Len(c) : i = FirstOf(k) /\ c[i] = f
      <3>1. k \in SUBSET Nat /\ k \subseteq 1 .. Len(c)
        BY <1>2, ToSetIs
      <3>2. FirstOf(k) \in k
        BY <1>6, <3>1, FirstOfIs
      <3> QED
        BY <1>2, <3>1, <3>2
    <2>2. PICK d : d = Before(c, i) \o From(c, i + 1)
      OBVIOUS
    <2>3. Without(c, f, d)
      <3>1. Without(c, c[i], d)
        BY <2>2, CutOut
      <3> QED
        BY <2>1, <3>1
    <2>4. PICK w : w = [m EXCEPT !.chain[a] = d]
      OBVIOUS
    <2>5. u = w
      BY <1>1, <1>2, <1>6, <2>1, <2>2, <2>4 DEF RemoveAs
    <2>6. d \in Seq(Slots)
      BY <2>3 DEF Without
    <2>7. Relisted(m, w, a, d)
      BY <2>4, <2>6 DEF Relisted, Tables, Same
    <2>8. w \in Tables /\ w.fault = m.fault
      BY <2>7, RelistedIs DEF Relisted
    <2>9. f \in ToSet(c)
      BY <2>1, ToSetIs
    <2> QED
      BY <1>1, <2>3, <2>5, <2>7, <2>8, <2>9 DEF Removed
  <1> QED
    BY <1>4, <1>5, <1>6

\* Only the lists of the MPU are changed.
Remapped(m, u) ==
    /\ u \in Tables /\ Same(m, u, {"mpuFirst", "mpuNext", "fault"})
    /\ u.fault \in {m.fault} \cup Wrong

LEMMA MpuTrail ==
    ASSUME NEW m \in Tables, NEW a \in Spaces, NEW k \in 0 .. MaxFpages
    PROVE  Trail(m.mpuNext, m.mpuFirst[a])[k] \in Slots \cup {NULL}
  <1>1. PICK g \in Links, f \in Slots \cup {NULL} : g = m.mpuNext /\ f = m.mpuFirst[a]
    BY DEF Tables, Links
  <1>2. Path(g, f, Way(g, f))
    BY SlotsFit, WayPath
  <1>3. Trail(g, f) = Way(g, f)
    BY Zenon DEF Trail, Way, Follow
  <1>4. Way(g, f)[k] \in Slots \cup {NULL}
    BY <1>2 DEF Path
  <1> QED
    BY <1>1, <1>3, <1>4

LEMMA RemoveMpuIs ==
    ASSUME NEW m \in Tables, NEW a \in Spaces, NEW f \in Slots, NEW chance, NEW u, u = RemoveMpu(m, a, f, chance)
    PROVE  Remapped(m, u)
  <1>1. PICK s : s = Trail(m.mpuNext, m.mpuFirst[a])
    OBVIOUS
  <1>2. PICK before : before = {k \in 0 .. MaxFpages : s[k] # NULL /\ m.mpuNext[s[k]] = f}
    OBVIOUS
  <1>3. PICK next \in Slots \cup {NULL} : next = m.mpuNext[f]
    BY DEF Tables
  <1>4. ASSUME NEW what \in Wrong, u = Faulty(m, what)
        PROVE  Remapped(m, u)
    <2>1. PICK w : w = Faulty(m, what)
      OBVIOUS
    <2>2. w \in Tables /\ w.fault \in {m.fault} \cup Wrong /\ Same(m, w, {"fault"})
      BY <2>1, WrongIs
    <2> QED
      BY <1>4, <2>1, <2>2 DEF Remapped, Same
  <1>5. CASE m.mpuFirst[a] = f
    <2>1. PICK w : w = [m EXCEPT !.mpuFirst[a] = next]
      OBVIOUS
    <2>2. u = w
      BY <1>3, <1>5, <2>1 DEF RemoveMpu
    <2>3. w \in Tables /\ Same(m, w, {"mpuFirst"}) /\ w.fault = m.fault
      BY <2>1 DEF Tables, Same
    <2> QED
      BY <2>2, <2>3 DEF Remapped, Same
  <1>6. CASE m.mpuFirst[a] # f /\ ~chance /\ m.mpuFirst[a] # NULL /\ before # {}
    <2>1. PICK i \in 0 .. MaxFpages : i = FirstOf(before) /\ s[i] # NULL
      <3>1. before \in SUBSET Nat
        BY <1>2
      <3>2. FirstOf(before) \in before
        BY <1>6, <3>1, FirstOfIs
      <3> QED
        BY <1>2, <3>2
    <2>2. PICK p \in Slots : p = s[i]
      <3>1. s[i] \in Slots \cup {NULL}
        BY <1>1, MpuTrail
      <3> QED
        BY <2>1, <3>1
    <2>3. PICK w : w = [m EXCEPT !.mpuNext[p] = next]
      OBVIOUS
    <2>4. u = w
      BY <1>1, <1>2, <1>3, <1>6, <2>1, <2>2, <2>3 DEF RemoveMpu
    <2>5. w \in Tables /\ Same(m, w, {"mpuNext"}) /\ w.fault = m.fault
      BY <2>3 DEF Tables, Same
    <2> QED
      BY <2>4, <2>5 DEF Remapped, Same
  <1>7. CASE m.mpuFirst[a] # f /\ (m.mpuFirst[a] = NULL \/ chance \/ before = {})
    <2>1. \E what \in Wrong : u = Faulty(m, what)
      <3>1. CASE m.mpuFirst[a] = NULL
        BY <1>7, <3>1 DEF RemoveMpu, Wrong
      <3>2. CASE m.mpuFirst[a] # NULL /\ chance
        BY <1>7, <3>2 DEF RemoveMpu, Wrong
      <3>3. CASE m.mpuFirst[a] # NULL /\ ~chance /\ before = {}
        <4>1. u = Faulty(m, IF s[MaxFpages] = NULL THEN "unlisted" ELSE "circular")
          BY <1>1, <1>2, <1>7, <3>3 DEF RemoveMpu
        <4> QED
          BY <4>1 DEF Wrong
      <3> QED
        BY <1>7, <3>1, <3>2, <3>3
    <2> QED
      BY <1>4, <2>1
  <1> QED
    BY <1>5, <1>6, <1>7

\* f is taken out of a space and of the table, or a list is not as it should be.
Loosed(m, u, a, f) ==
    /\ u \in Tables /\ u.fault \in {m.fault} \cup Wrong
    /\ u.fault = "none" =>
           /\ m.fault = "none" /\ f \in ToSet(m.chain[a])
           /\ u.used = m.used \ {f} /\ u.fp = m.fp /\ u.mapNext = m.mapNext
           /\ u.live = m.live /\ u.shared = m.shared
           /\ \E d : Without(m.chain[a], f, d) /\ u.chain = [m.chain EXCEPT ![a] = d]

LEMMA DroppedIs ==
    ASSUME NEW m \in Tables, NEW a \in Spaces, NEW f \in Slots, NEW chance, NEW u, u = Dropped(m, a, f, chance)
    PROVE  Loosed(m, u, a, f)
  <1>1. PICK v : v = RemoveAs(m, a, f, chance)
    OBVIOUS
  <1>2. Removed(m, v, a, f)
    BY <1>1, RemoveAsIs
  <1>3. v \in Tables
    BY <1>2 DEF Removed
  <1>4. PICK w : w = RemoveMpu(v, a, f, chance)
    OBVIOUS
  <1>5. Remapped(v, w)
    BY <1>3, <1>4, RemoveMpuIs
  <1>6. PICK z : z = [w EXCEPT !.used = @ \ {f}]
    OBVIOUS
  <1>7. u = z
    BY <1>1, <1>4, <1>6 DEF Dropped
  <1>8. w \in Tables /\ w.fault \in {v.fault} \cup Wrong /\ v.fault \in {m.fault} \cup Wrong
    BY <1>2, <1>5 DEF Remapped, Removed
  <1>9. z \in Tables /\ z.used = w.used \ {f} /\ Same(w, z, {"used"})
    BY <1>6, <1>8 DEF Tables, Same
  <1>10. /\ z.fp = w.fp /\ z.chain = w.chain /\ z.mapNext = w.mapNext /\ z.live = w.live
         /\ z.shared = w.shared /\ z.fault = w.fault
    BY <1>8, <1>9 DEF Tables, Same
  <1>11. /\ w.fp = v.fp /\ w.chain = v.chain /\ w.mapNext = v.mapNext /\ w.live = v.live
         /\ w.shared = v.shared /\ w.used = v.used
    BY <1>3, <1>5 DEF Remapped, Same, Tables
  <1>12. ASSUME z.fault = "none"
         PROVE  /\ m.fault = "none" /\ f \in ToSet(m.chain[a])
                /\ z.used = m.used \ {f} /\ z.fp = m.fp /\ z.mapNext = m.mapNext
                /\ z.live = m.live /\ z.shared = m.shared
                /\ \E d : Without(m.chain[a], f, d) /\ z.chain = [m.chain EXCEPT ![a] = d]
    <2>1. v.fault = "none"
      BY <1>8, <1>10, <1>12 DEF Wrong
    <2>2. m.fault = "none" /\ f \in ToSet(m.chain[a])
      BY <1>2, <2>1 DEF Removed
    <2>3. PICK d : Without(m.chain[a], f, d) /\ Relisted(m, v, a, d)
      BY <1>2, <2>1 DEF Removed
    <2>4. v.used = m.used /\ v.fp = m.fp /\ v.mapNext = m.mapNext /\ v.live = m.live /\ v.shared = m.shared
      BY <2>3, RelistedIs
    <2>5. v.chain = [m.chain EXCEPT ![a] = d]
      BY <2>3 DEF Relisted
    <2> QED
      BY <1>9, <1>10, <1>11, <2>2, <2>3, <2>4, <2>5
  <1> QED
    BY <1>7, <1>8, <1>9, <1>10, <1>12 DEF Loosed

\* An fpage that is nowhere is freed.
LEMMA SoundFreed ==
    ASSUME NEW w \in Tables, NEW L \in SUBSET Spaces, NEW x, NEW f, Sound(w, L, x \cup {f}), f \notin x,
           NEW u, u.used = w.used \ {f}, u.fp = w.fp, u.chain = w.chain, Ringed(u)
    PROVE  Sound(u, L, x)
  <1>1. Placed(w, L, x \cup {f}) /\ Homed(w, L) /\ Shapely(w)
    BY DEF Sound
  <1>2. \A a \in L : f \notin ToSet(w.chain[a])
    BY <1>1 DEF Placed
  <1>3. u.used = x \cup UNION {ToSet(u.chain[a]) : a \in L}
    BY <1>1, <1>2 DEF Placed
  <1>4. Placed(u, L, x)
    BY <1>1, <1>3 DEF Placed
  <1>5. Homed(u, L)
    BY <1>1 DEF Homed
  <1>6. Shapely(u)
    BY <1>1 DEF Shapely, ShapeOf
  <1> QED
    BY <1>4, <1>5, <1>6 DEF Sound

\* What is freed was unlinked before, perhaps.
LEMMA SoundLoosed ==
    ASSUME NEW m \in Tables, NEW L \in SUBSET Spaces, NEW x, Sound(m, L, x), NEW a \in L, NEW f,
           NEW v \in Tables, v.used = m.used, v.fp = m.fp, v.chain = m.chain,
           NEW u, Loosed(v, u, a, f), u.fault = "none", Ringed(u)
    PROVE  Sound(u, L, x)
  <1>1. /\ f \in ToSet(m.chain[a]) /\ u.used = m.used \ {f} /\ u.fp = m.fp
    BY DEF Loosed
  <1>2. PICK d : Without(m.chain[a], f, d) /\ u.chain = [m.chain EXCEPT ![a] = d]
    BY DEF Loosed
  <1>3. PICK w : w = [m EXCEPT !.chain = u.chain]
    OBVIOUS
  <1>4. u.chain \in [Spaces -> Seq(Slots)] /\ a \in Spaces
    BY DEF Loosed, Tables
  <1>5. w \in Tables /\ Same(m, w, {"chain"}) /\ w.chain = u.chain
    BY <1>3, <1>4 DEF Tables, Same
  <1>6. Relisted(m, w, a, d)
    BY <1>2, <1>5 DEF Relisted
  <1>7. Sound(w, L, x \cup {f}) /\ f \notin x
    BY <1>1, <1>2, <1>6, SoundOut
  <1>8. w.used = m.used /\ w.fp = m.fp
    BY <1>4, <1>6, RelistedIs
  <1> QED
    BY <1>1, <1>5, <1>7, <1>8, SoundFreed

-----------------------------------------------------------------------------
(* split_fpage() *)

\* Two chains are made for an fpage, and it is freed: one that was assigned.
Halved(m, out, L, x, a, v, w) ==
    /\ out \in Tables /\ out.fault = "none" /\ m.fault = "none"
    /\ Sound(out, L, x \cup ToSet(v) \cup ToSet(w)) /\ a = RootSpace
    /\ ToSet(v) \cap (x \cup ToSet(w)) = {} /\ ToSet(w) \cap x = {}
    /\ v \in Seq(Slots) /\ w \in Seq(Slots) /\ Distinct(v) /\ Distinct(w)
    /\ out.live = m.live /\ out.shared = m.shared

LEMMA SplitSound ==
    ASSUME NEW m \in Tables, NEW L \in SUBSET Spaces, NEW x, Sound(m, L, x), NEW a \in L,
           NEW f \in ToSet(m.chain[a]), m.mapNext[f] = f,
           NEW p \in Tables, NEW v, NEW b1, NEW n1, n1 <= Top, Chained(m, p, v, b1, n1),
           NEW q \in Tables, NEW w, NEW b2, NEW n2, n2 <= Top, Chained(p, q, w, b2, n2),
           NEW out, Loosed(q, out, a, f), out.fault = "none"
    PROVE  Halved(m, out, L, x, a, v, w)
  <1>1. Ready(m, p, L, x, v, n1)
    BY ChainedSound
  <1>2. PICK y : y = x \cup ToSet(v)
    OBVIOUS
  <1>3. Sound(p, L, y)
    BY <1>1, <1>2 DEF Ready
  <1>4. Ready(p, q, L, y, w, n2)
    BY <1>3, ChainedSound
  <1>5. f \in m.used
    BY UsedIs DEF Sound
  <1>6. f \in p.used /\ f \in q.used /\ q.mapNext[f] = f
    BY <1>5 DEF Chained, Fresh
  <1>7. out.used = q.used \ {f} /\ out.fp = q.fp /\ out.mapNext = q.mapNext /\ out.live = q.live /\ out.shared = q.shared
    BY DEF Loosed
  <1>8. PICK z : z = y \cup ToSet(w)
    OBVIOUS
  <1>9. Sound(q, L, z)
    BY <1>4, <1>8 DEF Ready
  <1>10. Ringed(q)
    BY <1>9 DEF Sound
  <1>11. Ringed(out) /\ ~q.fp[f].clone
    BY <1>6, <1>7, <1>10, RingsAlone
  <1>12. Sound(out, L, z)
    BY <1>9, <1>11, SoundLoosed
  <1>13. f \in ToSet(q.chain[a])
    BY DEF Loosed
  <1>14. a = RootSpace
    BY <1>9, <1>11, <1>13 DEF Sound, Homed
  <1>15. m.fault = "none"
    BY DEF Chained
  <1>16. out.live = m.live /\ out.shared = m.shared
    BY <1>1, <1>4, <1>7 DEF Ready
  <1>17. out \in Tables
    BY DEF Loosed
  <1>18. /\ ToSet(v) \cap x = {} /\ ToSet(w) \cap y = {} /\ v \in Seq(Slots) /\ w \in Seq(Slots)
         /\ Distinct(v) /\ Distinct(w)
    BY <1>1, <1>4 DEF Ready
  <1>19. z = x \cup ToSet(v) \cup ToSet(w)
    BY <1>2, <1>8
  <1> QED
    BY <1>2, <1>12, <1>14, <1>15, <1>16, <1>17, <1>18, <1>19 DEF Halved

\* What is made for the halves of an fpage is next to each other, and nothing else
\* is there.
HalvesFit(out, x, a, v, w) ==
    /\ Tidy(out) /\ RootSpace \in out.live /\ Covered(out, x) /\ OrderedBy(out, v) /\ OrderedBy(out, w)
    /\ \E b, s, e \in Nat : /\ b < s /\ s < e /\ Inside(out, v, b, s) /\ Inside(out, w, s, e)
                            /\ Outside(out, out.chain[a], b, e)

HalvesGood(m, out, x, a, v, w) ==
    Len(v) > 0 /\ Len(w) > 0 /\ (Regular /\ Neat(m, x) => HalvesFit(out, x, a, v, w))

\* The rest of the tables without an fpage that is in no other place.
LEMMA AloneClear ==
    ASSUME NEW m \in Tables, NEW L \in SUBSET Spaces, NEW x, Sound(m, L, x), Tidy(m),
           NEW f \in m.used, m.mapNext[f] = f, NEW U, U = m.used \ {f}
    PROVE  Clear(m, U, Base(m, f), End(m, f)) /\ Gridded(m, U) /\ Sundered(m, U)
  <1>1. Ringed(m) /\ Sundered(m, m.used) /\ Gridded(m, m.used)
    BY DEF Sound, Tidy
  <1>2. \A g \in U : g \in m.used /\ g # f
    OBVIOUS
  <1>3. \A g \in U : Apart(m, f, g)
    BY <1>1, <1>2, AloneApart
  <1>4. Clear(m, U, Base(m, f), End(m, f))
    BY <1>3 DEF Clear, Apart
  <1>5. Gridded(m, U) /\ Sundered(m, U)
    BY <1>1, <1>2 DEF Gridded, Sundered
  <1> QED
    BY <1>4, <1>5

\* The chains for both sides of s.
Made(m, p, q, f, v, w, s) ==
    /\ Multiple(s)
    /\ \E n1, n2 \in 1 .. Top : /\ s = Base(m, f) + n1 /\ Chained(m, p, v, Base(m, f), n1)
                                /\ End(m, f) = s + n2 /\ Chained(p, q, w, s, n2)

LEMMA SplitFits ==
    ASSUME NEW m \in Tables, NEW L \in SUBSET Spaces, L = m.live, NEW x, Sound(m, L, x), NEW a \in L, a = RootSpace,
           NEW f \in ToSet(m.chain[a]), f \in Slots, m.mapNext[f] = f, Regular, Neat(m, x),
           NEW p \in Tables, NEW v, NEW q \in Tables, NEW w, NEW s \in Nat, Made(m, p, q, f, v, w, s),
           NEW out, Loosed(q, out, a, f), out.fault = "none"
    PROVE  HalvesFit(out, x, a, v, w)
  <1>0. PICK b \in Nat, e \in Nat : b = Base(m, f) /\ e = End(m, f)
    BY BoundsAre
  <1>n. PICK n1 \in 1 .. Top, n2 \in 1 .. Top : /\ s = b + n1 /\ Chained(m, p, v, b, n1)
                                                /\ e = s + n2 /\ Chained(p, q, w, s, n2) /\ Multiple(s)
    BY <1>0 DEF Made
  <1>1. /\ Gridded(m, m.used) /\ Sundered(m, m.used) /\ Sorted(m) /\ Covered(m, x) /\ RootSpace \in m.live
        /\ Shapely(m) /\ Placed(m, L, x) /\ Tidy(m) /\ Smallest \in PowersOf2
    BY DEF Neat, Tidy, Sound, Regular
  <1>2. /\ x \subseteq m.used /\ m.used \subseteq Slots /\ f \in m.used /\ f \notin x
        /\ \A g \in L : m.chain[g] \in Seq(Slots) /\ ToSet(m.chain[g]) \subseteq m.used /\ Distinct(m.chain[g])
    <2>1. /\ x \subseteq m.used /\ m.used \subseteq Slots
          /\ \A g \in L : m.chain[g] \in Seq(Slots) /\ ToSet(m.chain[g]) \subseteq m.used
      BY <1>1, UsedIs
    <2>2. \A g \in L : Distinct(m.chain[g]) /\ ToSet(m.chain[g]) \cap x = {}
      BY <1>1 DEF Placed
    <2> QED
      BY <2>1, <2>2
  <1>3. PICK U : U = m.used \ {f}
    OBVIOUS
  <1>4. Clear(m, U, b, e) /\ Gridded(m, U) /\ Sundered(m, U)
    BY <1>0, <1>1, <1>2, <1>3, AloneClear
  <1>5. /\ p.used = m.used \cup ToSet(v) /\ ToSet(v) \cap m.used = {} /\ \A g \in m.used : p.fp[g] = m.fp[g]
        /\ p.chain = m.chain /\ p.live = m.live /\ v \in Seq(Slots)
    BY <1>n DEF Chained, Fresh, Same, Tables
  <1>6. /\ q.used = p.used \cup ToSet(w) /\ ToSet(w) \cap p.used = {} /\ \A g \in p.used : q.fp[g] = p.fp[g]
        /\ q.chain = p.chain /\ q.live = p.live /\ w \in Seq(Slots)
    BY <1>n DEF Chained, Fresh, Same, Tables
  <1>7. /\ out.used = q.used \ {f} /\ out.fp = q.fp /\ out.live = q.live /\ out \in Tables
    BY DEF Loosed
  <1>8. PICK d : Without(q.chain[a], f, d) /\ out.chain = [q.chain EXCEPT ![a] = d]
    BY DEF Loosed
  <1>9. Multiple(b) /\ Multiple(e) /\ e <= Top
    BY <1>0, <1>1, <1>2 DEF Gridded, OnGrid
  <1>10. Multiple(n1) /\ Multiple(n2) /\ b + n1 <= Top /\ s + n2 <= Top /\ b < s /\ s < e
    <2>1. Smallest \in Nat \ {0} /\ Top \in Nat
      BY MemoryAssumption
    <2>m. \A z \in Nat : Multiple(z) => \E y \in Nat : z = y * Smallest
      BY <2>1, Multiples DEF Multiple
    <2>2. PICK i \in Nat, j \in Nat, k \in Nat : b = i * Smallest /\ s = j * Smallest /\ e = k * Smallest
      BY <1>9, <1>n, <2>m
    <2>3. n1 = (j - i) * Smallest /\ n2 = (k - j) * Smallest
      BY <1>n, <2>1, <2>2
    <2>4. b < s /\ s < e /\ s <= Top
      BY <1>9, <1>n, <2>1
    <2>5. i < j /\ j < k
      BY <2>1, <2>2, <2>4
    <2>6. PICK g \in Nat, h \in Nat : g = j - i /\ h = k - j
      BY <2>5
    <2>7. Multiple(n1) /\ Multiple(n2)
      BY <2>1, <2>3, <2>6, Multiples DEF Multiple
    <2> QED
      BY <1>9, <1>n, <2>4, <2>7
  <1>11. \A g \in m.used : Base(m, g) \in Nat /\ End(m, g) \in Nat /\ Base(m, g) < End(m, g)
    BY <1>1, UsedSpans
  <1>12. Clear(m, U, b, b + n1) /\ U \subseteq m.used
    BY <1>3, <1>4, <1>10, <1>11, <1>n DEF Clear
  <1>13. /\ Gridded(p, U \cup ToSet(v)) /\ Sundered(p, U \cup ToSet(v))
         /\ OrderedBy(p, v) /\ Inside(p, v, b, b + n1)
         /\ \A g \in ToSet(v) : b <= Base(p, g) /\ End(p, g) <= b + n1
    BY <1>1, <1>4, <1>5, <1>9, <1>10, <1>12, <1>n, ChainedFits
  <1>14. PICK V : V = U \cup ToSet(v) /\ V \subseteq p.used
    BY <1>3, <1>5
  <1>15. Clear(p, V, s, s + n2)
    <2>1. ASSUME NEW g \in U
          PROVE  End(p, g) <= s \/ s + n2 <= Base(p, g)
      <3>1. End(p, g) = End(m, g) /\ Base(p, g) = Base(m, g) /\ g \in m.used
        BY <1>3, <1>5 DEF Base, End
      <3>2. End(m, g) <= b \/ e <= Base(m, g)
        BY <1>4 DEF Clear
      <3> QED
        BY <1>10, <1>11, <1>n, <3>1, <3>2
    <2>2. \A g \in ToSet(v) : End(p, g) <= s
      BY <1>13, <1>n
    <2> QED
      BY <1>14, <2>1, <2>2 DEF Clear
  <1>16. Gridded(p, V) /\ Sundered(p, V)
    BY <1>13, <1>14
  <1>17. /\ Gridded(q, V \cup ToSet(w)) /\ Sundered(q, V \cup ToSet(w))
         /\ OrderedBy(q, w) /\ Inside(q, w, s, s + n2)
    BY <1>1, <1>6, <1>10, <1>14, <1>15, <1>16, <1>n, ChainedFits
  <1>18. out.used = V \cup ToSet(w)
    BY <1>2, <1>3, <1>5, <1>6, <1>7, <1>14
  <1>19. Gridded(out, out.used) /\ Sundered(out, out.used)
    BY <1>7, <1>17, <1>18 DEF Gridded, OnGrid, Sundered, Beside, Apart, Twins, Base, End
  <1>20. OrderedBy(out, w) /\ Inside(out, w, s, e)
    BY <1>7, <1>17, <1>n DEF OrderedBy, Inside, Base
  <1>21. OrderedBy(out, v) /\ Inside(out, v, b, s)
    <2>1. \A i \in 1 .. Len(v) : out.fp[v[i]] = p.fp[v[i]]
      <3>1. \A i \in 1 .. Len(v) : v[i] \in p.used
        BY <1>5, ToSetIs
      <3>2. \A g \in p.used : out.fp[g] = p.fp[g]
        BY <1>6, <1>7
      <3> QED
        BY <3>1, <3>2
    <2>2. DOMAIN v = 1 .. Len(v)
      BY <1>5, ToSetIs
    <2>3. \A i \in 1 .. Len(v) : Base(out, v[i]) = Base(p, v[i])
      BY <2>1 DEF Base
    <2> QED
      BY <1>13, <1>n, <2>2, <2>3 DEF OrderedBy, Inside
  <1>22. \A g \in m.used : out.fp[g] = m.fp[g] /\ Base(out, g) = Base(m, g) /\ End(out, g) = End(m, g)
    BY <1>5, <1>6, <1>7 DEF Base, End
  <1>23. ASSUME NEW g \in L
         PROVE  OrderedBy(out, m.chain[g])
    <2>1. OrderedBy(m, m.chain[g])
      BY <1>1 DEF Sorted
    <2>2. \A i \in DOMAIN m.chain[g] : Base(out, m.chain[g][i]) = Base(m, m.chain[g][i])
      BY <1>2, <1>22 DEF ToSet
    <2> QED
      BY <2>1, <2>2 DEF OrderedBy
  <1>24. PICK c \in Seq(Slots) : c = m.chain[a] /\ Distinct(c) /\ ToSet(c) \subseteq m.used
    BY <1>2
  <1>25. Without(c, f, d) /\ out.chain[a] = d /\ \A g \in L \ {a} : out.chain[g] = m.chain[g]
    <2>1. q.chain \in [Spaces -> Seq(Slots)] /\ a \in Spaces /\ L \subseteq Spaces /\ q.chain = m.chain
      BY <1>5, <1>6 DEF Tables
    <2> QED
      BY <1>8, <1>24, <2>1
  <1>26. d \in Seq(Slots) /\ InOrder(c, d) /\ ToSet(d) = ToSet(c) \ {f}
    BY <1>24, <1>25 DEF Without
  <1>27. Sorted(out)
    <2>1. OrderedBy(out, d)
      BY <1>23, <1>24, <1>26, OrderedOf
    <2>2. ASSUME NEW g \in out.live
          PROVE  OrderedBy(out, out.chain[g])
      <3>1. g \in L
        BY <1>5, <1>6, <1>7
      <3> QED
        BY <1>23, <1>25, <2>1, <3>1
    <2> QED
      BY <2>2 DEF Sorted
  <1>28. Outside(out, out.chain[a], b, e)
    <2>1. ASSUME NEW j \in 1 .. Len(d)
          PROVE  Base(out, d[j]) <= b \/ e <= Base(out, d[j])
      <3>1. d[j] \in U
        BY <1>3, <1>24, <1>26, ToSetIs
      <3>2. PICK g \in U : g = d[j]
        BY <3>1
      <3>3. End(m, g) <= b \/ e <= Base(m, g)
        BY <1>4 DEF Clear
      <3> QED
        BY <1>3, <1>11, <1>22, <3>2, <3>3
    <2> QED
      BY <1>25, <2>1 DEF Outside
  <1>29. Covered(out, x)
    <2>1. ASSUME NEW h \in x
          PROVE  Mirrored(out, RootSpace, h)
      <3>1. PICK g \in ToSet(c) : Twins(m, h, g)
        BY <1>1, <1>24 DEF Covered, Mirrored
      <3>2. h \in U /\ h \in m.used /\ g \in m.used
        BY <1>2, <1>3, <1>24
      <3>3. g # f
        <4>1. End(m, h) <= b \/ e <= Base(m, h)
          BY <1>4, <3>2 DEF Clear
        <4>2. Base(m, h) = Base(m, g) /\ End(m, h) = End(m, g)
          BY <3>1 DEF Twins, Base, End
        <4> QED
          BY <1>0, <1>11, <3>2, <4>1, <4>2
      <3>4. g \in ToSet(out.chain[RootSpace])
        BY <1>25, <1>26, <3>1, <3>3
      <3>5. Twins(out, h, g)
        BY <1>22, <3>1, <3>2 DEF Twins
      <3> QED
        BY <3>4, <3>5 DEF Mirrored
    <2> QED
      BY <2>1 DEF Covered
  <1>30. Tidy(out) /\ RootSpace \in out.live
    BY <1>1, <1>5, <1>6, <1>7, <1>19, <1>27 DEF Tidy
  <1> QED
    BY <1>10, <1>20, <1>21, <1>28, <1>29, <1>30 DEF HalvesFit

Put(m, c, new, d) == d \in Seq(Slots) /\ d = Inserted(m, c, new) /\ Merged(c, new, d)
Rechained(m, u, a, d) ==
    /\ u.used = m.used /\ u.fp = m.fp /\ u.live = m.live /\ u.chain[a] = d
    /\ \A b \in m.live \ {a} : u.chain[b] = m.chain[b]

\* Both halves come to where the whole was.
LEMMA SplitNeat ==
    ASSUME NEW out \in Tables, NEW x, NEW a \in out.live, NEW v \in Seq(Slots), NEW w \in Seq(Slots),
           Len(v) > 0, Len(w) > 0, HalvesFit(out, x, a, v, w), x \subseteq out.used, out.used \subseteq Slots,
           ToSet(out.chain[a]) \subseteq out.used,
           NEW c0 \in Seq(Slots), c0 = out.chain[a], NEW c, Put(out, c0, v, c), NEW d, Put(out, c, w, d),
           NEW u, Rechained(out, u, a, d)
    PROVE  Neat(u, x)
  <1>0. /\ c \in Seq(Slots) /\ c = Inserted(out, c0, v) /\ Merged(c0, v, c)
        /\ d \in Seq(Slots) /\ d = Inserted(out, c, w) /\ Merged(c, w, d)
    BY DEF Put
  <1>u. /\ u.used = out.used /\ u.fp = out.fp /\ u.live = out.live /\ u.chain[a] = d
        /\ \A g \in out.live \ {a} : u.chain[g] = out.chain[g]
    BY DEF Rechained
  <1>1. /\ Gridded(out, out.used) /\ Sundered(out, out.used) /\ Sorted(out) /\ Covered(out, x)
        /\ RootSpace \in out.live /\ OrderedBy(out, v) /\ OrderedBy(out, w)
    BY DEF HalvesFit, Tidy
  <1>2. PICK b \in Nat, s \in Nat, e \in Nat :
            /\ b < s /\ s < e /\ Inside(out, v, b, s) /\ Inside(out, w, s, e) /\ Outside(out, c0, b, e)
    BY DEF HalvesFit
  <1>3. \A f \in Slots : Base(out, f) \in Nat
    BY BoundsAre
  <1>4. \A j \in 1 .. Len(c0) : c0[j] \in Slots /\ Base(out, c0[j]) \in Nat
    BY <1>3
  <1>5. Outside(out, c0, b, s)
    BY <1>2, <1>4 DEF Outside
  <1>6. OrderedBy(out, c0)
    BY <1>1 DEF Sorted
  <1>7. OrderedBy(out, c)
    BY <1>0, <1>1, <1>2, <1>5, <1>6, InsertedOrdered
  <1>8. Outside(out, c, s, e)
    <2>1. ASSUME NEW j \in 1 .. Len(c)
          PROVE  Base(out, c[j]) <= s \/ e <= Base(out, c[j])
      <3>1. c[j] \in ToSet(c0) \cup ToSet(v)
        BY <1>0, ToSetIs DEF Merged
      <3>2. CASE c[j] \in ToSet(c0)
        <4>1. PICK i \in 1 .. Len(c0) : c[j] = c0[i]
          BY <3>2, ToSetIs
        <4>2. Base(out, c0[i]) <= b \/ e <= Base(out, c0[i])
          BY <1>2 DEF Outside
        <4> QED
          BY <1>2, <1>4, <4>1, <4>2
      <3>3. CASE c[j] \in ToSet(v)
        <4>1. PICK i \in 1 .. Len(v) : c[j] = v[i]
          BY <3>3, ToSetIs
        <4>2. Base(out, v[i]) < s /\ Base(out, v[i]) \in Nat
          BY <1>2, <1>3 DEF Inside
        <4> QED
          BY <4>1, <4>2
      <3> QED
        BY <3>1, <3>2, <3>3
    <2> QED
      BY <2>1 DEF Outside
  <1>9. OrderedBy(out, d)
    BY <1>0, <1>1, <1>2, <1>7, <1>8, InsertedOrdered
  <1>10. Gridded(u, u.used) /\ Sundered(u, u.used)
    BY <1>1, <1>u, NeatLess
  <1>11. Sorted(u)
    <2>1. ASSUME NEW g \in u.live
          PROVE  OrderedBy(u, u.chain[g])
      <3>1. OrderedBy(out, u.chain[g])
        BY <1>1, <1>9, <1>u DEF Sorted
      <3> QED
        BY <1>u, <3>1 DEF OrderedBy, Base
    <2> QED
      BY <2>1 DEF Sorted
  <1>12. Covered(u, x)
    <2>1. ASSUME NEW f \in x
          PROVE  Mirrored(u, RootSpace, f)
      <3>1. PICK g \in ToSet(out.chain[RootSpace]) : Twins(out, f, g)
        BY <1>1 DEF Covered, Mirrored
      <3>2. g \in ToSet(u.chain[RootSpace])
        BY <1>0, <1>1, <1>u, <3>1 DEF Merged
      <3> QED
        BY <1>u, <3>1, <3>2 DEF Mirrored, Twins
    <2> QED
      BY <2>1 DEF Covered
  <1> QED
    BY <1>1, <1>10, <1>11, <1>12, <1>u DEF Neat, Tidy

\* Both chains come into the space.
LEMMA SplitMerged ==
    ASSUME NEW m \in Tables, NEW x, NEW a \in m.live, NEW v, NEW w, NEW out, Halved(m, out, m.live, x, a, v, w),
           HalvesGood(m, out, x, a, v, w), NEW c, c = Inserted(out, out.chain[a], v), NEW d, d = Inserted(out, c, w),
           NEW u, u = WithBoth(out, a, v, w)
    PROVE  After(m, u, x) /\ ToSet(v) \subseteq ToSet(u.chain[a]) /\ ToSet(w) \subseteq ToSet(u.chain[a])
  <1>1. /\ out \in Tables /\ v \in Seq(Slots) /\ w \in Seq(Slots) /\ Distinct(v) /\ Distinct(w)
        /\ out.fault = "none" /\ m.fault = "none" /\ out.live = m.live /\ out.shared = m.shared
    BY DEF Halved
  <1>2. m.live \in SUBSET Spaces /\ a \in Spaces
    BY LiveIs
  <1>3. PICK c0 \in Seq(Slots) : c0 = out.chain[a]
    BY <1>1, <1>2, LiveIs
  <1>4. Merged(c0, v, c)
    BY <1>1, <1>3, InsertedIs
  <1>5. c \in Seq(Slots)
    BY <1>4 DEF Merged
  <1>6. Merged(c, w, d)
    BY <1>1, <1>5, InsertedIs
  <1>7. d \in Seq(Slots)
    BY <1>6 DEF Merged
  <1>8. PICK u1 : u1 = [out EXCEPT !.chain[a] = c]
    OBVIOUS
  <1>9. Relisted(out, u1, a, c)
    BY <1>1, <1>2, <1>5, <1>8, RelistIs
  <1>10. u1 \in Tables /\ u1.chain[a] = c
    <2>1. u1.chain[a] = c
      BY <1>1, <1>2, <1>9, RelistedIs
    <2>2. u1 \in Tables
      BY <1>9 DEF Relisted
    <2> QED
      BY <2>1, <2>2
  <1>11. PICK u2 : u2 = [u1 EXCEPT !.chain[a] = d]
    OBVIOUS
  <1>12. Relisted(u1, u2, a, d)
    BY <1>2, <1>7, <1>10, <1>11, RelistIs
  <1>13. u = u2
    BY <1>1, <1>2, <1>8, <1>11 DEF Tables, WithBoth
  <1>14. PICK y : y = x \cup ToSet(w)
    OBVIOUS
  <1>15. Sound(out, m.live, y \cup ToSet(v)) /\ ToSet(v) \cap y = {} /\ ToSet(w) \cap x = {} /\ a = RootSpace
    <2>1. /\ Sound(out, m.live, x \cup ToSet(v) \cup ToSet(w)) /\ a = RootSpace
          /\ ToSet(v) \cap (x \cup ToSet(w)) = {} /\ ToSet(w) \cap x = {}
      BY DEF Halved
    <2>2. x \cup ToSet(v) \cup ToSet(w) = y \cup ToSet(v)
      BY <1>14
    <2> QED
      BY <1>14, <2>1, <2>2
  <1>16. Merged(out.chain[a], v, c)
    BY <1>3, <1>4
  <1>17. Sound(u1, m.live, y)
    BY <1>1, <1>2, <1>9, <1>15, <1>16, SoundIn
  <1>18. Merged(u1.chain[a], w, d)
    BY <1>6, <1>10
  <1>19. Sound(u1, m.live, x \cup ToSet(w))
    BY <1>14, <1>17
  <1>20. Sound(u2, m.live, x)
    BY <1>1, <1>2, <1>10, <1>12, <1>15, <1>18, <1>19, SoundIn
  <1>21. u1.live = out.live /\ u1.shared = out.shared /\ u1.fault = out.fault
    BY <1>1, <1>2, <1>9, RelistedIs
  <1>22. u2.live = u1.live /\ u2.shared = u1.shared /\ u2.fault = u1.fault /\ u2.chain[a] = d
    BY <1>2, <1>10, <1>12, RelistedIs
  <1>23. u2 \in Tables
    BY <1>12 DEF Relisted
  <1>24. ToSet(v) \subseteq ToSet(d) /\ ToSet(w) \subseteq ToSet(d)
    BY <1>4, <1>6 DEF Merged
  <1>25. ASSUME Regular, Neat(m, x)
         PROVE  Neat(u2, x)
    <2>1. HalvesFit(out, x, a, v, w)
      BY <1>25 DEF HalvesGood
    <2>7. Len(v) > 0 /\ Len(w) > 0
      BY DEF HalvesGood
    <2>2. x \subseteq out.used /\ out.used \subseteq Slots /\ ToSet(out.chain[a]) \subseteq out.used
      <3>1. PICK z : z = y \cup ToSet(v) /\ Placed(out, m.live, z)
        BY <1>15 DEF Sound
      <3>2. /\ out.used \subseteq Slots /\ z \subseteq out.used
            /\ \A g \in m.live : ToSet(out.chain[g]) \subseteq out.used
        BY <1>1, <1>2, <3>1, UsedIs
      <3> QED
        BY <1>14, <3>1, <3>2
    <2>3. /\ u1.used = out.used /\ u1.fp = out.fp
          /\ \A g \in Spaces \ {a} : u1.chain[g] = out.chain[g]
      BY <1>1, <1>2, <1>9, RelistedIs
    <2>4. /\ u2.used = u1.used /\ u2.fp = u1.fp
          /\ \A g \in Spaces \ {a} : u2.chain[g] = u1.chain[g]
      BY <1>2, <1>10, <1>12, RelistedIs
    <2>5. /\ u2.used = out.used /\ u2.fp = out.fp /\ u2.live = out.live /\ u2.chain[a] = d
          /\ \A g \in out.live \ {a} : u2.chain[g] = out.chain[g]
      BY <1>1, <1>2, <1>21, <1>22, <2>3, <2>4
    <2>6. c = Inserted(out, c0, v)
      BY <1>3
    <2>8. a \in out.live /\ c0 = out.chain[a]
      BY <1>1, <1>3
    <2>9. Put(out, c0, v, c) /\ Put(out, c, w, d)
      BY <1>4, <1>5, <1>6, <1>7, <2>6 DEF Put
    <2>10. Rechained(out, u2, a, d)
      BY <2>5 DEF Rechained
    <2> QED
      BY <1>1, <2>1, <2>2, <2>7, <2>8, <2>9, <2>10, SplitNeat
  <1>26. Kept(m, u2, x)
    BY <1>25 DEF Kept
  <1> QED
    BY <1>1, <1>13, <1>20, <1>21, <1>22, <1>23, <1>24, <1>26 DEF After

\* split_fpage() of an fpage of a gives one of a, or NULL.
SplitDone(m, r, x, a, f) ==
    /\ After(m, r.mem, x) /\ r.val \in Slots \cup {NULL}
    /\ r.mem.fault = "none" /\ f \in ToSet(m.chain[a]) => r.val \in {NULL} \cup ToSet(r.mem.chain[a])

\* What split_fpage() returns: at the bounds of the fpage, of one that is mapped,
\* and otherwise.
LEMMA SplitNot ==
    ASSUME NEW m, NEW a, NEW f, NEW at, NEW side, NEW chance, Aligned(at) \in {Base(m, f), End(m, f)}
    PROVE  SplitFpage(m, a, f, at, side, chance) = Result(m, f)
  BY Zenon DEF SplitFpage

LEMMA SplitNever ==
    ASSUME NEW m, NEW a, NEW f, NEW at, NEW side, NEW chance,
           Aligned(at) \notin {Base(m, f), End(m, f)}, m.mapNext[f] # f
    PROVE  SplitFpage(m, a, f, at, side, chance) = Result(m, NULL)
  BY SMT DEF SplitFpage

LEMMA SplitIs ==
    ASSUME NEW m, NEW a, NEW f, NEW at, NEW side, NEW chance,
           Aligned(at) \notin {Base(m, f), End(m, f)}, m.mapNext[f] = f
    PROVE  LET left == CreateChain(m, Base(m, f), Aligned(at) - Base(m, f), m.fp[f].always)
               right == CreateChain(left.mem, Aligned(at), End(m, f) - Aligned(at), m.fp[f].always)
           IN  SplitFpage(m, a, f, at, side, chance) = InTwo(a, f, left, right, side, chance)
  BY SMT DEF SplitFpage

LEMMA SplitGood ==
    ASSUME NEW m \in Tables, NEW x, Good(m, x), m.fault = "none", NEW a \in m.live, NEW f \in Slots,
           NEW at \in Nat, NEW side, NEW chance, NEW r, r = SplitFpage(m, a, f, at, side, chance)
    PROVE  SplitDone(m, r, x, a, f)
  <1>1. m.live \in SUBSET Spaces /\ a \in Spaces
    BY LiveIs
  <1>2. PICK b \in Nat, e \in Nat, always \in BOOLEAN, size \in Nat :
            b = Base(m, f) /\ e = End(m, f) /\ always = m.fp[f].always /\ e = b + size /\ size = m.fp[f].size
    BY BoundsAre DEF Fpages, Base, End
  <1>3. PICK split \in Nat : split = Aligned(at)
    BY AlignedIs
  <1>4. After(m, m, x)
    BY DEF Good
  <1>5. CASE split \in {b, e}
    <2>1. Aligned(at) \in {Base(m, f), End(m, f)}
      BY <1>2, <1>3, <1>5
    <2>2. r = Result(m, f)
      BY <2>1, SplitNot
    <2>3. r.mem = m /\ r.val = f
      BY <2>2 DEF Result
    <2> QED
      BY <1>4, <2>3 DEF SplitDone
  <1>6. CASE split \notin {b, e} /\ m.mapNext[f] # f
    <2>1. Aligned(at) \notin {Base(m, f), End(m, f)}
      BY <1>2, <1>3, <1>6
    <2>2. r = Result(m, NULL)
      BY <1>6, <2>1, SplitNever
    <2>3. r.mem = m /\ r.val = NULL
      BY <2>2 DEF Result
    <2> QED
      BY <1>4, <2>3 DEF SplitDone
  <1>7. CASE split \notin {b, e} /\ m.mapNext[f] = f
    <2>1. PICK n1 \in Int, n2 \in Int : n1 = split - b /\ n2 = e - split
      OBVIOUS
    <2>2. PICK left : left = CreateChain(m, b, n1, always)
      OBVIOUS
    <2>3. PICK p \in Tables, v \in Seq(Slots) : p = left.mem /\ v = left.val
      BY <2>1, <2>2, CreateChainIs
    <2>4. p.fault \in {m.fault, "full"} /\ (p.fault = "none" => Chained(m, p, v, b, n1))
      BY <2>1, <2>2, <2>3, CreateChainIs
    <2>5. PICK right : right = CreateChain(p, split, n2, always)
      OBVIOUS
    <2>6. PICK q \in Tables, w \in Seq(Slots) : q = right.mem /\ w = right.val
      BY <2>1, <2>5, CreateChainIs
    <2>7. q.fault \in {p.fault, "full"} /\ (q.fault = "none" => Chained(p, q, w, split, n2))
      BY <2>1, <2>5, <2>6, CreateChainIs
    <2>8. PICK out : out = Dropped(q, a, f, chance)
      OBVIOUS
    <2>9. Loosed(q, out, a, f)
      BY <1>1, <2>8, DroppedIs
    <2>10. PICK c : c = Inserted(out, out.chain[a], v)
      OBVIOUS
    <2>11. PICK d : d = Inserted(out, c, w)
      OBVIOUS
    <2>12. PICK u : u = WithBoth(out, a, v, w)
      OBVIOUS
    <2>13. r = IF q.fault # "none" THEN Result(q, NULL)
               ELSE IF out.fault # "none" THEN Result(out, NULL)
               ELSE Result(u, IF side = "left" THEN v[Len(v)] ELSE w[1])
      <3> DEFINE left0 == CreateChain(m, Base(m, f), Aligned(at) - Base(m, f), m.fp[f].always)
                 right0 == CreateChain(left0.mem, Aligned(at), End(m, f) - Aligned(at), m.fp[f].always)
      <3>1. Aligned(at) \notin {Base(m, f), End(m, f)}
        BY <1>2, <1>3, <1>7
      <3>2. SplitFpage(m, a, f, at, side, chance) = InTwo(a, f, left0, right0, side, chance)
        BY <1>7, <3>1, SplitIs
      <3>3. left0 = left
        BY <1>2, <1>3, <2>1, <2>2
      <3>4. right0 = right
        BY <1>2, <1>3, <2>1, <2>3, <2>5, <3>3
      <3> HIDE DEF left0, right0
      <3>5. r = InTwo(a, f, left, right, side, chance)
        BY <3>2, <3>3, <3>4
      <3> QED
        BY <2>3, <2>6, <2>8, <2>12, <3>5 DEF InTwo
    <2>14. CASE q.fault # "none"
      <3>1. r.mem = q /\ r.val = NULL
        BY <2>13, <2>14 DEF Result
      <3>2. q.fault # "endless"
        BY <2>4, <2>7
      <3>3. After(m, q, x)
        BY <2>14, <3>2, AfterFault
      <3> QED
        BY <2>14, <3>1, <3>3 DEF SplitDone
    <2>15. CASE q.fault = "none" /\ out.fault # "none"
      <3>1. r.mem = out /\ r.val = NULL
        BY <2>13, <2>15 DEF Result
      <3>2. out.fault # "endless" /\ out \in Tables
        BY <2>9, <2>15 DEF Loosed, Wrong
      <3>3. After(m, out, x)
        BY <2>15, <3>2, AfterFault
      <3> QED
        BY <2>15, <3>1, <3>3 DEF SplitDone
    <2>16. CASE q.fault = "none" /\ out.fault = "none"
      <3>1. Chained(p, q, w, split, n2)
        BY <2>7, <2>16
      <3>2. p.fault = "none"
        BY <3>1 DEF Chained
      <3>3. Chained(m, p, v, b, n1)
        BY <2>4, <3>2
      <3>4. f \in ToSet(q.chain[a])
        BY <2>9, <2>16 DEF Loosed
      <3>5. q.chain = m.chain
        <4>1. Same(m, p, {"used", "fp", "mapNext", "mpuNext"}) /\ Same(p, q, {"used", "fp", "mapNext", "mpuNext"})
          BY <3>1, <3>3 DEF Chained, Fresh
        <4> QED
          BY <4>1 DEF Same, Tables
      <3>6. f \in ToSet(m.chain[a]) /\ Sound(m, m.live, x)
        BY <1>4, <3>4, <3>5 DEF After
      <3>7. size <= Top
        <4>1. f \in m.used
          BY <1>1, <3>6, UsedIs DEF Sound
        <4>2. size \in PowersOf2
          BY <1>2, <3>6, <4>1 DEF Sound, Shapely, ShapeOf
        <4> QED
          BY <4>2 DEF PowersOf2
      <3>8. n1 >= 0 /\ n2 >= 0 /\ n1 # 0 /\ n2 # 0
        BY <1>7, <2>1, <3>1, <3>3 DEF Chained
      <3>9. n1 <= Top /\ n2 <= Top
        <4>1. n1 + n2 = size
          <5>1. e = b + size /\ b \in Nat /\ e \in Nat /\ size \in Nat /\ split \in Nat
            BY <1>2, <1>3
          <5> HIDE <1>2, <1>3
          <5> QED
            BY <2>1, <5>1
        <4>2. Top \in Nat
          BY MemoryAssumption
        <4> QED
          BY <2>1, <3>7, <3>8, <4>1, <4>2
      <3>10. Halved(m, out, m.live, x, a, v, w)
        BY <1>1, <1>7, <2>9, <2>16, <3>1, <3>3, <3>6, <3>9, SplitSound
      <3>12. Len(v) > 0 /\ Len(w) > 0
        BY <3>1, <3>3, <3>8 DEF Chained
      <3>f. ASSUME Regular, Neat(m, x)
            PROVE  HalvesFit(out, x, a, v, w)
        <4>1. a = RootSpace
          BY <3>10 DEF Halved
        <4>2. Multiple(split)
          BY <1>3, AlignedIs
        <4>3. n1 \in 1 .. Top /\ n2 \in 1 .. Top
          <5>1. Top \in Nat
            BY MemoryAssumption
          <5> QED
            BY <3>8, <3>9, <5>1
        <4>4. split = b + n1 /\ e = split + n2
          <5>1. b \in Nat /\ e \in Nat /\ split \in Nat
            BY <1>2, <1>3
          <5> HIDE <1>2, <1>3
          <5> QED
            BY <2>1, <5>1
        <4>6. Made(m, p, q, f, v, w, split)
          <5>1. b = Base(m, f) /\ e = End(m, f)
            BY <1>2
          <5> QED
            BY <3>1, <3>3, <4>2, <4>3, <4>4, <5>1 DEF Made
        <4>5. Sound(m, m.live, x) /\ m.live \in SUBSET Spaces /\ a \in m.live /\ f \in ToSet(m.chain[a]) /\ m.mapNext[f] = f
          BY <1>1, <1>7, <3>6
        <4> QED
          BY <2>9, <2>16, <3>f, <4>1, <4>5, <4>6, SplitFits
      <3>g. HalvesGood(m, out, x, a, v, w)
        BY <3>12, <3>f DEF HalvesGood
      <3>11. After(m, u, x) /\ ToSet(v) \subseteq ToSet(u.chain[a]) /\ ToSet(w) \subseteq ToSet(u.chain[a])
        BY <2>10, <2>11, <2>12, <3>10, <3>g, SplitMerged
      <3>13. v[Len(v)] \in ToSet(v) /\ w[1] \in ToSet(w)
        BY <3>12, Ends
      <3>14. ToSet(v) \subseteq Slots /\ ToSet(w) \subseteq Slots
        BY ToSetIs
      <3>15. r.mem = u /\ r.val \in {v[Len(v)], w[1]}
        BY <2>13, <2>16 DEF Result
      <3> QED
        BY <3>11, <3>13, <3>14, <3>15 DEF SplitDone
    <2> QED
      BY <2>14, <2>15, <2>16
  <1> QED
    BY <1>5, <1>6, <1>7

-----------------------------------------------------------------------------
(* map_fpage() *)

\* A new fpage that maps f is linked to it.
Joined(m, v, f, new) ==
    /\ v \in Tables /\ f \in m.used /\ new \in Slots \ m.used
    /\ v.used = m.used \cup {new} /\ \A g \in m.used : v.fp[g] = m.fp[g]
    /\ v.fp[new].clone /\ v.fp[new].base = m.fp[f].base /\ v.fp[new].size = m.fp[f].size
    /\ v.mapNext[new] = m.mapNext[f] /\ v.mapNext[f] = new
    /\ \A g \in m.used \ {f} : v.mapNext[g] = m.mapNext[g]
    /\ v.chain = m.chain /\ v.live = m.live /\ v.shared = m.shared /\ v.fault = m.fault

LEMMA SoundJoined ==
    ASSUME NEW m \in Tables, NEW L \in SUBSET Spaces, NEW x, Sound(m, L, x), NEW v, NEW f, NEW new, Joined(m, v, f, new)
    PROVE  Sound(v, L, x \cup {new}) /\ new \notin x
  <1>1. Placed(m, L, x) /\ Homed(m, L) /\ Ringed(m) /\ Shapely(m)
    BY DEF Sound
  <1>2. /\ f \in m.used /\ new \notin m.used /\ v.used = m.used \cup {new} /\ v.chain = m.chain
        /\ \A g \in m.used : v.fp[g] = m.fp[g]
    BY DEF Joined
  <1>3. x \subseteq m.used /\ \A a \in L : ToSet(m.chain[a]) \subseteq m.used
    BY <1>1, UsedIs
  <1>4. Ringed(v)
    <2>1. /\ v \in Tables /\ new \in Slots \ m.used /\ v.fp[new].clone
          /\ v.fp[new].base = m.fp[f].base /\ v.fp[new].size = m.fp[f].size
          /\ v.mapNext[new] = m.mapNext[f] /\ v.mapNext[f] = new
          /\ \A g \in m.used \ {f} : v.mapNext[g] = m.mapNext[g]
      BY DEF Joined
    <2> QED
      BY <1>1, <1>2, <2>1, RingsGrow
  <1>5. Placed(v, L, x \cup {new})
    <2>1. \A a \in L : Distinct(v.chain[a]) /\ ToSet(v.chain[a]) \cap (x \cup {new}) = {}
      BY <1>1, <1>2, <1>3 DEF Placed
    <2>2. \A a, b \in L : a # b => ToSet(v.chain[a]) \cap ToSet(v.chain[b]) = {}
      BY <1>1, <1>2 DEF Placed
    <2>3. v.used = (x \cup {new}) \cup UNION {ToSet(v.chain[a]) : a \in L}
      BY <1>1, <1>2 DEF Placed
    <2> QED
      BY <2>1, <2>2, <2>3 DEF Placed
  <1>6. Homed(v, L)
    BY <1>1, <1>2, <1>3 DEF Homed
  <1>7. Shapely(v)
    <2>1. \A g \in m.used : ShapeOf(m, g)
      BY <1>1 DEF Shapely
    <2>2. ShapeOf(v, new)
      BY <1>2, <2>1 DEF ShapeOf, Joined
    <2> QED
      BY <1>2, <2>1, <2>2 DEF Shapely, ShapeOf
  <1> QED
    BY <1>2, <1>3, <1>4, <1>5, <1>6, <1>7 DEF Sound

LEMMA LinkedIs ==
    ASSUME NEW m \in Tables, NEW f \in m.used, NEW fpage \in Fpages, fpage.clone,
           fpage.base = m.fp[f].base, fpage.size = m.fp[f].size,
           NEW r, r = Create(m, fpage), r.val # NULL, NEW v, v = Linked(r.mem, f, r.val)
    PROVE  Joined(m, v, f, r.val)
  <1>1. PICK q \in Tables, new \in Slots \ m.used : q = r.mem /\ new = r.val
    BY CreateIs
  <1>2. /\ q.used = m.used \cup {new} /\ q.fp = [m.fp EXCEPT ![new] = fpage]
        /\ q.mapNext = [m.mapNext EXCEPT ![new] = new] /\ Same(m, q, {"used", "fp", "mapNext", "mpuNext"})
    BY <1>1, CreateIs
  <1>3. f \in Slots /\ new # f /\ m.fp \in [Slots -> Fpages] /\ m.mapNext \in [Slots -> Slots]
    BY <1>1 DEF Tables
  <1>4. PICK next \in Slots : next = m.mapNext[f]
    BY <1>3
  <1>5. q.mapNext[f] = next
    BY <1>1, <1>2, <1>3, <1>4
  <1>6. PICK links : links = [q.mapNext EXCEPT ![new] = next, ![f] = new]
    OBVIOUS
  <1>7. links \in [Slots -> Slots]
    BY <1>1, <1>2, <1>3, <1>4, <1>6
  <1>8. PICK w : w = [q EXCEPT !.mapNext = links]
    OBVIOUS
  <1>9. v = w
    BY <1>1, <1>5, <1>6, <1>8 DEF Linked, Tables
  <1>10. w \in Tables /\ w.mapNext = links /\ Same(q, w, {"mapNext"})
    BY <1>7, <1>8 DEF Tables, Same
  <1>11. w.used = q.used /\ w.fp = q.fp
    BY <1>10 DEF Same, Tables
  <1>12. w.chain = m.chain /\ w.live = m.live /\ w.shared = m.shared /\ w.fault = m.fault
    <2>1. q.chain = m.chain /\ q.live = m.live /\ q.shared = m.shared /\ q.fault = m.fault
      BY <1>2 DEF Same, Tables
    <2>2. w.chain = q.chain /\ w.live = q.live /\ w.shared = q.shared /\ w.fault = q.fault
      BY <1>10 DEF Same, Tables
    <2> QED
      BY <2>1, <2>2
  <1>13. /\ links[new] = next /\ links[f] = new
         /\ \A g \in m.used \ {f} : links[g] = m.mapNext[g]
    BY <1>1, <1>2, <1>3, <1>4, <1>6 DEF Tables
  <1>14. w.fp[new] = fpage /\ \A g \in m.used : w.fp[g] = m.fp[g]
    BY <1>1, <1>2, <1>3, <1>11 DEF Tables
  <1> QED
    BY <1>1, <1>2, <1>4, <1>9, <1>10, <1>11, <1>12, <1>13, <1>14 DEF Joined

\* A map of an fpage is where that is.
LEMMA JoinedNeat ==
    ASSUME NEW m, NEW v, NEW f, NEW new, Joined(m, v, f, new),
           Gridded(m, m.used), Sundered(m, m.used)
    PROVE  Gridded(v, v.used) /\ Sundered(v, v.used)
  <1>1. /\ f \in m.used /\ new \notin m.used /\ v.used = m.used \cup {new}
        /\ \A g \in m.used : v.fp[g] = m.fp[g]
        /\ v.fp[new].clone /\ v.fp[new].base = m.fp[f].base /\ v.fp[new].size = m.fp[f].size
    BY DEF Joined
  <1>2. Base(v, new) = Base(m, f) /\ End(v, new) = End(m, f)
    BY <1>1 DEF Base, End
  <1>3. \A g \in m.used : Base(v, g) = Base(m, g) /\ End(v, g) = End(m, g)
    BY <1>1 DEF Base, End
  <1>4. Gridded(v, v.used)
    BY <1>1, <1>2, <1>3 DEF Gridded, OnGrid
  <1>5. ASSUME NEW g \in m.used, NEW h \in m.used, g # h
        PROVE  Beside(v, g, h)
    <2>1. Beside(m, g, h)
      BY <1>5 DEF Sundered
    <2> QED
      BY <1>1, <1>3, <2>1 DEF Beside, Apart, Twins
  <1>6. ASSUME NEW h \in m.used
        PROVE  Beside(v, new, h) /\ Beside(v, h, new)
    <2>1. CASE h = f
      BY <1>1, <2>1 DEF Beside, Twins
    <2>2. CASE h # f
      <3>1. Beside(m, f, h)
        BY <1>1, <2>2 DEF Sundered
      <3>2. CASE Apart(m, f, h)
        BY <1>2, <1>3, <3>2 DEF Beside, Apart
      <3>3. CASE Twins(m, f, h)
        BY <1>1, <3>3 DEF Beside, Twins
      <3> QED
        BY <3>1, <3>2, <3>3 DEF Beside
    <2> QED
      BY <2>1, <2>2
  <1>7. Sundered(v, v.used)
    BY <1>1, <1>5, <1>6 DEF Sundered
  <1> QED
    BY <1>4, <1>7

\* The order stays, and all that is mirrored.
MirrorsStay(m, u) ==
    /\ Tidy(m) => Tidy(u)
    /\ \A a \in m.live, f \in m.used : Mirrored(m, a, f) => Mirrored(u, a, f)

LEMMA MapNeat ==
    ASSUME NEW m \in Tables, NEW x, Sound(m, m.live, x), NEW f \in m.used, NEW new, NEW v, Joined(m, v, f, new),
           NEW a \in m.live, NEW c \in Seq(Slots), c = m.chain[a],
           NEW one \in Seq(Slots), one = <<new>>, ToSet(one) = {new},
           NEW q \in Tables, q.fp = v.fp, NEW d \in Seq(Slots), d = Inserted(q, c, one), Merged(c, one, d),
           NEW w, Relisted(v, w, a, d)
    PROVE  MirrorsStay(m, w) /\ Mirrored(w, a, f)
  <1>1. /\ new \in Slots /\ v \in Tables /\ v.chain = m.chain /\ v.live = m.live
        /\ \A g \in m.used : v.fp[g] = m.fp[g]
        /\ v.fp[new].base = m.fp[f].base /\ v.fp[new].size = m.fp[f].size
    BY DEF Joined
  <1>2. a \in Spaces /\ m.live \subseteq Spaces /\ Relisted(v, w, a, d)
    BY LiveIs
  <1>3. /\ w.used = v.used /\ w.fp = v.fp /\ w.live = v.live /\ w.chain[a] = d
        /\ \A g \in Spaces \ {a} : w.chain[g] = v.chain[g]
    BY <1>1, <1>2, RelistedIs
  <1>4. /\ x \subseteq m.used /\ m.used \subseteq Slots
        /\ \A g \in m.live : m.chain[g] \in Seq(Slots) /\ ToSet(m.chain[g]) \subseteq m.used
    BY <1>2, UsedIs DEF Sound
  <1>5. ToSet(d) = ToSet(c) \cup {new}
    BY DEF Merged
  <1>6. Mirrored(w, a, f)
    BY <1>1, <1>3, <1>5 DEF Mirrored, Twins
  <1>7. ASSUME NEW g \in m.used, NEW b \in m.live, Mirrored(m, b, g)
        PROVE  Mirrored(w, b, g)
    <2>1. ToSet(m.chain[b]) \subseteq ToSet(w.chain[b])
      BY <1>1, <1>2, <1>3, <1>5
    <2>2. \A h \in m.used : w.fp[h] = m.fp[h]
      BY <1>1, <1>3
    <2>3. ToSet(m.chain[b]) \subseteq m.used
      BY <1>4
    <2> QED
      BY <1>7, <2>1, <2>2, <2>3 DEF Mirrored, Twins
  <1>8. ASSUME Tidy(m)
        PROVE  Tidy(w)
    <2>1. Gridded(m, m.used) /\ Sundered(m, m.used) /\ Sorted(m)
      BY <1>8 DEF Tidy
    <2>2. Gridded(v, v.used) /\ Sundered(v, v.used)
      BY <2>1, JoinedNeat
    <2>3. Gridded(w, w.used) /\ Sundered(w, w.used)
      BY <1>3, <2>2 DEF Gridded, OnGrid, Sundered, Beside, Apart, Twins, Base, End
    <2>4. ASSUME NEW b \in m.live
          PROVE  OrderedBy(q, m.chain[b])
      <3>1. OrderedBy(m, m.chain[b])
        BY <2>1 DEF Sorted
      <3>2. \A i \in DOMAIN m.chain[b] : q.fp[m.chain[b][i]] = m.fp[m.chain[b][i]]
        BY <1>1, <1>4 DEF ToSet
      <3> QED
        BY <3>1, <3>2 DEF OrderedBy, Base
    <2>5. PICK l \in Nat, k \in Nat : l = Base(q, new) /\ k = l + 1 /\ l < k
      <3>1. PICK l \in Nat : l = Base(q, new)
        BY <1>1, BoundsAre
      <3> QED
        BY <3>1
    <2>6. Len(one) = 1 /\ one[1] = new /\ DOMAIN one = {1}
      <3>1. 1 .. 1 = {1}
        OBVIOUS
      <3> QED
        BY <3>1
    <2>7. Inside(q, one, l, k)
      BY <2>5, <2>6 DEF Inside
    <2>8. Outside(q, c, l, k)
      <3>1. \A j \in 1 .. Len(c) : c[j] \in Slots
        OBVIOUS
      <3>2. \A j \in 1 .. Len(c) : Base(q, c[j]) \in Nat
        BY <3>1, BoundsAre
      <3> QED
        BY <2>5, <3>2 DEF Outside
    <2>9. OrderedBy(q, one)
      BY <2>6 DEF OrderedBy
    <2>10. OrderedBy(q, c) /\ Len(one) > 0
      BY <2>4, <2>6
    <2>11. OrderedBy(q, d)
      BY <2>5, <2>7, <2>8, <2>9, <2>10, InsertedOrdered
    <2>12. ASSUME NEW b \in w.live
           PROVE  OrderedBy(w, w.chain[b])
      <3>1. b \in m.live /\ b \in Spaces
        BY <1>1, <1>2, <1>3
      <3>2. w.chain[b] = IF b = a THEN d ELSE m.chain[b]
        BY <1>1, <1>3, <3>1
      <3>3. OrderedBy(q, w.chain[b])
        BY <2>4, <2>11, <3>1, <3>2
      <3>4. w.fp = q.fp
        BY <1>3
      <3> QED
        BY <3>3, <3>4 DEF OrderedBy, Base
    <2>13. Sorted(w)
      BY <2>12 DEF Sorted
    <2> QED
      BY <2>3, <2>13 DEF Tidy
  <1> QED
    BY <1>6, <1>7, <1>8 DEF MirrorsStay

LEMMA MirrorsKept ==
    ASSUME NEW m, NEW u, NEW x, MirrorsStay(m, u), x \subseteq m.used, u.live = m.live
    PROVE  Kept(m, u, x)
  BY DEF Kept, Neat, Covered, MirrorsStay

LEMMA MirrorsBoth ==
    ASSUME NEW m, NEW u, NEW w, MirrorsStay(m, u), MirrorsStay(u, w), u.live = m.live, m.used \subseteq u.used
    PROVE  MirrorsStay(m, w)
  BY DEF MirrorsStay

\* The fpages that were there stay, and where they are mirrored.
MapDone(m, u, x) == After(m, u, x) /\ (u.fault = "none" => m.used \subseteq u.used /\ MirrorsStay(m, u))
\* Those of set are mirrored.
Given(u, a, set) == u.fault = "none" => \A f \in set : Mirrored(u, a, f)

LEMMA MapFpageGood ==
    ASSUME NEW m \in Tables, NEW x, Good(m, x), m.fault = "none", NEW dst \in m.live, NEW f \in m.used,
           NEW u, u = MapFpage(m, dst, f)
    PROVE  MapDone(m, u, x) /\ Given(u, dst, {f})
  <1>1. m.live \in SUBSET Spaces /\ dst \in Spaces
    BY LiveIs
  <1>2. f \in Slots /\ m.fp[f] \in Fpages
    BY DEF Tables
  <1>3. PICK fpage \in Fpages : fpage = [m.fp[f] EXCEPT !.clone = TRUE, !.always = FALSE]
    BY <1>2 DEF Fpages
  <1>4. fpage.clone /\ fpage.base = m.fp[f].base /\ fpage.size = m.fp[f].size
    BY <1>2, <1>3 DEF Fpages
  <1>5. PICK r : r = Create(m, fpage)
    OBVIOUS
  <1>6. u = Into(r.mem, dst, f, r.val)
    BY <1>3, <1>5 DEF MapFpage
  <1>7. CASE r.val = NULL
    <2>1. u = r.mem
      BY <1>6, <1>7 DEF Into
    <2>2. r.mem \in Tables /\ r.mem.fault # "none" /\ r.mem.fault \in {m.fault, "full"}
      BY <1>5, <1>7, CreateIs
    <2>3. After(m, r.mem, x)
      BY <2>2, AfterFault
    <2> QED
      BY <2>1, <2>2, <2>3 DEF MapDone, Given
  <1>8. CASE r.val # NULL
    <2>1. PICK v : v = Linked(r.mem, f, r.val)
      OBVIOUS
    <2>2. Joined(m, v, f, r.val)
      BY <1>4, <1>5, <1>8, <2>1, LinkedIs
    <2>3. PICK new \in Slots \ m.used : new = r.val
      BY <2>2 DEF Joined
    <2>4. Joined(m, v, f, new)
      BY <2>2, <2>3
    <2>5. v \in Tables /\ v.chain = m.chain /\ v.live = m.live /\ v.shared = m.shared /\ v.fault = m.fault
      BY <2>4 DEF Joined
    <2>6. Sound(m, m.live, x)
      BY DEF Good, After
    <2>7. Sound(v, m.live, x \cup {new}) /\ new \notin x
      BY <1>1, <2>4, <2>6, SoundJoined
    <2>8. PICK c \in Seq(Slots) : c = v.chain[dst]
      <3>1. m.chain \in [Spaces -> Seq(Slots)]
        BY LiveIs
      <3>2. m.chain[dst] \in Seq(Slots)
        BY <1>1, <3>1
      <3> QED
        BY <2>5, <3>2
    <2>9. PICK one : one = <<new>>
      OBVIOUS
    <2>10. one \in Seq(Slots) /\ ToSet(one) = {new} /\ Distinct(one)
      <3>1. Len(one) = 1 /\ one[1] = new /\ DOMAIN one = 1 .. 1 /\ one \in Seq(Slots)
        BY <2>9
      <3> QED
        BY <3>1 DEF ToSet, Distinct
    <2>11. PICK d : d = Inserted(r.mem, c, one)
      OBVIOUS
    <2>12. Merged(c, one, d)
      BY <2>10, <2>11, InsertedIs
    <2>13. d \in Seq(Slots)
      BY <2>12 DEF Merged
    <2>14. PICK w : w = [v EXCEPT !.chain[dst] = d]
      OBVIOUS
    <2>15. u = w
      BY <1>1, <1>6, <1>8, <2>1, <2>3, <2>5, <2>8, <2>9, <2>11, <2>14 DEF Into, Tables
    <2>16. Relisted(v, w, dst, d)
      BY <1>1, <2>5, <2>13, <2>14, RelistIs
    <2>17. Sound(w, m.live, x)
      <3>1. ToSet(one) \cap x = {} /\ v.fp[new].clone
        BY <2>4, <2>7, <2>10 DEF Joined
      <3>2. \A g \in ToSet(one) : v.fp[g].clone
        BY <2>10, <3>1
      <3>3. Sound(v, m.live, x \cup ToSet(one))
        BY <2>7, <2>10
      <3>4. Merged(v.chain[dst], one, d)
        BY <2>8, <2>12
      <3> QED
        BY <1>1, <2>5, <2>10, <2>16, <3>1, <3>2, <3>3, <3>4, SoundIn
    <2>18. w.live = v.live /\ w.shared = v.shared /\ w.fault = v.fault /\ w.used = v.used
      BY <1>1, <2>5, <2>16, RelistedIs
    <2>19. w \in Tables
      BY <2>16 DEF Relisted
    <2>20. m.used \subseteq w.used
      BY <2>4, <2>18 DEF Joined
    <2>21. PICK q \in Tables : q = r.mem
      BY <1>5, CreateIs
    <2>22. q.fp = v.fp
      <3>1. Same(q, v, {"mapNext"})
        BY <2>1, <2>3, <2>21 DEF Linked, Same
      <3> QED
        BY <2>5, <2>21, <3>1 DEF Same, Tables
    <2>23. MirrorsStay(m, w) /\ Mirrored(w, dst, f)
      <3>1. c = m.chain[dst] /\ d = Inserted(q, c, one)
        BY <2>5, <2>8, <2>11, <2>21
      <3> QED
        BY <2>4, <2>6, <2>9, <2>10, <2>12, <2>13, <2>16, <2>22, <3>1, MapNeat
    <2>24. Kept(m, w, x)
      <3>1. x \subseteq m.used
        BY <1>1, <2>6, UsedIs DEF Sound
      <3> QED
        BY <2>5, <2>18, <2>23, <3>1, MirrorsKept
    <2> QED
      BY <2>5, <2>15, <2>17, <2>18, <2>19, <2>20, <2>23, <2>24 DEF MapDone, After, Given
  <1> QED
    BY <1>7, <1>8

LEMMA MapNextGood ==
    ASSUME NEW m \in Tables, NEW x, NEW dst, NEW g,
           m.fault = "none" => dst \in m.live /\ g \in m.used,
           NEW s, MapDone(m, s, x), NEW t, t = MapNext(s, dst, g)
    PROVE  /\ MapDone(m, t, x)
           /\ \A set : set \subseteq m.used /\ Given(s, dst, set) => Given(t, dst, set \cup {g})
  <1>1. CASE s.fault # "none"
    BY <1>1 DEF MapNext, Given
  <1>2. CASE s.fault = "none"
    <2>1. t = MapFpage(s, dst, g)
      BY <1>2 DEF MapNext
    <2>2. s \in Tables /\ After(m, s, x) /\ m.fault = "none" /\ s.live = m.live /\ m.used \subseteq s.used
      BY <1>2 DEF MapDone, After
    <2>3. Good(s, x)
      BY <2>2, AfterGood
    <2>4. dst \in s.live /\ g \in s.used
      BY <2>2
    <2>5. MapDone(s, t, x) /\ Given(t, dst, {g})
      BY <1>2, <2>1, <2>2, <2>3, <2>4, MapFpageGood
    <2>6. After(m, t, x)
      BY <2>2, <2>5, AfterBoth DEF MapDone
    <2>7. t.fault = "none" => MirrorsStay(s, t) /\ MirrorsStay(m, s) /\ m.used \subseteq t.used
      BY <1>2, <2>2, <2>5 DEF MapDone
    <2>8. t.fault = "none" => MirrorsStay(m, t)
      BY <2>2, <2>7, MirrorsBoth
    <2>9. ASSUME NEW set, set \subseteq m.used, Given(s, dst, set)
          PROVE  Given(t, dst, set \cup {g})
      BY <1>2, <2>2, <2>4, <2>5, <2>7, <2>9 DEF Given, MirrorsStay
    <2> QED
      BY <2>6, <2>7, <2>8, <2>9 DEF MapDone
  <1> QED
    BY <1>1, <1>2

\* The fpages of a list are mapped, and mirrored.
AllMapped(m, u, x, a, list, n) == MapDone(m, u, x) /\ Given(u, a, {list[k] : k \in 1 .. n})

LEMMA MapListGood ==
    ASSUME NEW m \in Tables, NEW x, Good(m, x), NEW dst, NEW list, NEW n \in Nat, n = Len(list),
           m.fault = "none" => dst \in m.live /\ \A k \in 1 .. n : list[k] \in m.used,
           NEW u, u = MapList(m, dst, list)
    PROVE  AllMapped(m, u, x, dst, list, n)
  <1> DEFINE X == {s \in Tables : MapDone(m, s, x)}
             Step(f) == [k \in 0 .. n |-> IF k = 0 THEN m ELSE MapNext(f[k - 1], dst, list[k])]
             e == CHOOSE f : f = Step(f)
             h == [p \in Nat \X X |-> IF p[1] \in 1 .. n THEN MapNext(p[2], dst, list[p[1]]) ELSE p[2]]
  <1>1. m \in X
    BY DEF MapDone, Good, After, MirrorsStay
  <1>2. ASSUME NEW k \in 1 .. n, NEW s \in X
        PROVE  MapNext(s, dst, list[k]) \in X
    <2>1. PICK t : t = MapNext(s, dst, list[k])
      OBVIOUS
    <2>2. PICK g : g = list[k] /\ (m.fault = "none" => dst \in m.live /\ g \in m.used)
      OBVIOUS
    <2>3. MapDone(m, s, x)
      OBVIOUS
    <2> HIDE DEF X
    <2>4. t = MapNext(s, dst, g)
      BY <2>1, <2>2
    <2>5. MapDone(m, t, x)
      BY <2>2, <2>3, <2>4, MapNextGood
    <2>6. t \in X
      BY <2>5 DEF MapDone, After, X
    <2> QED
      BY <2>1, <2>6
  <1> HIDE DEF X
  <1>3. /\ h \in [Nat \X X -> X]
        /\ \A k \in 1 .. n, s \in X : h[<<k, s>>] = MapNext(s, dst, list[k])
    <2>1. ASSUME NEW p \in Nat \X X
          PROVE  (IF p[1] \in 1 .. n THEN MapNext(p[2], dst, list[p[1]]) ELSE p[2]) \in X
      <3>1. p[2] \in X
        OBVIOUS
      <3> QED
        BY <1>2, <3>1
    <2>2. ASSUME NEW k \in 1 .. n, NEW s \in X
          PROVE  <<k, s>> \in Nat \X X /\ <<k, s>>[1] = k /\ <<k, s>>[2] = s
      OBVIOUS
    <2> QED
      BY <2>1, <2>2
  <1>e. u = e[n]
    <2> DEFINE s0[k \in 0 .. Len(list)] == IF k = 0 THEN m ELSE MapNext(s0[k - 1], dst, list[k])
    <2>1. s0 = e
      BY Zenon
    <2> HIDE DEF e, Step
    <2>2. u = s0[Len(list)]
      BY Zenon DEF MapList
    <2> HIDE DEF s0
    <2> QED
      BY <2>1, <2>2
  <1> HIDE DEF h, Step, e
  <1>4. PICK f : Recursive(f, X, m, h, n)
    BY <1>1, <1>3, Recursion
  <1>5. f \in [0 .. n -> X] /\ f[0] = m /\ \A k \in 1 .. n : f[k] = h[<<k, f[k - 1]>>]
    BY <1>4 DEF Recursive
  <1>6. \A k \in 1 .. n : k - 1 \in 0 .. n /\ f[k] = MapNext(f[k - 1], dst, list[k])
    <2>1. ASSUME NEW k \in 1 .. n
          PROVE  k - 1 \in 0 .. n
      OBVIOUS
    <2>2. ASSUME NEW k \in 1 .. n
          PROVE  f[k] = MapNext(f[k - 1], dst, list[k])
      <3>1. f[k - 1] \in X /\ f[k] = h[<<k, f[k - 1]>>]
        BY <1>5, <2>1
      <3> QED
        BY <1>3, <3>1
    <2> QED
      BY <2>1, <2>2
  <1>7. f = Step(f)
    BY <1>5, <1>6 DEF Step
  <1>8. e = Step(e)
    BY <1>7 DEF e
  <1>9. e[0] = m /\ \A k \in 1 .. n : e[k] = MapNext(e[k - 1], dst, list[k])
    BY <1>8 DEF Step
  <1>10. \A k \in 1 .. n : e[k - 1] \in X => e[k] \in X
    BY <1>2, <1>9
  <1>11. \A k \in 0 .. n : e[k] \in X
    BY <1>1, <1>9, <1>10, StaysIn
  <1>12. n \in 0 .. n
    OBVIOUS
  <1>13. MapDone(m, u, x)
    BY <1>e, <1>11, <1>12 DEF X
  <1> DEFINE first(k) == {list[j] : j \in 1 .. k}
             G == {p \in Nat \X X : Given(p[2], dst, first(p[1]))}
  <1>14. \A k \in Nat, s \in X : <<k, s>> \in G <=> Given(s, dst, first(k))
    OBVIOUS
  <1>15. ASSUME NEW k \in 1 .. n, <<k - 1, e[k - 1]>> \in G, m.fault = "none"
         PROVE  <<k, e[k]>> \in G
    <2>1. k \in Nat /\ k - 1 \in Nat /\ k - 1 \in 0 .. n /\ k \in 0 .. n
      OBVIOUS
    <2>2. e[k - 1] \in X /\ e[k] \in X /\ MapDone(m, e[k - 1], x)
      BY <1>11, <2>1 DEF X
    <2>3. Given(e[k - 1], dst, first(k - 1))
      BY <1>14, <1>15, <2>1, <2>2
    <2>4. first(k - 1) \subseteq m.used /\ first(k) = first(k - 1) \cup {list[k]}
      <3>1. \A j \in 1 .. k - 1 : j \in 1 .. n
        BY <2>1
      <3>2. \A j \in 1 .. k : j \in 1 .. k - 1 \/ j = k
        OBVIOUS
      <3>3. \A j \in 1 .. k - 1 : j \in 1 .. k
        BY <2>1
      <3> QED
        BY <1>15, <3>1, <3>2, <3>3
    <2> HIDE DEF first, G
    <2>5. PICK s, t, g, set : s = e[k - 1] /\ t = e[k] /\ g = list[k] /\ set = first(k - 1)
      OBVIOUS
    <2>6. t = MapNext(s, dst, g) /\ MapDone(m, s, x) /\ set \subseteq m.used /\ Given(s, dst, set)
      BY <1>9, <2>2, <2>3, <2>4, <2>5
    <2>7. m.fault = "none" => dst \in m.live /\ g \in m.used
      BY <2>5
    <2>8. Given(t, dst, set \cup {g})
      BY <2>6, <2>7, MapNextGood
    <2>9. Given(e[k], dst, first(k))
      BY <2>4, <2>5, <2>8
    <2> QED
      BY <1>14, <2>1, <2>2, <2>9
  <1>16. <<0, e[0]>> \in G
    <2>1. first(0) = {}
      OBVIOUS
    <2>2. Given(e[0], dst, {})
      BY DEF Given
    <2> HIDE DEF first, G
    <2>3. Given(e[0], dst, first(0))
      BY <2>1, <2>2
    <2> QED
      BY <1>1, <1>9, <1>14, <2>3
  <1> HIDE DEF G
  <1>17. ASSUME m.fault = "none"
         PROVE  Given(u, dst, first(n))
    <2>1. \A k \in 1 .. n : <<k - 1, e[k - 1]>> \in G => <<k, e[k]>> \in G
      BY <1>15, <1>17
    <2>2. \A k \in 0 .. n : <<k, e[k]>> \in G
      BY <1>16, <2>1, StaysGood
    <2> HIDE DEF first
    <2> QED
      BY <1>e, <1>11, <1>12, <1>14, <2>2
  <1>18. m.fault # "none" => u.fault # "none"
    BY <1>13 DEF MapDone, After
  <1> QED
    BY <1>13, <1>17, <1>18 DEF AllMapped, Given

-----------------------------------------------------------------------------
(* map_area() *)

LEMMA SliceIs ==
    ASSUME NEW c \in Seq(Slots), NEW i \in 1 .. Len(c), NEW j \in 1 .. Len(c), NEW s, s = SubSeq(c, i, j)
    PROVE  s \in Seq(Slots) /\ \A k \in 1 .. Len(s) : s[k] \in ToSet(c)
  <1>1. i \in Int /\ j \in Int /\ \A k \in i .. j : c[k] \in Slots
    OBVIOUS
  <1>2. PICK n \in Nat : n = IF i <= j THEN j - i + 1 ELSE 0
    <2>1. CASE i <= j
      <3>1. j - i + 1 \in Nat
        BY <2>1
      <3> QED
        BY <2>1, <3>1
    <2>2. CASE ~(i <= j)
      BY <2>2
    <2> QED
      BY <2>1, <2>2
  <1>3. s \in Seq(Slots) /\ Len(s) = n /\ \A k \in 1 .. n : s[k] = c[i + k - 1]
    BY <1>1, <1>2, SubSeqProperties
  <1>4. ASSUME NEW k \in 1 .. n
        PROVE  s[k] \in ToSet(c)
    <2>1. i + k - 1 \in 1 .. Len(c)
      BY <1>2
    <2> QED
      BY <1>3, <2>1, ToSetIs
  <1> QED
    BY <1>3, <1>4

LEMMA PositionIs ==
    ASSUME NEW c \in Seq(Slots), NEW f \in ToSet(c), NEW k, k = PositionIn(c, f)
    PROVE  k \in 1 .. Len(c) /\ c[k] = f
  <1>1. PICK at : at = {j \in DOMAIN c : c[j] = f}
    OBVIOUS
  <1>2. at \in SUBSET Nat /\ at # {}
    BY <1>1, ToSetIs
  <1>3. FirstOf(at) \in at
    BY <1>2, FirstOfIs
  <1>4. k = FirstOf(at)
    BY <1>1 DEF PositionIn
  <1> QED
    BY <1>1, <1>3, <1>4, ToSetIs

LEMMA AgainIs ==
    ASSUME NEW m \in Tables, NEW a \in Spaces, NEW f \in ToSet(m.chain[a]), NEW end, NEW to \in Slots,
           NEW g, g = Again(m, a, f, end, to)
    PROVE  g \in Slots
  <1> DEFINE c == From(m.chain[a], PositionIn(m.chain[a], f))
             k == {j \in DOMAIN c : Within(m, end, c[j], TRUE)}
  <1>1. g = IF k = {} THEN to ELSE c[FirstOf(k)]
    BY Zenon DEF Again
  <1>2. k \subseteq DOMAIN c
    OBVIOUS
  <1>3. c \in Seq(Slots)
    <2>1. PICK c0 \in Seq(Slots) : c0 = m.chain[a]
      BY LiveIs
    <2>2. PICK i \in 1 .. Len(c0) : i = PositionIn(c0, f)
      BY <2>1, PositionIs
    <2>3. PICK d : d = From(c0, i)
      OBVIOUS
    <2>4. c = d
      BY <2>1, <2>2, <2>3
    <2>5. d \in Seq(Slots)
      <3>1. i \in Int /\ Len(c0) \in Int /\ \A j \in i .. Len(c0) : c0[j] \in Slots
        OBVIOUS
      <3> QED
        BY <2>3, <3>1, SubSeqProperties DEF From
    <2> QED
      BY <2>4, <2>5
  <1> HIDE DEF c, k
  <1>4. CASE k # {}
    <2>1. DOMAIN c = 1 .. Len(c) /\ Len(c) \in Nat
      BY <1>3
    <2>2. k \in SUBSET Nat
      BY <1>2, <2>1
    <2>3. FirstOf(k) \in k
      BY <1>4, <2>2, FirstOfIs
    <2>4. FirstOf(k) \in 1 .. Len(c)
      BY <1>2, <2>1, <2>3
    <2>5. c[FirstOf(k)] \in Slots
      BY <1>3, <2>4
    <2> QED
      BY <1>1, <1>4, <2>5
  <1> QED
    BY <1>1, <1>4

LEMMA ProbeIs ==
    ASSUME NEW m, NEW c \in Seq(Slots), NEW base, NEW end, NEW r, r = Probe(m, c, base, end)
    PROVE  r \in Bounds /\ {r[1], r[2]} \subseteq {NULL} \cup ToSet(c)
  <1> DEFINE at == {k \in DOMAIN c : Within(m, base, c[k], FALSE)}
             ends == {k \in DOMAIN c : Within(m, end, c[k], TRUE)}
  <1>1. \/ r = <<NULL, NULL>>
        \/ at # {} /\ ends # {} /\ r = <<c[FirstOf(at)], c[FirstOf(ends)]>>
    BY Zenon DEF Probe
  <1>2. at \subseteq DOMAIN c /\ ends \subseteq DOMAIN c
    OBVIOUS
  <1> HIDE DEF at, ends
  <1>3. at \in SUBSET Nat /\ ends \in SUBSET Nat /\ at \subseteq 1 .. Len(c) /\ ends \subseteq 1 .. Len(c)
    BY <1>2
  <1>4. CASE at # {} /\ ends # {} /\ r = <<c[FirstOf(at)], c[FirstOf(ends)]>>
    <2>1. FirstOf(at) \in at /\ FirstOf(ends) \in ends
      BY <1>3, <1>4, FirstOfIs
    <2>2. c[FirstOf(at)] \in ToSet(c) /\ c[FirstOf(ends)] \in ToSet(c)
      BY <1>3, <2>1, ToSetIs
    <2>3. ToSet(c) \subseteq Slots
      BY ToSetIs
    <2> QED
      BY <1>4, <2>2, <2>3 DEF Bounds
  <1>5. CASE r = <<NULL, NULL>>
    BY <1>5 DEF Bounds
  <1> QED
    BY <1>1, <1>4, <1>5

LEMMA FaultyAfter ==
    ASSUME NEW m, NEW t \in Tables, t.fault = "none", NEW what \in Faults \ {"none", "endless"}, NEW x,
           NEW u, u = Faulty(t, what)
    PROVE  After(m, u, x)
  <1>1. u \in Tables /\ u.fault # "none" /\ u.fault \in {t.fault, what}
    BY FaultyIs
  <1> QED
    BY <1>1, AfterFault

LEMMA MappedGood ==
    ASSUME NEW m \in Tables, NEW x, NEW src \in m.live, NEW dst \in m.live,
           NEW l, After(m, l.mem, x), l.val \in Slots \cup {NULL}, NEW f \in Slots \cup {NULL},
           NEW r, r = Mapped(l, src, dst, f)
    PROVE  After(m, r.mem, x)
  <1>1. PICK t \in Tables : t = l.mem
    BY DEF After
  <1>2. After(m, t, x)
    BY <1>1
  <1>3. PICK c \in Seq(Slots) : c = t.chain[src]
    BY LiveIs
  <1>4. PICK list : list = SubSeq(c, PositionIn(c, f), PositionIn(c, l.val))
    OBVIOUS
  <1>5. PICK freed : freed = Faulty(t, "freed")
    OBVIOUS
  <1>6. PICK null : null = Faulty(t, "null")
    OBVIOUS
  <1>7. PICK u : u = MapList(t, dst, list)
    OBVIOUS
  <1>8. r = IF t.fault # "none" \/ NULL \in {f, l.val} THEN Result(t, FALSE)
            ELSE IF ~({f, l.val} \subseteq ToSet(c)) THEN Result(freed, FALSE)
            ELSE IF list = <<>> THEN Result(null, FALSE)
            ELSE Result(u, TRUE)
    BY <1>1, <1>3, <1>4, <1>5, <1>6, <1>7 DEF Mapped
  <1>9. CASE t.fault # "none" \/ NULL \in {f, l.val}
    <2>1. r.mem = t
      BY <1>8, <1>9 DEF Result
    <2> QED
      BY <1>2, <2>1
  <1>10. CASE t.fault = "none" /\ f # NULL /\ l.val # NULL /\ ~({f, l.val} \subseteq ToSet(c))
    <2>1. r.mem = freed
      BY <1>8, <1>10 DEF Result
    <2>2. "freed" \in Faults \ {"none", "endless"}
      BY DEF Faults
    <2>3. After(m, freed, x)
      BY <1>5, <1>10, <2>2, FaultyAfter
    <2> QED
      BY <2>1, <2>3
  <1>11. CASE t.fault = "none" /\ f # NULL /\ l.val # NULL /\ {f, l.val} \subseteq ToSet(c) /\ list = <<>>
    <2>1. r.mem = null
      BY <1>8, <1>11 DEF Result
    <2>2. "null" \in Faults \ {"none", "endless"}
      BY DEF Faults
    <2>3. After(m, null, x)
      BY <1>6, <1>11, <2>2, FaultyAfter
    <2> QED
      BY <2>1, <2>3
  <1>12. CASE t.fault = "none" /\ f # NULL /\ l.val # NULL /\ {f, l.val} \subseteq ToSet(c) /\ list # <<>>
    <2>1. r.mem = u
      BY <1>8, <1>12 DEF Result
    <2>2. PICK i \in 1 .. Len(c), j \in 1 .. Len(c) : i = PositionIn(c, f) /\ j = PositionIn(c, l.val)
      BY <1>12, PositionIs
    <2>3. list \in Seq(Slots) /\ \A k \in 1 .. Len(list) : list[k] \in ToSet(c)
      BY <1>4, <2>2, SliceIs
    <2>4. t.live = m.live /\ m.fault = "none" /\ Sound(t, m.live, x)
      BY <1>2, <1>12 DEF After
    <2>5. ToSet(c) \subseteq t.used
      <3>1. m.live \in SUBSET Spaces
        BY LiveIs
      <3> QED
        BY <1>3, <2>4, <3>1, UsedIs DEF Sound
    <2>6. PICK n \in Nat : n = Len(list)
      BY <2>3
    <2>7. dst \in t.live /\ \A k \in 1 .. n : list[k] \in t.used
      BY <2>3, <2>4, <2>5, <2>6
    <2>8. Good(t, x)
      BY <1>2, AfterGood
    <2>9. MapDone(t, u, x)
      BY <1>7, <2>6, <2>7, <2>8, MapListGood DEF AllMapped
    <2>10. After(m, u, x)
      BY <1>2, <2>9, AfterBoth DEF MapDone
    <2> QED
      BY <2>1, <2>10
  <1> QED
    BY <1>9, <1>10, <1>11, <1>12

LEMMA MapBetweenGood ==
    ASSUME NEW m \in Tables, NEW x, Good(m, x), m.fault = "none", NEW src \in m.live, NEW dst \in m.live,
           NEW base \in Nat, NEW end \in Nat, NEW from \in ToSet(m.chain[src]), NEW to \in Slots, NEW chance,
           NEW u, u = MapBetween(m, src, dst, base, end, from, to, chance)
    PROVE  After(m, u.mem, x)
  <1>1. m.live \in SUBSET Spaces /\ src \in Spaces
    BY LiveIs
  <1>2. from \in Slots
    <2>1. PICK c \in Seq(Slots) : c = m.chain[src]
      BY <1>1, LiveIs
    <2> QED
      BY <2>1, ToSetIs
  <1>3. PICK r : r = SplitFpage(m, src, from, base, "right", chance)
    OBVIOUS
  <1>4. SplitDone(m, r, x, src, from)
    BY <1>2, <1>3, SplitGood
  <1>5. After(m, r.mem, x) /\ r.val \in Slots \cup {NULL}
    BY <1>4 DEF SplitDone
  <1>6. PICK at : at = IF from = to /\ r.val # NULL THEN Again(r.mem, src, r.val, end, to) ELSE to
    OBVIOUS
  <1>7. PICK l : l = SplitFpage(r.mem, src, at, end, "left", chance)
    OBVIOUS
  <1>8. u = IF r.mem.fault # "none" THEN Result(r.mem, FALSE) ELSE Mapped(l, src, dst, r.val)
    <2>1. MapBetween(m, src, dst, base, end, from, to, chance) =
              IF r.mem.fault # "none" THEN Result(r.mem, FALSE) ELSE Mapped(l, src, dst, r.val)
      BY <1>3, <1>6, <1>7 DEF MapBetween
    <2> QED
      BY <2>1
  <1>9. CASE r.mem.fault # "none"
    <2>1. u.mem = r.mem
      BY <1>8, <1>9 DEF Result
    <2> QED
      BY <1>5, <2>1
  <1>10. CASE r.mem.fault = "none"
    <2>1. PICK t \in Tables : t = r.mem
      BY <1>5 DEF After
    <2>2. t.live = m.live /\ t.fault = "none" /\ Good(t, x)
      BY <1>5, <1>10, <2>1, AfterGood DEF After
    <2>3. r.val # NULL => r.val \in ToSet(t.chain[src])
      BY <1>4, <1>10, <2>1 DEF SplitDone
    <2>4. PICK g : g = r.val
      OBVIOUS
    <2>5. at \in Slots
      <3>1. CASE from = to /\ r.val # NULL
        <4>1. at = Again(t, src, g, end, to)
          BY <1>6, <2>1, <2>4, <3>1
        <4>2. g \in ToSet(t.chain[src])
          BY <2>3, <2>4, <3>1
        <4> QED
          BY <1>1, <4>1, <4>2, AgainIs
      <3> QED
        BY <1>6, <3>1
    <2>6. src \in t.live /\ l = SplitFpage(t, src, at, end, "left", chance)
      BY <1>7, <2>1, <2>2
    <2>7. SplitDone(t, l, x, src, at)
      BY <2>2, <2>5, <2>6, SplitGood
    <2>8. After(t, l.mem, x) /\ l.val \in Slots \cup {NULL}
      BY <2>7 DEF SplitDone
    <2>9. After(m, l.mem, x)
      BY <1>5, <2>1, <2>8, AfterBoth
    <2>10. g \in Slots \cup {NULL} /\ u = Mapped(l, src, dst, g)
      BY <1>5, <1>8, <1>10, <2>4
    <2> QED
      BY <2>8, <2>9, <2>10, MappedGood
  <1> QED
    BY <1>9, <1>10

\* map_area() leaves the spaces sound: what the root thread asks for is assigned
\* to its own space first, another thread has it in its space.
LEMMA MapAreaGood ==
    ASSUME NEW m \in Tables, NEW x, Good(m, x), NEW src \in Spaces, NEW dst,
           m.fault = "none" => src \in m.live /\ dst \in m.live,
           NEW base \in Nat, NEW size \in Nat, NEW privileged \in BOOLEAN, privileged => src = RootSpace,
           privileged /\ Regular => Multiple(base), NEW chance, NEW u, u = MapArea(m, src, dst, base, size, privileged, chance)
    PROVE  After(m, u.mem, x)
  <1>1. PICK r : r = IF privileged THEN AssignFpages(m, src, base, size)
                     ELSE Result(m, Probe(m, m.chain[src], base, base + size))
    OBVIOUS
  <1>2. u = IF src = dst THEN Result(r.mem, TRUE)
            ELSE IF r.mem.fault # "none" \/ NULL \in {r.val[1], r.val[2]} THEN Result(r.mem, FALSE)
            ELSE MapBetween(r.mem, src, dst, base, base + size, r.val[1], r.val[2], chance)
    <2>1. MapArea(m, src, dst, base, size, privileged, chance) =
              IF src = dst THEN Result(r.mem, TRUE)
              ELSE IF r.mem.fault # "none" \/ NULL \in {r.val[1], r.val[2]} THEN Result(r.mem, FALSE)
              ELSE MapBetween(r.mem, src, dst, base, base + size, r.val[1], r.val[2], chance)
      BY <1>1 DEF MapArea
    <2> QED
      BY <2>1
  <1>3. Assigned(m, r, x, src)
    <2>1. CASE privileged
      <3>1. r = AssignFpages(m, src, base, size) /\ src = RootSpace /\ size \in Int /\ (Regular => Multiple(base))
        BY <1>1, <2>1
      <3> QED
        BY <3>1, AssignFpagesGood
    <2>2. CASE ~privileged
      <3>1. PICK c \in Seq(Slots) : c = m.chain[src]
        BY LiveIs
      <3>2. PICK p : p = Probe(m, c, base, base + size)
        OBVIOUS
      <3>3. p \in Bounds /\ {p[1], p[2]} \subseteq {NULL} \cup ToSet(c)
        BY <3>2, ProbeIs
      <3>4. r.mem = m /\ r.val = p
        BY <1>1, <2>2, <3>1, <3>2 DEF Result
      <3> QED
        BY <3>1, <3>3, <3>4 DEF Assigned, Good
    <2> QED
      BY <2>1, <2>2
  <1>4. After(m, r.mem, x) /\ r.val \in Bounds
    BY <1>3 DEF Assigned
  <1>5. CASE src = dst \/ r.mem.fault # "none" \/ NULL \in {r.val[1], r.val[2]}
    <2>1. u.mem = r.mem
      BY <1>2, <1>5 DEF Result
    <2> QED
      BY <1>4, <2>1
  <1>6. CASE r.mem.fault = "none" /\ src # dst /\ NULL \notin {r.val[1], r.val[2]}
    <2>1. PICK t \in Tables : t = r.mem
      BY <1>4 DEF After
    <2>2. t.live = m.live /\ m.fault = "none" /\ t.fault = "none" /\ Good(t, x)
      BY <1>4, <1>6, <2>1, AfterGood DEF After
    <2>3. PICK from : from = r.val[1]
      OBVIOUS
    <2>4. PICK to : to = r.val[2]
      OBVIOUS
    <2>5. from \in ToSet(t.chain[src])
      BY <1>3, <1>6, <2>1, <2>3 DEF Assigned
    <2>6. to \in Slots
      BY <1>4, <1>6, <2>4 DEF Bounds
    <2>7. PICK end \in Nat : end = base + size
      OBVIOUS
    <2>8. u = MapBetween(t, src, dst, base, end, from, to, chance)
      BY <1>2, <1>6, <2>1, <2>3, <2>4, <2>7
    <2>9. src \in t.live /\ dst \in t.live
      BY <2>2
    <2>10. After(t, u.mem, x)
      BY <2>2, <2>5, <2>6, <2>8, <2>9, MapBetweenGood
    <2> QED
      BY <1>4, <2>1, <2>10, AfterBoth
  <1> QED
    BY <1>5, <1>6

-----------------------------------------------------------------------------
(* as_destroy() *)

LEMMA UnlinkedIs ==
    ASSUME NEW m \in Tables, NEW prev \in Slots, NEW f \in Slots, NEW v, v = Unlinked(m, prev, f)
    PROVE  /\ v \in Tables /\ v.mapNext = [m.mapNext EXCEPT ![prev] = m.mapNext[f]]
           /\ v.used = m.used /\ v.fp = m.fp /\ v.chain = m.chain /\ v.fault = m.fault
           /\ v.live = m.live /\ v.shared = m.shared
  <1>1. PICK next \in Slots : next = m.mapNext[f]
    BY DEF Tables
  <1>2. PICK w : w = [m EXCEPT !.mapNext[prev] = next]
    OBVIOUS
  <1>3. v = w
    BY <1>1, <1>2 DEF Unlinked
  <1>4. w \in Tables /\ w.mapNext = [m.mapNext EXCEPT ![prev] = next] /\ Same(m, w, {"mapNext"})
    BY <1>2 DEF Tables, Same
  <1>5. /\ w.used = m.used /\ w.fp = m.fp /\ w.chain = m.chain /\ w.fault = m.fault
        /\ w.live = m.live /\ w.shared = m.shared
    BY <1>4 DEF Tables, Same
  <1> QED
    BY <1>1, <1>3, <1>4, <1>5

\* What leaves a space that is not the one of the root thread leaves the rest in order.
LEMMA LoosedNeat ==
    ASSUME NEW m \in Tables, NEW x, Neat(m, x), NEW a \in m.live, a # RootSpace, NEW f,
           NEW v \in Tables, v.used = m.used, v.fp = m.fp, v.chain = m.chain, v.live = m.live,
           NEW u, Loosed(v, u, a, f), u.fault = "none"
    PROVE  Neat(u, x)
  <1>1. Gridded(m, m.used) /\ Sundered(m, m.used) /\ Sorted(m) /\ RootSpace \in m.live /\ Covered(m, x)
    BY DEF Neat, Tidy
  <1>2. m.live \in SUBSET Spaces /\ m.chain \in [Spaces -> Seq(Slots)] /\ a \in Spaces /\ RootSpace \in Spaces
    BY <1>1, LiveIs
  <1>3. PICK d : Without(m.chain[a], f, d) /\ u.chain = [m.chain EXCEPT ![a] = d]
    BY DEF Loosed
  <1>4. u.used \subseteq m.used /\ u.fp = m.fp /\ u.live = m.live
    BY DEF Loosed
  <1>5. /\ u.chain[a] = d /\ d \in Seq(Slots) /\ InOrder(m.chain[a], d)
        /\ \A b \in Spaces \ {a} : u.chain[b] = m.chain[b]
    BY <1>2, <1>3 DEF Without
  <1>6. Gridded(u, u.used) /\ Sundered(u, u.used)
    BY <1>1, <1>4, NeatLess
  <1>7. ASSUME NEW b \in m.live
        PROVE  OrderedBy(m, u.chain[b])
    <2>1. OrderedBy(m, m.chain[b])
      BY <1>1 DEF Sorted
    <2>2. CASE b = a
      <3>1. PICK c \in Seq(Slots) : c = m.chain[a]
        BY <1>2
      <3> QED
        BY <1>5, <2>1, <2>2, <3>1, OrderedOf
    <2>3. CASE b # a
      BY <1>2, <1>5, <2>1, <2>3
    <2> QED
      BY <2>2, <2>3
  <1>8. Sorted(u)
    BY <1>4, <1>7 DEF Sorted, OrderedBy, Base
  <1>9. Covered(u, x)
    <2>1. u.chain[RootSpace] = m.chain[RootSpace]
      BY <1>2, <1>5
    <2> QED
      BY <1>1, <1>4, <2>1 DEF Covered, Mirrored, Twins
  <1> QED
    BY <1>1, <1>4, <1>6, <1>8, <1>9 DEF Neat, Tidy

\* f, which was mapped to a, is there no more.
UnmapDone(m, u, x, a, f) ==
    After(m, u, x) /\ (u.fault = "none" => ToSet(u.chain[a]) = ToSet(m.chain[a]) \ {f})

LEMMA UnmapFpageGood ==
    ASSUME NEW m \in Tables, NEW x, Good(m, x), m.fault = "none", NEW a \in m.live, a # RootSpace,
           NEW f \in ToSet(m.chain[a]), m.fp[f].clone, NEW chance, NEW u, u = UnmapFpage(m, a, f, chance)
    PROVE  UnmapDone(m, u, x, a, f)
  <1>1. m.live \in SUBSET Spaces /\ a \in Spaces
    BY LiveIs
  <1>2. Sound(m, m.live, x)
    BY DEF Good, After
  <1>3. f \in m.used /\ f \in Slots /\ Ringed(m)
    BY <1>1, <1>2, UsedIs DEF Sound
  <1>4. LinksTo(m, f) # {}
    BY <1>3, LinksToIs
  <1>5. PICK prev \in m.used : prev = Trail(m.mapNext, f)[FirstOf(LinksTo(m, f))] /\ m.mapNext[prev] = f
    BY <1>3, LinksToIs
  <1>6. prev \in Slots
    BY DEF Tables
  <1>7. PICK v : v = Unlinked(m, prev, f)
    OBVIOUS
  <1>8. /\ v \in Tables /\ v.mapNext = [m.mapNext EXCEPT ![prev] = m.mapNext[f]]
        /\ v.used = m.used /\ v.fp = m.fp /\ v.chain = m.chain /\ v.fault = m.fault
        /\ v.live = m.live /\ v.shared = m.shared
    BY <1>3, <1>6, <1>7, UnlinkedIs
  <1>9. u = Dropped(v, a, f, chance)
    BY <1>4, <1>5, <1>7 DEF UnmapFpage
  <1>10. Loosed(v, u, a, f)
    BY <1>1, <1>3, <1>8, <1>9, DroppedIs
  <1>11. CASE u.fault # "none"
    <2>1. u \in Tables /\ u.fault # "endless"
      BY <1>8, <1>10, <1>11 DEF Loosed, Wrong
    <2>2. After(m, u, x)
      BY <1>11, <2>1, AfterFault
    <2> QED
      BY <1>11, <2>2 DEF UnmapDone
  <1>12. CASE u.fault = "none"
    <2>1. /\ u \in Tables /\ u.used = v.used \ {f} /\ u.fp = v.fp /\ u.mapNext = v.mapNext
          /\ u.live = v.live /\ u.shared = v.shared
      BY <1>10, <1>12 DEF Loosed
    <2>2. Ringed(u)
      <3>1. u.used = m.used \ {f} /\ u.fp = m.fp /\ u.mapNext = [m.mapNext EXCEPT ![prev] = m.mapNext[f]]
        BY <1>8, <2>1
      <3> QED
        BY <1>3, <1>5, <3>1, RingsCut
    <2>3. Sound(u, m.live, x)
      BY <1>1, <1>2, <1>8, <1>10, <1>12, <2>2, SoundLoosed
    <2>n. Kept(m, u, x)
      <3>1. Neat(m, x) => Neat(u, x)
        BY <1>8, <1>10, <1>12, LoosedNeat
      <3> QED
        BY <3>1 DEF Kept
    <2>4. After(m, u, x)
      BY <1>8, <1>12, <2>1, <2>3, <2>n DEF After
    <2>5. PICK d : Without(m.chain[a], f, d) /\ u.chain = [m.chain EXCEPT ![a] = d]
      BY <1>8, <1>10, <1>12 DEF Loosed
    <2>6. u.chain[a] = d
      <3>1. m.chain \in [Spaces -> Seq(Slots)]
        BY LiveIs
      <3> QED
        BY <1>1, <2>5, <3>1
    <2>7. Distinct(m.chain[a])
      BY <1>2 DEF Sound, Placed
    <2>8. ToSet(d) = ToSet(m.chain[a]) \ {f}
      BY <2>5, <2>7 DEF Without
    <2> QED
      BY <2>4, <2>6, <2>8 DEF UnmapDone
  <1> QED
    BY <1>11, <1>12

\* Of the list c of a space all up to the k-th are gone.
Remaining(m, s, x, a, c, k) ==
    After(m, s, x) /\ (s.fault = "none" => ToSet(s.chain[a]) = {c[j] : j \in k + 1 .. Len(c)})

LEMMA DestroyNextGood ==
    ASSUME NEW m \in Tables, NEW x, NEW a \in Spaces, m.fault = "none" => a \in m.live, a # RootSpace,
           NEW c \in Seq(Slots), Distinct(c), NEW k \in 1 .. Len(c),
           NEW s, Remaining(m, s, x, a, c, k - 1), NEW chance, NEW t, t = DestroyNext(s, a, c[k], chance)
    PROVE  Remaining(m, t, x, a, c, k)
  <1>1. PICK f : f = c[k]
    OBVIOUS
  <1>2. After(m, s, x) /\ (s.fault = "none" => ToSet(s.chain[a]) = {c[j] : j \in k - 1 + 1 .. Len(c)})
    BY DEF Remaining
  <1>3. CASE s.fault # "none"
    <2>1. t = s
      BY <1>3 DEF DestroyNext
    <2> QED
      BY <1>2, <1>3, <2>1 DEF Remaining
  <1>4. CASE s.fault = "none"
    <2>1. s \in Tables /\ m.fault = "none" /\ s.live = m.live /\ Sound(s, m.live, x) /\ Good(s, x)
      BY <1>2, <1>4, AfterGood DEF After
    <2>2. a \in s.live
      BY <2>1
    <2>3. ToSet(s.chain[a]) = {c[j] : j \in k .. Len(c)}
      <3>1. k - 1 + 1 = k
        OBVIOUS
      <3> QED
        BY <1>2, <1>4, <3>1
    <2>4. f \in ToSet(s.chain[a])
      <3>1. k \in k .. Len(c)
        OBVIOUS
      <3> QED
        BY <1>1, <2>3, <3>1
    <2>5. s.fp[f].clone
      BY <2>1, <2>2, <2>4 DEF Sound, Homed
    <2>6. t = UnmapFpage(s, a, f, chance)
      BY <1>1, <1>4, <2>5 DEF DestroyNext
    <2>7. UnmapDone(s, t, x, a, f)
      BY <1>4, <2>1, <2>2, <2>4, <2>5, <2>6, UnmapFpageGood
    <2>8. After(m, t, x)
      BY <1>2, <2>7, AfterBoth DEF UnmapDone
    <2>9. {c[j] : j \in k .. Len(c)} \ {f} = {c[j] : j \in k + 1 .. Len(c)}
      <3>1. \A j \in k .. Len(c) : j \in DOMAIN c /\ (j = k \/ j \in k + 1 .. Len(c))
        OBVIOUS
      <3>2. \A j \in k + 1 .. Len(c) : j \in DOMAIN c /\ j # k /\ j \in k .. Len(c)
        OBVIOUS
      <3>3. k \in DOMAIN c
        OBVIOUS
      <3>4. \A j \in k + 1 .. Len(c) : c[j] # f
        BY <1>1, <3>2, <3>3 DEF Distinct
      <3> QED
        BY <1>1, <3>1, <3>2, <3>4
    <2> QED
      BY <2>3, <2>7, <2>8, <2>9 DEF UnmapDone, Remaining
  <1> QED
    BY <1>3, <1>4

\* After the walk of as_destroy() a space that is not the one of the root thread
\* has no fpages.
LEMMA DestroyListGood ==
    ASSUME NEW m \in Tables, NEW x, Good(m, x), m.fault = "none", NEW a \in m.live, a # RootSpace, NEW chance,
           NEW u, u = DestroyList(m, a, m.chain[a], chance)
    PROVE  After(m, u, x) /\ (u.fault = "none" => ToSet(u.chain[a]) = {})
  <1>1. PICK c \in Seq(Slots) : c = m.chain[a]
    BY LiveIs
  <1>2. PICK n \in Nat : n = Len(c)
    OBVIOUS
  <1>3. a \in Spaces
    BY LiveIs
  <1>4. Distinct(c)
    BY <1>1 DEF Good, After, Sound, Placed
  <1> DEFINE X == {s \in Tables : After(m, s, x)}
             G == {p \in Nat \X X : Remaining(m, p[2], x, a, c, p[1])}
             Step(f) == [k \in 0 .. n |-> IF k = 0 THEN m ELSE DestroyNext(f[k - 1], a, c[k], chance)]
             e == CHOOSE f : f = Step(f)
             h == [p \in Nat \X X |-> IF p[1] \in 1 .. n /\ <<p[1] - 1, p[2]>> \in G
                                      THEN DestroyNext(p[2], a, c[p[1]], chance) ELSE p[2]]
  <1>5. \A k \in Nat : \A s : <<k, s>> \in G <=> Remaining(m, s, x, a, c, k)
    BY DEF Remaining, After
  <1>6. <<0, m>> \in G
    <2>1. 0 + 1 = 1 /\ 1 .. Len(c) = DOMAIN c
      OBVIOUS
    <2>2. ToSet(c) = {c[j] : j \in 1 .. Len(c)}
      BY ToSetIs
    <2>3. Remaining(m, m, x, a, c, 0)
      BY <1>1, <2>1, <2>2 DEF Remaining, Good
    <2> HIDE DEF G
    <2> QED
      BY <1>5, <2>3
  <1>7. ASSUME NEW k \in 1 .. n, NEW s, <<k - 1, s>> \in G
        PROVE  <<k, DestroyNext(s, a, c[k], chance)>> \in G
    <2>1. k - 1 \in Nat /\ k \in Nat
      OBVIOUS
    <2>2. Remaining(m, s, x, a, c, k - 1)
      BY <1>5, <1>7, <2>1
    <2> HIDE DEF G
    <2>3. PICK t : t = DestroyNext(s, a, c[k], chance)
      OBVIOUS
    <2>4. k \in 1 .. Len(c)
      BY <1>2
    <2>5. Remaining(m, t, x, a, c, k)
      BY <1>3, <1>4, <2>2, <2>3, <2>4, DestroyNextGood
    <2> QED
      BY <1>5, <2>1, <2>3, <2>5
  <1>8. \A k \in Nat : \A s : <<k, s>> \in G => s \in X
    OBVIOUS
  <1>9. m \in X
    BY <1>6, <1>8
  <1> HIDE DEF X, G
  <1>10. /\ h \in [Nat \X X -> X]
        /\ \A k \in 1 .. n, s \in X : <<k - 1, s>> \in G => h[<<k, s>>] = DestroyNext(s, a, c[k], chance)
    <2>1. ASSUME NEW p \in Nat \X X
          PROVE  (IF p[1] \in 1 .. n /\ <<p[1] - 1, p[2]>> \in G
                  THEN DestroyNext(p[2], a, c[p[1]], chance) ELSE p[2]) \in X
      <3>1. CASE p[1] \in 1 .. n /\ <<p[1] - 1, p[2]>> \in G
        <4>1. <<p[1], DestroyNext(p[2], a, c[p[1]], chance)>> \in G
          BY <1>7, <3>1
        <4>2. DestroyNext(p[2], a, c[p[1]], chance) \in X
          BY <1>8, <4>1
        <4> QED
          BY <3>1, <4>2
      <3>2. CASE ~(p[1] \in 1 .. n /\ <<p[1] - 1, p[2]>> \in G)
        <4>1. p[2] \in X
          OBVIOUS
        <4> QED
          BY <3>2, <4>1
      <3> QED
        BY <3>1, <3>2
    <2>2. ASSUME NEW k \in 1 .. n, NEW s \in X
          PROVE  <<k, s>> \in Nat \X X /\ <<k, s>>[1] = k /\ <<k, s>>[2] = s
      OBVIOUS
    <2> QED
      BY <2>1, <2>2
  <1>11. u = e[n]
    <2> DEFINE s0[k \in 0 .. Len(c)] == IF k = 0 THEN m ELSE DestroyNext(s0[k - 1], a, c[k], chance)
    <2>1. s0 = e
      BY <1>2, Zenon
    <2> HIDE DEF e, Step
    <2>2. u = s0[Len(c)]
      BY <1>1, Zenon DEF DestroyList
    <2> HIDE DEF s0
    <2> QED
      BY <1>2, <2>1, <2>2
  <1> HIDE DEF h, Step, e
  <1>12. PICK f : Recursive(f, X, m, h, n)
    BY <1>9, <1>10, Recursion
  <1>13. f \in [0 .. n -> X] /\ f[0] = m /\ \A k \in 1 .. n : f[k] = h[<<k, f[k - 1]>>]
    BY <1>12 DEF Recursive
  <1>14. ASSUME NEW k \in 1 .. n, <<k - 1, f[k - 1]>> \in G
         PROVE  f[k] = DestroyNext(f[k - 1], a, c[k], chance) /\ <<k, f[k]>> \in G
    <2>1. k - 1 \in 0 .. n
      OBVIOUS
    <2>2. f[k - 1] \in X /\ f[k] = h[<<k, f[k - 1]>>]
      BY <1>13, <2>1
    <2>3. f[k] = DestroyNext(f[k - 1], a, c[k], chance)
      BY <1>10, <1>14, <2>2
    <2> QED
      BY <1>7, <1>14, <2>3
  <1>15. \A k \in 0 .. n : <<k, f[k]>> \in G
    BY <1>6, <1>13, <1>14, StaysGood
  <1>16. \A k \in 1 .. n : f[k] = DestroyNext(f[k - 1], a, c[k], chance)
    <2>1. \A k \in 1 .. n : k - 1 \in 0 .. n
      OBVIOUS
    <2> QED
      BY <1>14, <1>15, <2>1
  <1>17. f = Step(f)
    BY <1>13, <1>16 DEF Step
  <1>18. e = Step(e)
    BY <1>17 DEF e
  <1>19. e[0] = m /\ \A k \in 1 .. n : e[k] = DestroyNext(e[k - 1], a, c[k], chance)
    BY <1>18 DEF Step
  <1>20. \A k \in 1 .. n : <<k - 1, e[k - 1]>> \in G => <<k, e[k]>> \in G
    BY <1>7, <1>19
  <1>21. \A k \in 0 .. n : <<k, e[k]>> \in G
    <2>1. <<0, e[0]>> \in G
      BY <1>6, <1>19
    <2> QED
      BY <1>20, <2>1, StaysGood
  <1>22. Remaining(m, u, x, a, c, n)
    <2>1. n \in 0 .. n
      OBVIOUS
    <2>2. <<n, e[n]>> \in G
      BY <1>21, <2>1
    <2>3. Remaining(m, e[n], x, a, c, n)
      BY <1>5, <2>2
    <2> QED
      BY <1>11, <2>3
  <1>23. {c[j] : j \in n + 1 .. Len(c)} = {}
    BY <1>2
  <1> QED
    BY <1>22, <1>23 DEF Remaining

\* A space is not destroyed as long as others share it, and then with all its
\* fpages.
Destroyed(m, u, x, a) ==
    /\ u \in Tables /\ u.fault # "endless"
    /\ u.fault = "none" =>
           /\ Sound(u, u.live, x)
           /\ IF m.shared[a] > 0 THEN u.live = m.live /\ u.shared = [m.shared EXCEPT ![a] = @ - 1]
              ELSE u.live = m.live \ {a} /\ u.shared = m.shared
           /\ Kept(m, u, x)

LEMMA AsDestroyGood ==
    ASSUME NEW m \in Tables, NEW x, Good(m, x), m.fault = "none", NEW a \in m.live,
           m.shared[a] > 0 \/ a # RootSpace, NEW chance, NEW u, u = AsDestroy(m, a, chance)
    PROVE  Destroyed(m, u, x, a)
  <1>1. m.live \in SUBSET Spaces /\ a \in Spaces
    BY LiveIs
  <1>2. Sound(m, m.live, x)
    BY DEF Good, After
  <1>3. CASE m.shared[a] > 0
    <2>1. PICK v : v = [m EXCEPT !.shared[a] = @ - 1]
      OBVIOUS
    <2>2. u = v
      BY <1>3, <2>1 DEF AsDestroy
    <2>3. v \in Tables /\ v.shared = [m.shared EXCEPT ![a] = @ - 1] /\ Same(m, v, {"shared"})
      <3>1. m.shared \in [Spaces -> Nat] /\ m.shared[a] - 1 \in Nat
        BY <1>1, <1>3 DEF Tables
      <3>2. PICK w \in [Spaces -> Nat] : w = [m.shared EXCEPT ![a] = @ - 1]
        BY <3>1
      <3>3. v = [m EXCEPT !.shared = w]
        BY <2>1, <3>2
      <3> QED
        BY <3>2, <3>3 DEF Tables, Same
    <2>4. /\ v.used = m.used /\ v.fp = m.fp /\ v.mapNext = m.mapNext /\ v.chain = m.chain
          /\ v.live = m.live /\ v.fault = m.fault
      BY <2>3 DEF Same, Tables
    <2>5. Sound(v, m.live, x)
      BY <1>2, <2>4, SoundSame
    <2>6. Kept(m, v, x)
      BY <2>4, NeatSame DEF Kept
    <2> QED
      BY <1>3, <2>2, <2>3, <2>4, <2>5, <2>6 DEF Destroyed
  <1>4. CASE ~(m.shared[a] > 0)
    <2>1. PICK s : s = DestroyList(m, a, m.chain[a], chance)
      OBVIOUS
    <2>2. After(m, s, x) /\ (s.fault = "none" => ToSet(s.chain[a]) = {})
      BY <1>4, <2>1, DestroyListGood
    <2>3. s \in Tables
      BY <2>2 DEF After
    <2>4. PICK w : w = [s EXCEPT !.live = @ \ {a}]
      OBVIOUS
    <2>5. u = w
      BY <1>4, <2>1, <2>4 DEF AsDestroy
    <2>6. w \in Tables /\ w.live = s.live \ {a} /\ Same(s, w, {"live"})
      BY <2>3, <2>4 DEF Tables, Same
    <2>7. /\ w.used = s.used /\ w.fp = s.fp /\ w.mapNext = s.mapNext /\ w.chain = s.chain
          /\ w.shared = s.shared /\ w.fault = s.fault
      BY <2>3, <2>6 DEF Same, Tables
    <2>8. ASSUME w.fault = "none"
          PROVE  Sound(w, w.live, x) /\ w.live = m.live \ {a} /\ w.shared = m.shared /\ Kept(m, w, x)
      <3>1. s.live = m.live /\ s.shared = m.shared /\ Sound(s, m.live, x) /\ ToSet(s.chain[a]) = {}
        BY <2>2, <2>7, <2>8 DEF After
      <3>2. PICK L : L = m.live \ {a}
        OBVIOUS
      <3>3. Placed(s, m.live, x) /\ Homed(s, m.live) /\ Ringed(s) /\ Shapely(s)
        BY <3>1 DEF Sound
      <3>4. UNION {ToSet(s.chain[b]) : b \in m.live} = UNION {ToSet(s.chain[b]) : b \in L}
        BY <3>1, <3>2
      <3>5. Placed(s, L, x)
        BY <3>2, <3>3, <3>4 DEF Placed
      <3>6. Homed(s, L)
        BY <3>2, <3>3 DEF Homed
      <3>7. Sound(s, L, x)
        BY <3>3, <3>5, <3>6 DEF Sound
      <3>8. Sound(w, L, x)
        BY <2>7, <3>7, SoundSame
      <3>9. Kept(m, s, x)
        BY <2>2, <2>7, <2>8 DEF After
      <3>10. Neat(s, x) => Neat(w, x)
        <4>1. w.live \subseteq s.live /\ (RootSpace \in s.live => RootSpace \in w.live)
          BY <1>4, <2>6
        <4>2. Gridded(s, s.used) => Gridded(w, w.used)
          BY <2>7 DEF Gridded, OnGrid, Base, End
        <4>3. Sundered(s, s.used) => Sundered(w, w.used)
          BY <2>7 DEF Sundered, Beside, Apart, Twins, Base, End
        <4>4. Sorted(s) => Sorted(w)
          BY <2>7, <4>1 DEF Sorted, OrderedBy, Base
        <4>5. Covered(s, x) => Covered(w, x)
          BY <2>7 DEF Covered, Mirrored, Twins
        <4> QED
          BY <4>1, <4>2, <4>3, <4>4, <4>5 DEF Neat, Tidy
      <3> QED
        BY <2>6, <2>7, <3>1, <3>2, <3>8, <3>9, <3>10 DEF Kept
    <2>9. w.fault # "endless"
      BY <2>2, <2>7 DEF After
    <2> QED
      BY <1>4, <2>5, <2>6, <2>8, <2>9 DEF Destroyed
  <1> QED
    BY <1>3, <1>4

-----------------------------------------------------------------------------
(* as_create() *)

\* There is a new space, without fpages.
Created(m, r, x) ==
    /\ r.mem \in Tables /\ r.val \in Spaces \ m.live /\ r.mem.live = m.live \cup {r.val}
    /\ r.mem.shared = [m.shared EXCEPT ![r.val] = 0] /\ r.mem.fault = m.fault
    /\ Sound(m, m.live, x) => Sound(r.mem, r.mem.live, x)
    /\ (Tidy(m) => Tidy(r.mem)) /\ Kept(m, r.mem, x)

LEMMA AsCreateGood ==
    ASSUME NEW m \in Tables, NEW x, Spaces \ m.live # {}, NEW r, r = AsCreate(m)
    PROVE  Created(m, r, x)
  <1>1. PICK a \in Spaces \ m.live : a = FirstOf(Spaces \ m.live)
    <2>1. Spaces \ m.live \in SUBSET Nat
      BY SlotsAre
    <2> QED
      BY <2>1, FirstOfIs
  <1>2. m.live \in SUBSET Spaces /\ a \in Spaces
    BY LiveIs
  <1>3. PICK empty \in Seq(Slots) : empty = <<>>
    BY EmptySeq, Zenon
  <1>4. PICK u : u = [m EXCEPT !.live = @ \cup {a}]
    OBVIOUS
  <1>5. u \in Tables /\ u.live = m.live \cup {a} /\ Same(m, u, {"live"})
    BY <1>2, <1>4 DEF Tables, Same
  <1>6. PICK v : v = [u EXCEPT !.chain[a] = empty]
    OBVIOUS
  <1>7. Relisted(u, v, a, empty)
    BY <1>2, <1>5, <1>6, RelistIs
  <1>8. v \in Tables
    BY <1>7 DEF Relisted
  <1>9. PICK w : w = [v EXCEPT !.shared[a] = 0]
    OBVIOUS
  <1>10. w \in Tables /\ w.shared = [v.shared EXCEPT ![a] = 0] /\ Same(v, w, {"shared"})
    BY <1>2, <1>8, <1>9 DEF Tables, Same
  <1>11. r = Result(w, a)
    BY <1>1, <1>3, <1>4, <1>6, <1>9 DEF AsCreate, Tables
  <1>12. r.mem = w /\ r.val = a
    BY <1>11 DEF Result
  <1>13. /\ w.used = v.used /\ w.fp = v.fp /\ w.mapNext = v.mapNext /\ w.chain = v.chain
         /\ w.live = v.live /\ w.fault = v.fault
    BY <1>8, <1>10 DEF Same, Tables
  <1>14. /\ v.used = u.used /\ v.fp = u.fp /\ v.mapNext = u.mapNext /\ v.live = u.live
         /\ v.shared = u.shared /\ v.fault = u.fault /\ v.chain[a] = empty
    BY <1>2, <1>5, <1>7, RelistedIs
  <1>15. \A b \in Spaces \ {a} : v.chain[b] = u.chain[b]
    BY <1>2, <1>5, <1>7, RelistedIs
  <1>16. /\ u.used = m.used /\ u.fp = m.fp /\ u.mapNext = m.mapNext /\ u.chain = m.chain
         /\ u.shared = m.shared /\ u.fault = m.fault
    BY <1>5 DEF Same, Tables
  <1>17. ASSUME Sound(m, m.live, x)
         PROVE  Sound(w, w.live, x)
    <2>1. Placed(m, m.live, x) /\ Homed(m, m.live) /\ Ringed(m) /\ Shapely(m)
      BY <1>17 DEF Sound
    <2>2. w.live = m.live \cup {a}
      BY <1>5, <1>13, <1>14
    <2>3. \A b \in m.live : w.chain[b] = m.chain[b]
      BY <1>1, <1>2, <1>13, <1>15, <1>16
    <2>4. ToSet(w.chain[a]) = {} /\ Distinct(w.chain[a])
      BY <1>3, <1>13, <1>14 DEF ToSet, Distinct
    <2>5. w.used = m.used /\ w.fp = m.fp /\ w.mapNext = m.mapNext
      BY <1>13, <1>14, <1>16
    <2>6. UNION {ToSet(w.chain[b]) : b \in w.live} = UNION {ToSet(m.chain[b]) : b \in m.live}
      BY <2>2, <2>3, <2>4
    <2>7. Placed(w, w.live, x)
      BY <2>1, <2>2, <2>3, <2>4, <2>5, <2>6 DEF Placed
    <2>8. Homed(w, w.live)
      BY <2>1, <2>2, <2>3, <2>4, <2>5 DEF Homed
    <2>9. Ringed(w)
      BY <2>1, <2>5, RingsSame
    <2>10. Shapely(w)
      BY <2>1, <2>5 DEF Shapely, ShapeOf
    <2> QED
      BY <2>7, <2>8, <2>9, <2>10 DEF Sound
  <1>18. w.live = m.live \cup {a} /\ w.shared = [m.shared EXCEPT ![a] = 0] /\ w.fault = m.fault
    BY <1>5, <1>10, <1>13, <1>14, <1>16
  <1>19. /\ w.used = m.used /\ w.fp = m.fp /\ w.chain[a] = empty
         /\ \A b \in m.live : w.chain[b] = m.chain[b]
    BY <1>1, <1>2, <1>13, <1>14, <1>15, <1>16
  <1>20. Tidy(m) => Tidy(w)
    <2>1. Gridded(m, m.used) => Gridded(w, w.used)
      BY <1>19 DEF Gridded, OnGrid, Base, End
    <2>2. Sundered(m, m.used) => Sundered(w, w.used)
      BY <1>19 DEF Sundered, Beside, Apart, Twins, Base, End
    <2>3. OrderedBy(w, w.chain[a])
      BY <1>3, <1>19 DEF OrderedBy
    <2>4. Sorted(m) => \A b \in m.live : OrderedBy(w, w.chain[b])
      BY <1>19 DEF Sorted, OrderedBy, Base
    <2> QED
      BY <1>18, <2>1, <2>2, <2>3, <2>4 DEF Tidy, Sorted
  <1>21. RootSpace \in m.live /\ Covered(m, x) => Covered(w, x)
    BY <1>19 DEF Covered, Mirrored, Twins
  <1>22. Kept(m, w, x)
    BY <1>18, <1>20, <1>21 DEF Kept, Neat
  <1> QED
    BY <1>1, <1>10, <1>12, <1>17, <1>18, <1>20, <1>22 DEF Created

-----------------------------------------------------------------------------
(* as_setup_mpu() *)

LEMMA OnlyIs ==
    ASSUME NEW c \in Seq(Slots), NEW set, NEW r, r = Only(c, set)
    PROVE  r \in Seq(Slots)
  <1>1. PICK n \in Nat : n = Len(c)
    OBVIOUS
  <1>2. PICK nothing \in Seq(Slots) : nothing = <<>>
    BY EmptySeq, Zenon
  <1> DEFINE X == Seq(Slots)
             Step(f) == [k \in 0 .. n |-> IF k = 0 THEN nothing ELSE OnlyNext(f[k - 1], c[k], set)]
             e == CHOOSE f : f = Step(f)
             h == [p \in Nat \X X |-> IF p[1] \in 1 .. n THEN OnlyNext(p[2], c[p[1]], set) ELSE p[2]]
  <1>3. ASSUME NEW k \in 1 .. n, NEW s \in X
        PROVE  OnlyNext(s, c[k], set) \in X
    BY <1>1 DEF OnlyNext
  <1>4. nothing \in X
    OBVIOUS
  <1> HIDE DEF X
  <1>5. /\ h \in [Nat \X X -> X]
        /\ \A k \in 1 .. n, s \in X : h[<<k, s>>] = OnlyNext(s, c[k], set)
    <2>1. ASSUME NEW p \in Nat \X X
          PROVE  (IF p[1] \in 1 .. n THEN OnlyNext(p[2], c[p[1]], set) ELSE p[2]) \in X
      <3>1. p[2] \in X
        OBVIOUS
      <3> QED
        BY <1>3, <3>1
    <2>2. ASSUME NEW k \in 1 .. n, NEW s \in X
          PROVE  <<k, s>> \in Nat \X X /\ <<k, s>>[1] = k /\ <<k, s>>[2] = s
      OBVIOUS
    <2> QED
      BY <2>1, <2>2
  <1>6. r = e[n]
    <2> DEFINE s0[k \in 0 .. Len(c)] == IF k = 0 THEN <<>> ELSE OnlyNext(s0[k - 1], c[k], set)
    <2>1. s0 = e
      BY <1>1, <1>2, Zenon
    <2> HIDE DEF e, Step
    <2>2. r = s0[Len(c)]
      BY Zenon DEF Only
    <2> HIDE DEF s0
    <2> QED
      BY <1>1, <2>1, <2>2
  <1> HIDE DEF h, Step, e
  <1>7. PICK f : Recursive(f, X, nothing, h, n)
    BY <1>4, <1>5, Recursion
  <1>8. f \in [0 .. n -> X] /\ f[0] = nothing /\ \A k \in 1 .. n : f[k] = h[<<k, f[k - 1]>>]
    BY <1>7 DEF Recursive
  <1>9. \A k \in 1 .. n : k - 1 \in 0 .. n /\ f[k] = OnlyNext(f[k - 1], c[k], set)
    <2>1. ASSUME NEW k \in 1 .. n
          PROVE  k - 1 \in 0 .. n
      OBVIOUS
    <2>2. ASSUME NEW k \in 1 .. n
          PROVE  f[k] = OnlyNext(f[k - 1], c[k], set)
      <3>1. f[k - 1] \in X /\ f[k] = h[<<k, f[k - 1]>>]
        BY <1>8, <2>1
      <3> QED
        BY <1>5, <3>1
    <2> QED
      BY <2>1, <2>2
  <1>10. f = Step(f)
    BY <1>8, <1>9 DEF Step
  <1>11. e = Step(e)
    BY <1>10 DEF e
  <1>12. e[0] = nothing /\ \A k \in 1 .. n : e[k] = OnlyNext(e[k - 1], c[k], set)
    BY <1>11 DEF Step
  <1>13. \A k \in 1 .. n : e[k - 1] \in X => e[k] \in X
    BY <1>3, <1>12
  <1>14. \A k \in 0 .. n : e[k] \in X
    BY <1>4, <1>12, <1>13, StaysIn
  <1> QED
    BY <1>6, <1>14 DEF X

LEMMA LinkIs ==
    ASSUME NEW m \in Tables, NEW list \in Seq(Slots), NEW u, u = Link(m, list)
    PROVE  u \in Tables /\ Same(m, u, {"mpuNext"})
  <1> DEFINE at(f) == {k \in 1 .. Len(list) - 1 : list[k] = f}
             g == [f \in Slots |-> IF at(f) = {} THEN m.mpuNext[f] ELSE list[LastOf(at(f)) + 1]]
  <1>1. ASSUME NEW f \in Slots, at(f) # {}
        PROVE  list[LastOf(at(f)) + 1] \in Slots
    <2>1. at(f) \in SUBSET Nat /\ at(f) \subseteq 1 .. Len(list) - 1 /\ Len(list) \in Nat
      OBVIOUS
    <2>2. \A k \in at(f) : k <= Len(list)
      BY <2>1
    <2> HIDE DEF at
    <2>3. LastOf(at(f)) \in at(f)
      BY <1>1, <2>1, <2>2, LastOfIs
    <2>4. LastOf(at(f)) + 1 \in 1 .. Len(list)
      BY <2>1, <2>3
    <2> QED
      BY <2>4
  <1>2. m.mpuNext \in [Slots -> Slots \cup {NULL}]
    BY DEF Tables
  <1>3. u = [m EXCEPT !.mpuNext = g]
    BY DEF Link
  <1> HIDE DEF at
  <1>4. g \in [Slots -> Slots \cup {NULL}]
    BY <1>1, <1>2
  <1> HIDE DEF g
  <1> QED
    BY <1>3, <1>4 DEF Tables, Same

LEMMA LinkLastIs ==
    ASSUME NEW m \in Tables, NEW list \in Seq(Slots), NEW u, u = LinkLast(m, list)
    PROVE  u \in Tables /\ Same(m, u, {"mpuNext"})
  <1>1. CASE list = <<>>
    BY <1>1 DEF LinkLast, Same
  <1>2. CASE list # <<>>
    <2>1. PICK v : v = Link(m, list)
      OBVIOUS
    <2>2. v \in Tables /\ Same(m, v, {"mpuNext"})
      BY <2>1, LinkIs
    <2>3. PICK f \in Slots : f = list[Len(list)]
      BY <1>2
    <2>4. PICK w : w = [v EXCEPT !.mpuNext[f] = NULL]
      OBVIOUS
    <2>5. u = w
      BY <1>2, <2>1, <2>3, <2>4 DEF LinkLast
    <2>6. w \in Tables /\ Same(v, w, {"mpuNext"})
      BY <2>2, <2>4 DEF Tables, Same
    <2>7. Same(m, w, {"mpuNext"})
      BY <2>2, <2>6 DEF Tables, Same
    <2> QED
      BY <2>5, <2>6, <2>7
  <1> QED
    BY <1>1, <1>2

LEMMA RemappedFirst ==
    ASSUME NEW m \in Tables, NEW v \in Tables, Same(m, v, {"mpuNext"}), NEW a \in Spaces, NEW f \in Slots \cup {NULL},
           NEW w, w = [v EXCEPT !.mpuFirst[a] = f]
    PROVE  Remapped(m, w)
  <1>1. w \in Tables /\ Same(v, w, {"mpuFirst"})
    BY DEF Tables, Same
  <1>2. Same(m, w, {"mpuFirst", "mpuNext", "fault"})
    BY <1>1 DEF Tables, Same
  <1>3. w.fault = m.fault
    BY <1>1 DEF Tables, Same
  <1> QED
    BY <1>1, <1>2, <1>3 DEF Remapped

LEMMA RemappedBoth ==
    ASSUME NEW m \in Tables, NEW u, NEW w, Remapped(m, u), Remapped(u, w)
    PROVE  Remapped(m, w)
  BY DEF Remapped, Same, Tables

LEMMA ListingIs ==
    ASSUME NEW m \in Tables, NEW a \in Spaces, NEW list \in Seq(Slots), list # <<>>, NEW ends \in BOOLEAN,
           NEW u, u = Listing(m, a, list, ends)
    PROVE  Remapped(m, u)
  <1>1. PICK v : v = IF ends THEN LinkLast(m, list) ELSE Link(m, list)
    OBVIOUS
  <1>2. v \in Tables /\ Same(m, v, {"mpuNext"})
    <2>1. CASE ends
      <3>1. v = LinkLast(m, list)
        BY <1>1, <2>1
      <3> QED
        BY <3>1, LinkLastIs
    <2>2. CASE ~ends
      <3>1. v = Link(m, list)
        BY <1>1, <2>2
      <3> QED
        BY <3>1, LinkIs
    <2> QED
      BY <2>1, <2>2
  <1>3. PICK f \in Slots \cup {NULL} : f = list[1]
    BY Ends
  <1>4. PICK w : w = [v EXCEPT !.mpuFirst[a] = f]
    OBVIOUS
  <1>5. u = w
    BY <1>1, <1>3, <1>4 DEF Listing
  <1> QED
    BY <1>2, <1>4, <1>5, RemappedFirst

LEMMA MakeListIs ==
    ASSUME NEW m \in Tables, NEW a \in Spaces, NEW pc, NEW u, u = MakeList(m, a, pc)
    PROVE  Remapped(m, u)
  <1>1. PICK c \in Seq(Slots) : c = m.chain[a]
    BY LiveIs
  <1> DEFINE at == {f \in ToSet(m.chain[a]) : Within(m, pc, f, FALSE)}
             always == {f \in ToSet(m.chain[a]) \ at : m.fp[f].always}
             others == Only(m.chain[a], ToSet(m.chain[a]) \ (at \cup always))
             list == Only(m.chain[a], at) \o Only(m.chain[a], always) \o others
  <1>2. u = IF m.mpuFirst[a] # NULL \/ list = <<>> THEN m ELSE Listing(m, a, list, others = <<>>)
    BY Zenon DEF MakeList
  <1> HIDE DEF at, always
  <1>3. Only(m.chain[a], at) \in Seq(Slots) /\ Only(m.chain[a], always) \in Seq(Slots) /\ others \in Seq(Slots)
    BY <1>1, OnlyIs
  <1> HIDE DEF others
  <1>4. list \in Seq(Slots)
    BY <1>3, ConcatProperties
  <1> HIDE DEF list
  <1>5. CASE m.mpuFirst[a] # NULL \/ list = <<>>
    BY <1>2, <1>5 DEF Remapped, Same
  <1>6. CASE ~(m.mpuFirst[a] # NULL \/ list = <<>>)
    <2>1. PICK ends \in BOOLEAN : ends = (others = <<>>)
      OBVIOUS
    <2>2. u = Listing(m, a, list, ends)
      BY <1>2, <1>6, <2>1
    <2> QED
      BY <1>4, <1>6, <2>2, ListingIs
  <1> QED
    BY <1>5, <1>6

StackStates == [found : Seq(Slots), start : Nat]

LEMMA StackIs ==
    ASSUME NEW m \in Tables, NEW c \in Seq(Slots), NEW start \in Nat, NEW end,
           NEW r, r = StackFpages(m, c, start, end)
    PROVE  r \in Seq(Slots)
  <1>1. PICK n \in Nat : n = Len(c)
    OBVIOUS
  <1>2. PICK nothing \in StackStates : nothing = [found |-> <<>>, start |-> start]
    <2>1. <<>> \in Seq(Slots)
      BY EmptySeq, Zenon
    <2> QED
      BY <2>1 DEF StackStates
  <1> DEFINE X == StackStates
             Step(f) == [k \in 0 .. n |-> IF k = 0 THEN nothing ELSE StackNext(m, f[k - 1], c[k], end)]
             e == CHOOSE f : f = Step(f)
             h == [p \in Nat \X X |-> IF p[1] \in 1 .. n THEN StackNext(m, p[2], c[p[1]], end) ELSE p[2]]
  <1>3. ASSUME NEW k \in 1 .. n, NEW s \in X
        PROVE  StackNext(m, s, c[k], end) \in X
    <2>1. PICK f \in Slots : f = c[k]
      BY <1>1
    <2>2. s.found \in Seq(Slots) /\ End(m, f) \in Nat
      BY BoundsAre DEF StackStates
    <2>3. Append(s.found, f) \in Seq(Slots)
      BY <2>2
    <2>4. [found |-> Append(s.found, f), start |-> End(m, f)] \in X
      BY <2>2, <2>3 DEF StackStates
    <2> QED
      BY <2>1, <2>4 DEF StackNext
  <1>4. nothing \in X
    OBVIOUS
  <1> HIDE DEF X
  <1>5. /\ h \in [Nat \X X -> X]
        /\ \A k \in 1 .. n, s \in X : h[<<k, s>>] = StackNext(m, s, c[k], end)
    <2>1. ASSUME NEW p \in Nat \X X
          PROVE  (IF p[1] \in 1 .. n THEN StackNext(m, p[2], c[p[1]], end) ELSE p[2]) \in X
      <3>1. p[2] \in X
        OBVIOUS
      <3> QED
        BY <1>3, <3>1
    <2>2. ASSUME NEW k \in 1 .. n, NEW s \in X
          PROVE  <<k, s>> \in Nat \X X /\ <<k, s>>[1] = k /\ <<k, s>>[2] = s
      OBVIOUS
    <2> QED
      BY <2>1, <2>2
  <1>6. r = e[n].found
    <2> DEFINE s0[k \in 0 .. Len(c)] == IF k = 0 THEN [found |-> <<>>, start |-> start] ELSE StackNext(m, s0[k - 1], c[k], end)
    <2>1. s0 = e
      BY <1>1, <1>2, Zenon
    <2> HIDE DEF e, Step
    <2>2. r = s0[Len(c)].found
      BY Zenon DEF StackFpages
    <2> HIDE DEF s0
    <2> QED
      BY <1>1, <2>1, <2>2
  <1> HIDE DEF h, Step, e
  <1>7. PICK f : Recursive(f, X, nothing, h, n)
    BY <1>4, <1>5, Recursion
  <1>8. f \in [0 .. n -> X] /\ f[0] = nothing /\ \A k \in 1 .. n : f[k] = h[<<k, f[k - 1]>>]
    BY <1>7 DEF Recursive
  <1>9. \A k \in 1 .. n : k - 1 \in 0 .. n /\ f[k] = StackNext(m, f[k - 1], c[k], end)
    <2>1. ASSUME NEW k \in 1 .. n
          PROVE  k - 1 \in 0 .. n
      OBVIOUS
    <2>2. ASSUME NEW k \in 1 .. n
          PROVE  f[k] = StackNext(m, f[k - 1], c[k], end)
      <3>1. f[k - 1] \in X /\ f[k] = h[<<k, f[k - 1]>>]
        BY <1>8, <2>1
      <3> QED
        BY <1>5, <3>1
    <2> QED
      BY <2>1, <2>2
  <1>10. f = Step(f)
    BY <1>8, <1>9 DEF Step
  <1>11. e = Step(e)
    BY <1>10 DEF e
  <1>12. e[0] = nothing /\ \A k \in 1 .. n : e[k] = StackNext(m, e[k - 1], c[k], end)
    BY <1>11 DEF Step
  <1>13. \A k \in 1 .. n : e[k - 1] \in X => e[k] \in X
    BY <1>3, <1>12
  <1>14. \A k \in 0 .. n : e[k] \in X
    BY <1>4, <1>12, <1>13, StaysIn
  <1> QED
    BY <1>6, <1>14 DEF X, StackStates


OthersStates == [at : Slots \cup {NULL}, found : Seq(Slots)]

LEMMA OthersIs ==
    ASSUME NEW m \in Tables, NEW a \in Spaces, NEW on \in Seq(Slots), NEW r, r = Others(m, a, on)
    PROVE  r \in OthersStates
  <1>1. PICK n \in Nat : n = MpuRegions * MaxFpages
    BY MemoryAssumption
  <1>2. PICK nothing \in OthersStates : nothing = [at |-> m.mpuFirst[a], found |-> <<>>]
    <2>1. <<>> \in Seq(Slots)
      BY EmptySeq, Zenon
    <2>2. m.mpuFirst[a] \in Slots \cup {NULL}
      BY DEF Tables
    <2> QED
      BY <2>1, <2>2 DEF OthersStates
  <1> DEFINE X == OthersStates
             Step(f) == [k \in 0 .. n |-> IF k = 0 THEN nothing ELSE OthersNext(m, f[k - 1], on)]
             e == CHOOSE f : f = Step(f)
             h == [p \in Nat \X X |-> IF p[1] \in 1 .. n THEN OthersNext(m, p[2], on) ELSE p[2]]
  <1>3. ASSUME NEW k \in 1 .. n, NEW s \in X
        PROVE  OthersNext(m, s, on) \in X
    <2>1. s.found \in Seq(Slots) /\ s.at \in Slots \cup {NULL}
      BY DEF OthersStates
    <2>2. CASE s.at = NULL \/ Len(on) + Len(s.found) = MpuRegions
      BY <2>2 DEF OthersNext
    <2>3. CASE ~(s.at = NULL \/ Len(on) + Len(s.found) = MpuRegions)
      <3>1. PICK f \in Slots : f = s.at
        BY <2>1, <2>3
      <3>2. m.mpuNext[f] \in Slots \cup {NULL}
        BY DEF Tables
      <3>3. (IF f \in ToSet(on) THEN s.found ELSE Append(s.found, f)) \in Seq(Slots)
        BY <2>1
      <3>4. [at |-> m.mpuNext[f], found |-> IF f \in ToSet(on) THEN s.found ELSE Append(s.found, f)] \in X
        BY <3>2, <3>3 DEF OthersStates
      <3> QED
        BY <2>3, <3>1, <3>4 DEF OthersNext
    <2> QED
      BY <2>2, <2>3
  <1>4. nothing \in X
    OBVIOUS
  <1> HIDE DEF X
  <1>5. /\ h \in [Nat \X X -> X]
        /\ \A k \in 1 .. n, s \in X : h[<<k, s>>] = OthersNext(m, s, on)
    <2>1. ASSUME NEW p \in Nat \X X
          PROVE  (IF p[1] \in 1 .. n THEN OthersNext(m, p[2], on) ELSE p[2]) \in X
      <3>1. p[2] \in X
        OBVIOUS
      <3> QED
        BY <1>3, <3>1
    <2>2. ASSUME NEW k \in 1 .. n, NEW s \in X
          PROVE  <<k, s>> \in Nat \X X /\ <<k, s>>[1] = k /\ <<k, s>>[2] = s
      OBVIOUS
    <2> QED
      BY <2>1, <2>2
  <1>6. r = e[n]
    <2> DEFINE s0[k \in 0 .. MpuRegions * MaxFpages] == IF k = 0 THEN [at |-> m.mpuFirst[a], found |-> <<>>] ELSE OthersNext(m, s0[k - 1], on)
    <2>1. s0 = e
      BY <1>1, <1>2, Zenon
    <2> HIDE DEF e, Step
    <2>2. r = s0[MpuRegions * MaxFpages]
      BY Zenon DEF Others
    <2> HIDE DEF s0
    <2> QED
      BY <1>1, <2>1, <2>2
  <1> HIDE DEF h, Step, e
  <1>7. PICK f : Recursive(f, X, nothing, h, n)
    BY <1>4, <1>5, Recursion
  <1>8. f \in [0 .. n -> X] /\ f[0] = nothing /\ \A k \in 1 .. n : f[k] = h[<<k, f[k - 1]>>]
    BY <1>7 DEF Recursive
  <1>9. \A k \in 1 .. n : k - 1 \in 0 .. n /\ f[k] = OthersNext(m, f[k - 1], on)
    <2>1. ASSUME NEW k \in 1 .. n
          PROVE  k - 1 \in 0 .. n
      OBVIOUS
    <2>2. ASSUME NEW k \in 1 .. n
          PROVE  f[k] = OthersNext(m, f[k - 1], on)
      <3>1. f[k - 1] \in X /\ f[k] = h[<<k, f[k - 1]>>]
        BY <1>8, <2>1
      <3> QED
        BY <1>5, <3>1
    <2> QED
      BY <2>1, <2>2
  <1>10. f = Step(f)
    BY <1>8, <1>9 DEF Step
  <1>11. e = Step(e)
    BY <1>10 DEF e
  <1>12. e[0] = nothing /\ \A k \in 1 .. n : e[k] = OthersNext(m, e[k - 1], on)
    BY <1>11 DEF Step
  <1>13. \A k \in 1 .. n : e[k - 1] \in X => e[k] \in X
    BY <1>3, <1>12
  <1>14. \A k \in 0 .. n : e[k] \in X
    BY <1>4, <1>12, <1>13, StaysIn
  <1> QED
    BY <1>6, <1>14 DEF X


LEMMA RelinkedIs ==
    ASSUME NEW m \in Tables, NEW a \in Spaces, NEW on \in Seq(Slots), NEW found \in Seq(Slots),
           NEW u, u = Relinked(m, a, on, found)
    PROVE  Remapped(m, u)
  <1>1. PICK v : v = LinkLast(m, on)
    OBVIOUS
  <1>2. v \in Tables /\ Same(m, v, {"mpuNext"})
    BY <1>1, LinkLastIs
  <1>3. PICK w : w = Link(v, found)
    OBVIOUS
  <1>4. w \in Tables /\ Same(v, w, {"mpuNext"})
    BY <1>2, <1>3, LinkIs
  <1>5. Same(m, w, {"mpuNext"})
    BY <1>2, <1>4 DEF Tables, Same
  <1>6. PICK f \in Slots \cup {NULL} : f = IF found = <<>> THEN NULL ELSE found[1]
    BY Ends
  <1>7. PICK y : y = [w EXCEPT !.mpuFirst[a] = f]
    OBVIOUS
  <1>8. u = y
    BY <1>1, <1>3, <1>6, <1>7 DEF Relinked
  <1> QED
    BY <1>4, <1>5, <1>7, <1>8, RemappedFirst

LEMMA SetupMpuIs ==
    ASSUME NEW m \in Tables, NEW a \in Spaces, NEW pc, NEW stack \in Nat \X Nat, NEW r, r = SetupMpu(m, a, pc, stack)
    PROVE  Remapped(m, r.mem)
  <1>1. PICK u : u = MakeList(m, a, pc)
    OBVIOUS
  <1>2. Remapped(m, u) /\ u \in Tables
    BY <1>1, MakeListIs DEF Remapped
  <1>3. PICK on : on = StackFpages(m, m.chain[a], stack[1], stack[1] + stack[2])
    OBVIOUS
  <1>4. on \in Seq(Slots)
    <2>1. m.chain[a] \in Seq(Slots) /\ stack[1] \in Nat
      BY LiveIs
    <2> QED
      BY <1>3, <2>1, StackIs
  <1>5. PICK s : s = Others(u, a, on)
    OBVIOUS
  <1>6. s \in OthersStates
    BY <1>2, <1>4, <1>5, OthersIs
  <1>7. PICK v : v = Relinked(u, a, on, s.found)
    OBVIOUS
  <1>8. Remapped(u, v)
    BY <1>2, <1>4, <1>6, <1>7, RelinkedIs DEF OthersStates
  <1>9. ASSUME NEW what \in Wrong, r.mem = Faulty(u, what)
        PROVE  Remapped(m, r.mem)
    <2>1. PICK w : w = Faulty(u, what)
      OBVIOUS
    <2>2. w \in Tables /\ w.fault \in {u.fault} \cup Wrong /\ Same(u, w, {"fault"})
      BY <1>2, <2>1, WrongIs
    <2>3. Remapped(u, w)
      BY <2>2 DEF Remapped, Same
    <2> QED
      BY <1>2, <1>9, <2>1, <2>3, RemappedBoth
  <1>10. r.mem = IF Len(on) = MpuRegions THEN Faulty(u, "uninitialised")
                 ELSE IF s.at # NULL /\ Len(on) + Len(s.found) # MpuRegions THEN Faulty(u, "circular") ELSE v
    BY <1>1, <1>3, <1>5, <1>7 DEF SetupMpu, Result
  <1>11. "uninitialised" \in Wrong /\ "circular" \in Wrong
    BY DEF Wrong
  <1>12. r.mem \in {Faulty(u, "uninitialised"), Faulty(u, "circular"), v}
    BY <1>10
  <1>13. Remapped(m, v)
    BY <1>2, <1>8, RemappedBoth
  <1> QED
    BY <1>9, <1>11, <1>12, <1>13

-----------------------------------------------------------------------------
(* Booting *)

\* The fpages of the KIP lie where the table of the KIP says.
Printed(n, s) == \A k \in 1 .. n : Base(s, k) = Kip[k][1] /\ End(s, k) = Kip[k][1] + Kip[k][2]

\* n fpages of the KIP are there, and nothing else.
KipGood(n, s) ==
    /\ s \in Tables /\ s.fault # "endless" /\ s.live = {}
    /\ s.fault = "none" => Sound(s, {}, 1 .. n) /\ Printed(n, s)

LEMMA EmptyGood == KipGood(0, Empty)
  <1>1. PICK empty \in Seq(Slots) : empty = <<>>
    BY EmptySeq, Zenon
  <1>2. PICK fpage \in Fpages : fpage = [base |-> 0, size |-> 1, always |-> FALSE, clone |-> FALSE]
    BY DEF Fpages
  <1>3. PICK s : s = Empty
    OBVIOUS
  <1>4. "none" \in Faults
    BY DEF Faults
  <1>5. /\ s.fp = [f \in Slots |-> fpage] /\ s.used = {} /\ s.chain = [a \in Spaces |-> empty]
        /\ s.mapNext = [f \in Slots |-> f] /\ s.mpuNext = [f \in Slots |-> NULL]
        /\ s.mpuFirst = [a \in Spaces |-> NULL] /\ s.shared = [a \in Spaces |-> 0]
        /\ s.live = {} /\ s.fault = "none"
    BY <1>1, <1>2, <1>3 DEF Empty
  <1>6. s \in Tables
    <2>1. PICK fp \in [Slots -> Fpages], chain \in [Spaces -> Seq(Slots)], mapNext \in [Slots -> Slots],
               mpuNext \in [Slots -> Slots \cup {NULL}], mpuFirst \in [Spaces -> Slots \cup {NULL}],
               shared \in [Spaces -> Nat] :
              /\ fp = [f \in Slots |-> fpage] /\ chain = [a \in Spaces |-> empty] /\ mapNext = [f \in Slots |-> f]
              /\ mpuNext = [f \in Slots |-> NULL] /\ mpuFirst = [a \in Spaces |-> NULL]
              /\ shared = [a \in Spaces |-> 0]
      OBVIOUS
    <2>2. s = [fp |-> fp, used |-> {}, chain |-> chain, mapNext |-> mapNext, mpuNext |-> mpuNext,
               mpuFirst |-> mpuFirst, shared |-> shared, live |-> {}, fault |-> "none"]
      BY <1>1, <1>2, <1>3, <2>1 DEF Empty
    <2> QED
      BY <1>4, <2>2 DEF Tables
  <1>7. Sound(s, {}, 1 .. 0)
    <2>1. Placed(s, {}, 1 .. 0) /\ Homed(s, {}) /\ Shapely(s)
      BY <1>5 DEF Placed, Homed, Shapely
    <2>2. Ringed(s)
      <3>1. PICK org \in [Slots -> Slots], rk \in [Slots -> Nat] :
                org = [f \in Slots |-> f] /\ rk = [f \in Slots |-> 0]
        OBVIOUS
      <3>2. RingBy(s, org, rk)
        BY <1>5 DEF RingBy
      <3> QED
        BY <3>2 DEF Ringed
    <2> QED
      BY <2>1, <2>2 DEF Sound
  <1>8. Printed(0, s)
    BY DEF Printed
  <1> QED
    BY <1>3, <1>5, <1>6, <1>7, <1>8 DEF KipGood

\* An area of the KIP is one fpage.
Lone(u, v, b, n) == Len(v) = 1 /\ Base(u, v[1]) = b /\ End(u, v[1]) = b + n
LEMMA OneTile ==
    ASSUME NEW m \in Tables, NEW u \in Tables, NEW v \in Seq(Slots), NEW b \in Nat, NEW n \in 1 .. Top, Tile(b, n) = n,
           Chained(m, u, v, b, n)
    PROVE  Lone(u, v, b, n)
  <1>1. n \in Nat \ {0} /\ n <= Top
    BY MemoryAssumption
  <1>2. n \in PowersOf2 /\ b % n = 0
    BY <1>1, TileIs DEF Fitting
  <1>3. n % n = 0
    BY <1>1
  <1>4. \A i \in 1 .. Len(v) : /\ u.fp[v[i]].size % n = 0
                               /\ Base(u, v[i]) >= b /\ End(u, v[i]) <= b + n /\ Base(u, v[i]) < End(u, v[i])
    BY <1>1, <1>2, <1>3 DEF Chained, Shaped, Tiled
  <1>5. ASSUME NEW i \in 1 .. Len(v)
        PROVE  Base(u, v[i]) = b /\ End(u, v[i]) = b + n
    <2>1. PICK f \in Slots : f = v[i]
      OBVIOUS
    <2>2. PICK x \in Nat, y \in Nat : x = u.fp[f].base /\ y = u.fp[f].size
      BY <2>1, BoundsAre DEF Fpages
    <2>3. y % n = 0 /\ x >= b /\ x + y <= b + n /\ x < x + y
      BY <1>4, <2>1, <2>2 DEF Base, End
    <2>4. y >= n
      <3>1. PICK q \in Nat : y = q * n
        BY <1>1, <2>3, Multiples
      <3>2. q # 0
        BY <1>1, <2>3, <3>1
      <3>3. q * n >= n
        BY <1>1, <3>2
      <3> QED
        BY <3>1, <3>3
    <2> QED
      BY <1>1, <2>1, <2>2, <2>3, <2>4 DEF Base, End
  <1>6. ASSUME NEW i \in 1 .. Len(v), NEW j \in 1 .. Len(v), i < j
        PROVE  FALSE
    <2>1. End(u, v[i]) <= Base(u, v[j])
      BY <1>6 DEF Chained, Tiled
    <2>2. b + n <= b
      BY <1>5, <2>1
    <2> QED
      BY <1>1, <2>2
  <1>7. Len(v) > 0 /\ Len(v) \in Nat
    BY <1>1 DEF Chained
  <1>8. PICK l \in Nat : l = Len(v) /\ l > 0
    BY <1>7
  <1>9. ASSUME l >= 2
        PROVE  FALSE
    <2>1. 1 \in 1 .. Len(v) /\ 2 \in 1 .. Len(v) /\ 1 < 2
      BY <1>8, <1>9
    <2> QED
      BY <1>6, <2>1
  <1>10. l = 1 /\ 1 \in 1 .. Len(v)
    BY <1>8, <1>9
  <1> QED
    BY <1>5, <1>8, <1>10 DEF Lone

LEMMA KipIs ==
    ASSUME NEW n \in 1 .. Len(Kip)
    PROVE  /\ n \in Nat \ {0} /\ Kip[n][1] \in Nat /\ Kip[n][2] \in 1 .. Top
           /\ Tile(Kip[n][1], Kip[n][2]) = Kip[n][2] /\ Kip[n][2] \in Int
  <1>1. Kip \in Seq(Nat \X Nat) /\ Top \in Nat
    BY MemoryAssumption, Zenon
  <1>2. Kip[n] \in Nat \X Nat /\ n \in DOMAIN Kip /\ n \in Nat \ {0}
    BY <1>1
  <1>3. Kip[n][2] \in 1 .. Top /\ Tile(Kip[n][1], Kip[n][2]) = Kip[n][2]
    BY <1>2, BootAssumption, Zenon
  <1> QED
    BY <1>1, <1>2, <1>3

LEMMA KipNextGood ==
    ASSUME NEW n \in 1 .. Len(Kip), NEW s, KipGood(n - 1, s),
           NEW u, u = CreateChain(s, Kip[n][1], Kip[n][2], FALSE).mem
    PROVE  KipGood(n, u)
  <1>1. PICK b \in Nat, size \in 1 .. Top : b = Kip[n][1] /\ size = Kip[n][2] /\ Tile(b, size) = size
    BY KipIs
  <1>2. s \in Tables /\ size \in Int /\ size <= Top /\ n \in Nat \ {0}
    BY KipIs, MemoryAssumption DEF KipGood
  <1>3. PICK r : r = CreateChain(s, b, size, FALSE)
    OBVIOUS
  <1>4. /\ r.mem \in Tables /\ r.val \in Seq(Slots) /\ r.mem.fault \in {s.fault, "full"}
        /\ r.mem.live = s.live
        /\ r.mem.fault = "none" => Chained(s, r.mem, r.val, b, size)
    <2>1. FALSE \in BOOLEAN
      OBVIOUS
    <2>2. /\ r.mem \in Tables /\ r.val \in Seq(Slots) /\ r.mem.fault \in {s.fault, "full"}
          /\ r.mem.fault = "none" => Chained(s, r.mem, r.val, b, size)
      BY <1>2, <1>3, <2>1, CreateChainIs
    <2>3. SameLive(s, r.mem)
      BY <1>2, <1>3, <2>1, CreateChainIs
    <2> QED
      BY <2>2, <2>3 DEF SameLive
  <1>5. u = r.mem
    BY <1>1, <1>3
  <1>6. PICK v \in Seq(Slots) : v = r.val
    BY <1>4
  <1>7. u \in Tables /\ u.fault # "endless" /\ u.live = {}
    BY <1>4, <1>5 DEF KipGood
  <1>8. ASSUME u.fault = "none"
        PROVE  Sound(u, {}, 1 .. n) /\ Printed(n, u)
    <2>1. Chained(s, u, v, b, size) /\ s.fault = "none"
      BY <1>4, <1>5, <1>6, <1>8 DEF Chained
    <2>2. Sound(s, {}, 1 .. n - 1)
      BY <2>1 DEF KipGood
    <2>3. {} \in SUBSET Spaces
      OBVIOUS
    <2>4. Ready(s, u, {}, 1 .. n - 1, v, size)
      BY <1>2, <1>7, <2>1, <2>2, <2>3, ChainedSound
    <2>5. Len(v) = 1 /\ Base(u, v[1]) = b /\ End(u, v[1]) = b + size
      <3>1. Lone(u, v, b, size)
        BY <1>1, <1>2, <1>7, <2>1, OneTile
      <3> QED
        BY <3>1 DEF Lone
    <2>6. PICK f \in Slots : f = v[1] /\ ToSet(v) = {f}
      <3>1. ToSet(v) = {v[i] : i \in 1 .. Len(v)}
        BY ToSetIs
      <3>2. 1 .. Len(v) = {1}
        <4>1. 1 .. 1 = {1}
          OBVIOUS
        <4> QED
          BY <2>5, <4>1
      <3>3. v[1] \in Slots
        <4>1. 1 \in 1 .. Len(v)
          BY <3>2
        <4> QED
          BY <4>1, ElementOfSeq
      <3> QED
        BY <3>1, <3>2, <3>3
    <2>7. s.used = 1 .. n - 1
      BY <2>2 DEF Sound, Placed
    <2>8. f = n
      <3>1. f \notin s.used /\ u.used = s.used \cup {f} /\ \A g \in Slots : g < f => g \in u.used
        BY <2>1, <2>6 DEF Chained, Fresh
      <3>2. f \in Nat /\ f >= 1
        BY SlotsAre DEF Slots
      <3>3. f >= n
        BY <1>2, <2>7, <3>1, <3>2
      <3>4. ASSUME f > n
            PROVE  FALSE
        <4>1. n \in Slots
          BY <1>2, <3>4, SlotsAre DEF Slots
        <4>2. n \in u.used
          BY <3>1, <3>4, <4>1
        <4>3. n \in 1 .. n - 1 \/ n = f
          BY <2>7, <3>1, <4>2
        <4> QED
          BY <1>2, <3>2, <3>4, <4>3
      <3> QED
        BY <1>2, <3>2, <3>3, <3>4
    <2>9. (1 .. n - 1) \cup ToSet(v) = 1 .. n
      BY <1>2, <2>6, <2>8
    <2>10. Printed(n - 1, s)
      BY <2>1 DEF KipGood
    <2>11. ASSUME NEW k \in 1 .. n
           PROVE  Base(u, k) = Kip[k][1] /\ End(u, k) = Kip[k][1] + Kip[k][2]
      <3>1. CASE k = n
        BY <1>1, <2>5, <2>6, <2>8, <3>1
      <3>2. CASE k # n
        <4>1. k \in 1 .. n - 1
          BY <1>2, <3>2
        <4>2. u.fp[k] = s.fp[k]
          BY <2>1, <2>7, <4>1 DEF Chained, Fresh
        <4> QED
          BY <2>10, <4>1, <4>2 DEF Printed, Base, End
      <3> QED
        BY <3>1, <3>2
    <2> QED
      BY <2>4, <2>9, <2>11 DEF Ready, Printed
  <1> QED
    BY <1>7, <1>8 DEF KipGood

LEMMA KipFpagesGood ==
    ASSUME NEW u, u = KipFpages(Empty)
    PROVE  KipGood(Len(Kip), u)
  <1>1. PICK n \in Nat : n = Len(Kip)
    <2>1. Kip \in Seq(Nat \X Nat)
      BY MemoryAssumption, Zenon
    <2> QED
      BY <2>1
  <1> DEFINE X == Tables
             Turn(k, s) == CreateChain(s, Kip[k][1], Kip[k][2], FALSE).mem
             Step(f) == [k \in 0 .. n |-> IF k = 0 THEN Empty ELSE Turn(k, f[k - 1])]
             e == CHOOSE f : f = Step(f)
             h == [p \in Nat \X X |-> IF p[1] \in 1 .. n THEN Turn(p[1], p[2]) ELSE p[2]]
  <1>2. ASSUME NEW k \in 1 .. n, NEW s \in X
        PROVE  Turn(k, s) \in X
    <2>1. Kip[k][1] \in Nat /\ Kip[k][2] \in Int /\ FALSE \in BOOLEAN
      BY <1>1, KipIs
    <2>2. PICK r : r = CreateChain(s, Kip[k][1], Kip[k][2], FALSE)
      OBVIOUS
    <2>3. r.mem \in Tables
      BY <2>1, <2>2, CreateChainIs
    <2> QED
      BY <2>2, <2>3
  <1>3. Empty \in X
    BY EmptyGood DEF KipGood
  <1>4. u = e[n]
    <2> DEFINE s0[k \in 0 .. Len(Kip)] ==
                  IF k = 0 THEN Empty ELSE CreateChain(s0[k - 1], Kip[k][1], Kip[k][2], FALSE).mem
    <2>1. s0 = e
      BY <1>1, Zenon
    <2> HIDE DEF e, Step
    <2>2. u = s0[Len(Kip)]
      BY Zenon DEF KipFpages
    <2> HIDE DEF s0
    <2> QED
      BY <1>1, <2>1, <2>2
  <1>5. \A k, s : Turn(k, s) = CreateChain(s, Kip[k][1], Kip[k][2], FALSE).mem
    OBVIOUS
  <1> HIDE DEF X, Turn
  <1>6. /\ h \in [Nat \X X -> X]
        /\ \A k \in 1 .. n, s \in X : h[<<k, s>>] = Turn(k, s)
    <2>1. ASSUME NEW p \in Nat \X X
          PROVE  (IF p[1] \in 1 .. n THEN Turn(p[1], p[2]) ELSE p[2]) \in X
      <3>1. p[2] \in X
        OBVIOUS
      <3> QED
        BY <1>2, <3>1
    <2>2. ASSUME NEW k \in 1 .. n, NEW s \in X
          PROVE  <<k, s>> \in Nat \X X /\ <<k, s>>[1] = k /\ <<k, s>>[2] = s
      OBVIOUS
    <2> QED
      BY <2>1, <2>2
  <1> HIDE DEF h, Step, e
  <1>7. PICK f : Recursive(f, X, Empty, h, n)
    BY <1>3, <1>6, Recursion
  <1>8. f \in [0 .. n -> X] /\ f[0] = Empty /\ \A k \in 1 .. n : f[k] = h[<<k, f[k - 1]>>]
    BY <1>7 DEF Recursive
  <1>9. \A k \in 1 .. n : f[k] = Turn(k, f[k - 1])
    <2>1. ASSUME NEW k \in 1 .. n
          PROVE  k - 1 \in 0 .. n
      OBVIOUS
    <2>2. ASSUME NEW k \in 1 .. n
          PROVE  f[k] = Turn(k, f[k - 1])
      <3>1. f[k - 1] \in X /\ f[k] = h[<<k, f[k - 1]>>]
        BY <1>8, <2>1
      <3> QED
        BY <1>6, <3>1
    <2> QED
      BY <2>2
  <1>10. f = Step(f)
    BY <1>8, <1>9 DEF Step
  <1>11. e = Step(e)
    BY <1>10 DEF e
  <1>12. e[0] = Empty /\ \A k \in 1 .. n : e[k] = Turn(k, e[k - 1])
    BY <1>11 DEF Step
  <1> DEFINE G == {p \in Nat \X X : KipGood(p[1], p[2])}
  <1>13. \A k \in Nat : \A s : <<k, s>> \in G <=> KipGood(k, s)
    BY DEF KipGood, X
  <1> HIDE DEF G
  <1>14. ASSUME NEW k \in 1 .. n, <<k - 1, e[k - 1]>> \in G
         PROVE  <<k, e[k]>> \in G
    <2>1. k \in Nat /\ k - 1 \in Nat /\ k \in 1 .. Len(Kip)
      BY <1>1
    <2>2. PICK s : s = e[k - 1]
      OBVIOUS
    <2>3. KipGood(k - 1, s)
      BY <1>13, <1>14, <2>1, <2>2
    <2>4. PICK w : w = CreateChain(s, Kip[k][1], Kip[k][2], FALSE).mem
      OBVIOUS
    <2>5. KipGood(k, w)
      BY <2>1, <2>3, <2>4, KipNextGood
    <2>6. w = e[k]
      BY <1>5, <1>12, <2>2, <2>4
    <2> QED
      BY <1>13, <2>1, <2>5, <2>6
  <1>15. <<0, e[0]>> \in G
    BY <1>12, <1>13, EmptyGood
  <1>16. \A k \in 0 .. n : <<k, e[k]>> \in G
    BY <1>14, <1>15, StaysGood
  <1>17. n \in 0 .. n
    OBVIOUS
  <1> QED
    BY <1>1, <1>4, <1>13, <1>16, <1>17

LEMMA MultipleSum ==
    ASSUME NEW a \in Nat, NEW z \in Nat, Multiple(a), Multiple(z)
    PROVE  Multiple(a + z)
  <1>1. Smallest \in Nat \ {0}
    BY MemoryAssumption
  <1>2. PICK s \in Nat \ {0} : s = Smallest
    BY <1>1
  <1>3. a % s = 0 /\ z % s = 0
    BY <1>2 DEF Multiple
  <1>4. PICK p \in Nat, q \in Nat : a = p * s /\ z = q * s
    BY <1>3, Multiples
  <1>5. PICK d \in Nat : d = p + q
    OBVIOUS
  <1>6. d * s = a + z
    BY <1>4, <1>5
  <1>7. (d * s) % s = 0
    BY Multiples
  <1> QED
    BY <1>2, <1>6, <1>7 DEF Multiple

\* The KIP is in order, where its table is.
LEMMA KipTidy ==
    ASSUME NEW k, KipGood(Len(Kip), k), k.fault = "none", Regular
    PROVE  Tidy(k)
  <1>1. PICK n \in Nat : n = Len(Kip) /\ Kips = 1 .. n
    <2>1. Kip \in Seq(Nat \X Nat)
      BY MemoryAssumption, Zenon
    <2> QED
      BY <2>1 DEF Kips
  <1>2. k \in Tables /\ k.live = {} /\ Placed(k, {}, Kips) /\ Printed(n, k)
    BY <1>1 DEF KipGood, Sound
  <1>3. k.used = Kips
    BY <1>2 DEF Placed
  <1>4. ASSUME NEW f \in Kips
        PROVE  /\ Base(k, f) = Kip[f][1] /\ End(k, f) = Kip[f][1] + Kip[f][2]
               /\ Kip[f][1] \in Nat /\ Kip[f][2] \in Nat
    <2>1. f \in 1 .. n
      BY <1>1
    <2>2. Kip[f][1] \in Nat /\ Kip[f][2] \in Nat
      BY <1>1, <2>1, KipIs
    <2> QED
      BY <1>2, <2>1, <2>2 DEF Printed
  <1>5. ASSUME NEW f \in Kips
        PROVE  OnGrid(k, f)
    <2>1. PICK b \in Nat, s \in Nat : b = Kip[f][1] /\ s = Kip[f][2]
      BY <1>4
    <2>2. Multiple(b) /\ Multiple(s) /\ b + s <= Top
      BY <2>1 DEF Regular
    <2>3. Multiple(b + s)
      BY <2>2, MultipleSum
    <2> QED
      BY <1>4, <2>1, <2>2, <2>3 DEF OnGrid
  <1>6. ASSUME NEW f \in Kips, NEW g \in Kips, f # g
        PROVE  Beside(k, f, g)
    <2>1. f \in 1 .. n /\ g \in 1 .. n
      BY <1>1
    <2>2. f < g \/ g < f
      BY <1>6, <2>1
    <2>3. Kip[f][1] + Kip[f][2] <= Kip[g][1] \/ Kip[g][1] + Kip[g][2] <= Kip[f][1]
      BY <2>2 DEF Regular
    <2>4. Apart(k, f, g)
      BY <1>4, <2>3 DEF Apart
    <2> QED
      BY <2>4 DEF Beside
  <1> QED
    BY <1>2, <1>3, <1>5, <1>6 DEF Tidy, Gridded, Sundered, Sorted

LEMMA PooledGood ==
    ASSUME NEW s \in Tables, NEW x, Good(s, x), s.fault = "none" => RootSpace \in s.live, RootSpace \in Spaces,
           NEW n \in 1 .. Len(Pools), NEW u, u = Pooled(s, RootSpace, Pools[n])
    PROVE  After(s, u, x)
  <1>1. PICK start \in Nat, size \in Int : start = Pools[n].start /\ size = Pools[n].end - Pools[n].start
    <2>1. Pools \in Seq([start : 0 .. Top, end : 0 .. Top, user : BOOLEAN, always : BOOLEAN, fpages : BOOLEAN]) /\ Top \in Nat
      BY MemoryAssumption
    <2>2. Pools[n] \in [start : 0 .. Top, end : 0 .. Top, user : BOOLEAN, always : BOOLEAN, fpages : BOOLEAN]
      BY <2>1, ElementOfSeq, Zenon
    <2>3. Pools[n].start \in 0 .. Top /\ Pools[n].end \in 0 .. Top
      BY <2>2
    <2> QED
      BY <2>1, <2>3
  <1>2. PICK r : r = AssignFpages(s, RootSpace, start, size)
    OBVIOUS
  <1>3. Assigned(s, r, x, RootSpace)
    <2>1. n \in DOMAIN Pools
      BY MemoryAssumption
    <2>2. Regular => Multiple(start)
      BY <1>1, <2>1 DEF Regular
    <2> QED
      BY <1>2, <2>2, AssignFpagesGood
  <1>4. u = IF Pools[n].user THEN r.mem ELSE s
    BY <1>1, <1>2 DEF Pooled
  <1>5. u \in {s, r.mem}
    BY <1>4
  <1> QED
    BY <1>3, <1>5 DEF Assigned, Good

LEMMA MapUserGood ==
    ASSUME NEW m \in Tables, NEW x, Good(m, x), m.fault = "none" => RootSpace \in m.live, RootSpace \in Spaces,
           NEW u, u = MapUser(m, RootSpace)
    PROVE  After(m, u, x)
  <1>1. PICK n \in Nat : n = Len(Pools)
    <2>1. Pools \in Seq([start : 0 .. Top, end : 0 .. Top, user : BOOLEAN, always : BOOLEAN, fpages : BOOLEAN])
      BY MemoryAssumption, Zenon
    <2> QED
      BY <2>1
  <1> DEFINE X == {s \in Tables : After(m, s, x)}
             Step(f) == [k \in 0 .. n |-> IF k = 0 THEN m ELSE Pooled(f[k - 1], RootSpace, Pools[k])]
             e == CHOOSE f : f = Step(f)
             h == [p \in Nat \X X |-> IF p[1] \in 1 .. n THEN Pooled(p[2], RootSpace, Pools[p[1]]) ELSE p[2]]
  <1>2. ASSUME NEW k \in 1 .. n, NEW s \in X
        PROVE  Pooled(s, RootSpace, Pools[k]) \in X
    <2>1. PICK w : w = Pooled(s, RootSpace, Pools[k])
      OBVIOUS
    <2>2. s \in Tables /\ After(m, s, x)
      OBVIOUS
    <2> HIDE DEF X
    <2>3. Good(s, x) /\ (s.fault = "none" => RootSpace \in s.live)
      BY <2>2, AfterGood DEF After
    <2>4. k \in 1 .. Len(Pools)
      BY <1>1
    <2>5. After(s, w, x)
      BY <2>1, <2>2, <2>3, <2>4, PooledGood
    <2>6. After(m, w, x)
      BY <2>2, <2>5, AfterBoth
    <2>7. w \in Tables
      BY <2>6 DEF After
    <2> QED
      BY <2>1, <2>6, <2>7 DEF X
  <1>3. m \in X
    BY DEF Good
  <1>4. u = e[n]
    <2> DEFINE s0[k \in 0 .. Len(Pools)] == IF k = 0 THEN m ELSE Pooled(s0[k - 1], RootSpace, Pools[k])
    <2>1. s0 = e
      BY <1>1, Zenon
    <2> HIDE DEF e, Step
    <2>2. u = s0[Len(Pools)]
      BY Zenon DEF MapUser
    <2> HIDE DEF s0
    <2> QED
      BY <1>1, <2>1, <2>2
  <1> HIDE DEF X
  <1>5. /\ h \in [Nat \X X -> X]
        /\ \A k \in 1 .. n, s \in X : h[<<k, s>>] = Pooled(s, RootSpace, Pools[k])
    <2>1. ASSUME NEW p \in Nat \X X
          PROVE  (IF p[1] \in 1 .. n THEN Pooled(p[2], RootSpace, Pools[p[1]]) ELSE p[2]) \in X
      <3>1. p[2] \in X
        OBVIOUS
      <3> QED
        BY <1>2, <3>1
    <2>2. ASSUME NEW k \in 1 .. n, NEW s \in X
          PROVE  <<k, s>> \in Nat \X X /\ <<k, s>>[1] = k /\ <<k, s>>[2] = s
      OBVIOUS
    <2> QED
      BY <2>1, <2>2
  <1> HIDE DEF h, Step, e
  <1>6. PICK f : Recursive(f, X, m, h, n)
    BY <1>3, <1>5, Recursion
  <1>7. f \in [0 .. n -> X] /\ f[0] = m /\ \A k \in 1 .. n : f[k] = h[<<k, f[k - 1]>>]
    BY <1>6 DEF Recursive
  <1>8. \A k \in 1 .. n : f[k] = Pooled(f[k - 1], RootSpace, Pools[k])
    <2>1. ASSUME NEW k \in 1 .. n
          PROVE  f[k] = Pooled(f[k - 1], RootSpace, Pools[k])
      <3>1. k - 1 \in 0 .. n
        OBVIOUS
      <3>2. f[k - 1] \in X /\ f[k] = h[<<k, f[k - 1]>>]
        BY <1>7, <3>1
      <3> QED
        BY <1>5, <3>2
    <2> QED
      BY <2>1
  <1>9. f = Step(f)
    BY <1>7, <1>8 DEF Step
  <1>10. e = Step(e)
    BY <1>9 DEF e
  <1>11. e[0] = m /\ \A k \in 1 .. n : e[k] = Pooled(e[k - 1], RootSpace, Pools[k])
    BY <1>10 DEF Step
  <1>12. \A k \in 1 .. n : e[k - 1] \in X => e[k] \in X
    BY <1>2, <1>11
  <1>13. \A k \in 0 .. n : e[k] \in X
    BY <1>3, <1>11, <1>12, StaysIn
  <1>14. n \in 0 .. n
    OBVIOUS
  <1> QED
    BY <1>4, <1>13, <1>14 DEF X

LEMMA UtcbIs ==
    ASSUME NEW t \in Threads
    PROVE  /\ Utcb[t] \in Nat \X Nat /\ Utcb[t][1] \in Nat /\ Utcb[t][2] \in Nat
           /\ Stack[t] \in Nat \X Nat
  <1>1. Utcb \in [Threads -> Nat \X Nat] /\ Stack \in [Threads -> Nat \X Nat]
    BY MemoryAssumption, Zenon
  <1>2. Utcb[t] \in Nat \X Nat /\ Stack[t] \in Nat \X Nat
    BY <1>1, Zenon
  <1> QED
    BY <1>2

\* The KIP is mapped to a new space.
LEMMA KipsMapped ==
    ASSUME NEW m \in Tables, Good(m, Kips), NEW dst, m.fault = "none" => dst \in m.live,
           NEW u, u = MapList(m, dst, [n \in Kips |-> n])
    PROVE  MapDone(m, u, Kips) /\ Given(u, dst, Kips)
  <1>1. PICK n \in Nat : n = Len(Kip)
    <2>1. Kip \in Seq(Nat \X Nat)
      BY MemoryAssumption, Zenon
    <2> QED
      BY <2>1
  <1>2. PICK list : list = [k \in Kips |-> k]
    OBVIOUS
  <1>3. DOMAIN list = 1 .. n /\ \A k \in 1 .. n : list[k] = k
    BY <1>1, <1>2 DEF Kips
  <1>4. n = Len(list)
    <2>1. list \in Seq(Nat)
      BY <1>1, <1>2 DEF Kips
    <2> QED
      BY <1>3, <2>1
  <1>5. ASSUME m.fault = "none"
        PROVE  \A k \in 1 .. n : list[k] \in m.used
    <2>1. Kips \subseteq m.used
      BY <1>5 DEF Good, After, Sound, Placed
    <2> QED
      BY <1>1, <1>3, <2>1 DEF Kips
  <1>6. MapDone(m, u, Kips) /\ Given(u, dst, {list[k] : k \in 1 .. n})
    <2>1. u = MapList(m, dst, list)
      BY <1>2
    <2>2. m.fault = "none" => dst \in m.live /\ \A k \in 1 .. n : list[k] \in m.used
      BY <1>5
    <2> QED
      <3>1. AllMapped(m, u, Kips, dst, list, n)
        BY <1>4, <2>1, <2>2, MapListGood
      <3> QED
        BY <3>1 DEF AllMapped
  <1>7. {list[k] : k \in 1 .. n} = Kips
    BY <1>1, <1>3 DEF Kips
  <1> QED
    BY <1>6, <1>7

LEMMA ThreadsFinite == IsFiniteSet(Threads) /\ Root \in Threads
  BY MemoryAssumption, FS_Union, FS_Singleton DEF Threads

LEMMA BootedGood ==
    /\ Booted \in Tables /\ Booted.fault = "none" /\ Sound(Booted, Booted.live, Kips)
    /\ RootSpace \in Spaces /\ Booted.live = {RootSpace} /\ Booted.shared[RootSpace] = 0
    /\ Regular => Neat(Booted, Kips)
  <1>1. RootSpace \in Spaces /\ RootSpace = FirstOf(Spaces \ {})
    <2>1. Spaces # {}
      BY MemoryAssumption
    <2>2. Spaces \in SUBSET Nat
      BY SlotsAre
    <2>3. RootSpace \in Spaces
      BY <2>1, <2>2, FirstOfIs DEF RootSpace
    <2>4. Spaces = Spaces \ {}
      OBVIOUS
    <2> QED
      BY <2>3, <2>4 DEF RootSpace
  <1>2. PICK k : k = KipFpages(Empty)
    OBVIOUS
  <1>3. KipGood(Len(Kip), k)
    BY <1>2, KipFpagesGood
  <1>4. PICK r : r = AsCreate(k)
    OBVIOUS
  <1>5. PICK m : m = MapList(r.mem, r.val, [n \in Kips |-> n])
    OBVIOUS
  <1>6. PICK u : u = AssignFpages(m, RootSpace, Utcb[Root][1], Utcb[Root][2]).mem
    OBVIOUS
  <1>7. PICK b : b = MapUser(u, RootSpace)
    OBVIOUS
  <1>8. Booted = b
    BY <1>2, <1>4, <1>5, <1>6, <1>7 DEF Booted
  <1>9. b.fault = "none"
    BY <1>8, BootAssumption
  <1>10. k \in Tables /\ k.live = {} /\ k.fault # "endless" /\ (k.fault = "none" => Sound(k, {}, Kips))
    BY <1>3 DEF KipGood, Kips
  <1>11. Created(k, r, Kips)
    <2>1. Spaces \ k.live # {}
      BY <1>1, <1>10
    <2> QED
      BY <1>4, <1>10, <2>1, AsCreateGood
  <1>12. r.val = RootSpace
    BY <1>1, <1>4, <1>10 DEF AsCreate, Result
  <1>13. PICK o \in Tables : o = r.mem
    BY <1>11 DEF Created
  <1>14. o.live = {RootSpace} /\ o.shared[RootSpace] = 0 /\ o.fault = k.fault
    <2>1. k.shared \in [Spaces -> Nat]
      BY <1>10 DEF Tables
    <2> QED
      BY <1>1, <1>10, <1>11, <1>12, <1>13, <2>1 DEF Created
  <1>15. Good(o, Kips)
    BY <1>10, <1>11, <1>13, <1>14 DEF Created, Good, After, Kept
  <1>16. MapDone(o, m, Kips) /\ Given(m, RootSpace, Kips)
    BY <1>1, <1>5, <1>12, <1>13, <1>14, <1>15, KipsMapped
  <1>17. m \in Tables /\ After(o, m, Kips) /\ Good(m, Kips)
    BY <1>16, AfterGood DEF MapDone, After
  <1>18. m.fault = "none" => m.live = {RootSpace}
    BY <1>14, <1>17 DEF After
  <1>19. After(m, u, Kips)
    <2>1. PICK r2 : r2 = AssignFpages(m, RootSpace, Utcb[Root][1], Utcb[Root][2])
      OBVIOUS
    <2>2. Utcb[Root][1] \in Nat /\ Utcb[Root][2] \in Int
      BY UtcbIs DEF Threads
    <2>3. Regular => Multiple(Utcb[Root][1])
      BY ThreadsFinite DEF Regular
    <2>4. Assigned(m, r2, Kips, RootSpace)
      BY <1>1, <1>17, <1>18, <2>1, <2>2, <2>3, AssignFpagesGood
    <2> QED
      BY <1>6, <2>1, <2>4 DEF Assigned
  <1>20. u \in Tables /\ Good(u, Kips) /\ (u.fault = "none" => RootSpace \in u.live)
    BY <1>18, <1>19, AfterGood DEF After
  <1>21. After(u, b, Kips)
    BY <1>1, <1>7, <1>20, MapUserGood
  <1>22. After(o, b, Kips)
    BY <1>17, <1>19, <1>21, AfterBoth
  <1>23. b \in Tables /\ b.live = {RootSpace} /\ b.shared[RootSpace] = 0 /\ Sound(b, b.live, Kips)
    BY <1>9, <1>14, <1>22 DEF After
  <1>24. ASSUME Regular
         PROVE  Neat(b, Kips)
    <2>1. u.fault = "none" /\ m.fault = "none" /\ o.fault = "none" /\ k.fault = "none"
      BY <1>9, <1>14, <1>17, <1>19, <1>21 DEF After
    <2>2. Tidy(o)
      BY <1>3, <1>11, <1>13, <1>24, <2>1, KipTidy DEF Created
    <2>3. Tidy(m)
      BY <1>16, <2>1, <2>2 DEF MapDone, MirrorsStay
    <2>4. RootSpace \in m.live /\ Covered(m, Kips)
      BY <1>16, <1>18, <2>1 DEF Given, Covered
    <2>5. Neat(m, Kips)
      BY <2>3, <2>4 DEF Neat
    <2>6. Kept(m, u, Kips) /\ Kept(u, b, Kips)
      BY <1>9, <1>19, <1>21, <2>1 DEF After
    <2> QED
      BY <1>24, <2>5, <2>6 DEF Kept
  <1> QED
    BY <1>1, <1>8, <1>9, <1>23, <1>24

-----------------------------------------------------------------------------
(* Threads and their spaces *)

Homes == [Threads -> Spaces \cup {NULL}]
In(o, a) == {t \in Threads : o[t] = a}
Taken(o) == {o[t] : t \in {s \in Threads : o[s] # NULL}}

\* A space is there as long as a thread uses it, and counts the other ones.
Counted(m, o) == m.live = Taken(o) /\ \A a \in m.live : m.shared[a] + 1 = Cardinality(In(o, a))

LEMMA InIs ==
    ASSUME NEW o, NEW a
    PROVE  IsFiniteSet(In(o, a)) /\ Cardinality(In(o, a)) \in Nat /\ (Cardinality(In(o, a)) = 0 <=> In(o, a) = {})
  <1>1. In(o, a) \in SUBSET Threads
    BY DEF In
  <1>2. IsFiniteSet(In(o, a))
    BY <1>1, ThreadsFinite, FS_Subset
  <1> QED
    BY <1>2, FS_CardinalityType, FS_EmptySet

\* A thread comes into a space.
Joining(o, p, a) ==
    /\ p \in Homes /\ Taken(p) = Taken(o) \cup {a}
    /\ Cardinality(In(p, a)) = Cardinality(In(o, a)) + 1
    /\ \A b \in Spaces \ {a} : In(p, b) = In(o, b)

LEMMA Joins ==
    ASSUME NEW o \in Homes, NEW t \in Threads, o[t] = NULL, NEW a \in Spaces, NEW p, p = [o EXCEPT ![t] = a]
    PROVE  Joining(o, p, a)
  <1>1. p \in Homes /\ p[t] = a /\ \A s \in Threads \ {t} : p[s] = o[s]
    BY DEF Homes
  <1>2. a # NULL /\ \A b \in Spaces : b # NULL
    BY SlotsAre
  <1>3. Taken(p) = Taken(o) \cup {a}
    BY <1>1, <1>2 DEF Taken
  <1>4. In(p, a) = In(o, a) \cup {t} /\ t \notin In(o, a)
    BY <1>1, <1>2 DEF In
  <1>5. Cardinality(In(p, a)) = Cardinality(In(o, a)) + 1
    BY <1>4, InIs, FS_AddElement
  <1>6. \A b \in Spaces \ {a} : In(p, b) = In(o, b)
    BY <1>1, <1>2 DEF In
  <1> QED
    BY <1>1, <1>3, <1>5, <1>6 DEF Joining

\* It goes.
Leaving(o, p, a) ==
    /\ p \in Homes
    /\ Taken(p) = IF In(p, a) = {} THEN Taken(o) \ {a} ELSE Taken(o)
    /\ Cardinality(In(p, a)) = Cardinality(In(o, a)) - 1
    /\ \A b \in Spaces \ {a} : In(p, b) = In(o, b)

LEMMA Leaves ==
    ASSUME NEW o \in Homes, NEW t \in Threads, NEW a \in Spaces, o[t] = a, NEW p, p = [o EXCEPT ![t] = NULL]
    PROVE  Leaving(o, p, a)
  <1>1. p \in Homes /\ p[t] = NULL /\ \A s \in Threads \ {t} : p[s] = o[s]
    BY DEF Homes
  <1>2. a # NULL /\ \A b \in Spaces : b # NULL
    BY SlotsAre
  <1>3. Taken(p) = IF In(p, a) = {} THEN Taken(o) \ {a} ELSE Taken(o)
    <2>1. CASE In(p, a) = {}
      <3>1. \A s \in Threads : p[s] # a
        BY <2>1 DEF In
      <3>2. \A s \in Threads \ {t} : o[s] # a
        BY <1>1, <3>1
      <3> QED
        BY <1>1, <1>2, <2>1, <3>2 DEF Taken
    <2>2. CASE In(p, a) # {}
      <3>1. PICK s \in Threads : p[s] = a
        BY <2>2 DEF In
      <3>2. s # t /\ o[s] = a
        BY <1>1, <1>2, <3>1
      <3>3. Taken(p) = Taken(o)
        <4>1. ASSUME NEW i \in Threads, p[i] # NULL
              PROVE  \E j \in Threads : o[j] # NULL /\ o[j] = p[i]
          BY <1>1, <4>1
        <4>2. ASSUME NEW i \in Threads, o[i] # NULL
              PROVE  \E j \in Threads : p[j] # NULL /\ p[j] = o[i]
          <5>1. CASE i = t
            BY <1>2, <3>1, <5>1
          <5>2. CASE i # t
            BY <1>1, <4>2, <5>2
          <5> QED
            BY <5>1, <5>2
        <4> QED
          BY <4>1, <4>2 DEF Taken
      <3> QED
        BY <2>2, <3>3
    <2> QED
      BY <2>1, <2>2
  <1>4. In(p, a) = In(o, a) \ {t} /\ t \in In(o, a)
    BY <1>1, <1>2 DEF In
  <1>5. Cardinality(In(p, a)) = Cardinality(In(o, a)) - 1
    BY <1>4, InIs, FS_RemoveElement
  <1>6. \A b \in Spaces \ {a} : In(p, b) = In(o, b)
    BY <1>1, <1>2 DEF In
  <1> QED
    BY <1>1, <1>3, <1>5, <1>6 DEF Leaving

\* For a thread that is not there, there is a space.
-----------------------------------------------------------------------------
(* The invariant *)

\* The tables are sound, even if something undefined was done, as they stay what
\* they were then; and the threads are as the spaces count them.
Inv ==
    /\ mem \in Tables /\ mem.fault # "endless" /\ Sound(mem, mem.live, Kips)
    /\ Regular => Neat(mem, Kips)
    /\ of \in Homes /\ of[Root] = RootSpace /\ RootSpace \in Spaces
    /\ Fine => Counted(mem, of)

\* What a step may make of the tables.
Allowed(u, o) ==
    /\ u \in Tables /\ u.fault # "endless"
    /\ u.fault = "none" => Sound(u, u.live, Kips) /\ (Regular => Neat(u, Kips)) /\ Counted(u, o)

LEMMA BecomesGood ==
    ASSUME Inv, NEW u, Becomes(u), Allowed(u, of'), of' \in Homes, of'[Root] = RootSpace
    PROVE  Inv'
  <1>1. CASE u.fault = "none"
    <2>1. mem' = u
      BY <1>1 DEF Becomes
    <2>2. /\ mem' \in Tables /\ mem'.fault # "endless" /\ Sound(mem', mem'.live, Kips) /\ Counted(mem', of')
          /\ Regular => Neat(mem', Kips)
      BY <1>1, <2>1 DEF Allowed
    <2> QED
      BY <2>2 DEF Inv, Fine
  <1>2. CASE u.fault # "none"
    <2>1. PICK w : w = [mem EXCEPT !.fault = u.fault]
      OBVIOUS
    <2>2. mem' = w
      BY <1>2, <2>1 DEF Becomes
    <2>3. mem \in Tables /\ u \in Tables
      BY DEF Inv, Allowed
    <2>4. w \in Tables /\ w.fault = u.fault /\ Same(mem, w, {"fault"})
      BY <2>1, <2>3 DEF Tables, Same
    <2>5. /\ w.used = mem.used /\ w.fp = mem.fp /\ w.mapNext = mem.mapNext /\ w.chain = mem.chain
          /\ w.live = mem.live
      BY <2>3, <2>4 DEF Tables, Same
    <2>6. Sound(mem, mem.live, Kips)
      BY DEF Inv
    <2>7. Sound(w, mem.live, Kips)
      BY <2>5, <2>6, SoundSame
    <2>8. Regular => Neat(w, Kips)
      BY <2>5, NeatSame DEF Inv
    <2> QED
      BY <1>2, <2>2, <2>4, <2>5, <2>7, <2>8 DEF Inv, Allowed, Fine
  <1> QED
    BY <1>1, <1>2

LEMMA InitGood == Init => Inv
  <1> SUFFICES ASSUME Init
               PROVE  Inv
    OBVIOUS
  <1>1. /\ mem = Booted /\ mem \in Tables /\ mem.fault = "none" /\ Sound(mem, mem.live, Kips)
        /\ RootSpace \in Spaces /\ mem.live = {RootSpace} /\ mem.shared[RootSpace] = 0
        /\ Regular => Neat(mem, Kips)
    BY BootedGood DEF Init
  <1>2. of = [t \in Threads |-> IF t = Root THEN RootSpace ELSE NULL] /\ Root \in Threads
    BY ThreadsFinite DEF Init
  <1>3. of \in Homes /\ of[Root] = RootSpace
    BY <1>1, <1>2 DEF Homes
  <1>4. RootSpace # NULL
    BY <1>1, SlotsAre
  <1>5. In(of, RootSpace) = {Root} /\ Taken(of) = {RootSpace}
    BY <1>2, <1>4 DEF In, Taken
  <1>6. Cardinality({Root}) = 1
    BY FS_Singleton
  <1>7. Counted(mem, of)
    BY <1>1, <1>5, <1>6 DEF Counted
  <1> QED
    BY <1>1, <1>3, <1>7 DEF Inv, Fine

\* What the invariant says of the threads that are there.
LEMMA AliveIs ==
    ASSUME Inv, Fine
    PROVE  /\ Good(mem, Kips) /\ mem.fault = "none" /\ mem.live \in SUBSET Spaces
           /\ \A t \in Alive : t \in Threads /\ of[t] \in mem.live /\ of[t] \in Spaces
           /\ \A t \in Threads \ Alive : of[t] = NULL
           /\ Root \in Alive /\ \A t \in Threads : Privileged(t) => of[t] = RootSpace
  <1>1. mem \in Tables /\ Sound(mem, mem.live, Kips) /\ mem.fault = "none" /\ Counted(mem, of)
    BY DEF Inv, Fine
  <1>2. Good(mem, Kips) /\ mem.live \in SUBSET Spaces
    BY <1>1, LiveIs DEF Good, After, Kept
  <1>3. \A t \in Alive : t \in Threads /\ of[t] \in mem.live
    BY <1>1 DEF Counted, Taken, Alive
  <1>4. \A t \in Threads \ Alive : of[t] = NULL
    BY DEF Alive
  <1>5. Root \in Alive
    BY ThreadsFinite, SlotsAre DEF Inv, Alive
  <1>6. \A t \in Threads : Privileged(t) => of[t] = RootSpace
    BY DEF Inv, Privileged
  <1> QED
    BY <1>1, <1>2, <1>3, <1>4, <1>5, <1>6

\* A thread comes: to a space that is there, or to a new one.
LEMMA CountedIn ==
    ASSUME NEW m, NEW o \in Homes, m.live \in SUBSET Spaces, Counted(m, o), NEW t \in Threads, o[t] = NULL,
           NEW a \in Spaces, NEW u, u.live = m.live \cup {a}, m.shared \in [Spaces -> Nat],
           u.shared = [m.shared EXCEPT ![a] = IF a \in m.live THEN m.shared[a] + 1 ELSE 0],
           NEW p, p = [o EXCEPT ![t] = a]
    PROVE  p \in Homes /\ Counted(u, p)
  <1>1. /\ p \in Homes /\ Taken(p) = Taken(o) \cup {a}
        /\ Cardinality(In(p, a)) = Cardinality(In(o, a)) + 1
        /\ \A b \in Spaces \ {a} : In(p, b) = In(o, b)
    <2>1. Joining(o, p, a)
      BY Joins
    <2> QED
      BY <2>1 DEF Joining
  <1>2. u.shared[a] + 1 = Cardinality(In(p, a))
    <2>1. CASE a \in m.live
      <3>1. u.shared[a] = m.shared[a] + 1 /\ m.shared[a] + 1 = Cardinality(In(o, a))
        BY <2>1 DEF Counted
      <3> QED
        BY <1>1, <3>1
    <2>2. CASE a \notin m.live
      <3>1. In(o, a) = {}
        BY <2>2, SlotsAre DEF Counted, Taken, In
      <3>2. Cardinality(In(o, a)) = 0
        BY <3>1, InIs
      <3>3. u.shared[a] = 0
        BY <2>2
      <3> QED
        BY <1>1, <3>2, <3>3
    <2> QED
      BY <2>1, <2>2
  <1>3. \A b \in u.live \ {a} : u.shared[b] = m.shared[b] /\ b \in m.live /\ In(p, b) = In(o, b)
    BY <1>1
  <1>4. \A b \in u.live : u.shared[b] + 1 = Cardinality(In(p, b))
    BY <1>2, <1>3 DEF Counted
  <1> QED
    BY <1>1, <1>4 DEF Counted

LEMMA NewThreadGood ==
    ASSUME Inv, NEW caller \in Threads, NEW t \in Users, NEW space \in Threads, NEW chance \in BOOLEAN,
           NewThread(caller, t, space, chance)
    PROVE  Inv'
  <1>1. Fine /\ caller \in Alive /\ t \notin Alive /\ space \in Alive \cup {t}
    BY DEF NewThread, Op, Fine
  <1>2. /\ Good(mem, Kips) /\ mem.fault = "none" /\ mem.live \in SUBSET Spaces
        /\ \A s \in Alive : s \in Threads /\ of[s] \in mem.live /\ of[s] \in Spaces
        /\ of[t] = NULL /\ Root \in Alive /\ (Privileged(caller) => of[caller] = RootSpace)
    BY <1>1, AliveIs DEF Threads
  <1>3. mem \in Tables /\ of \in Homes /\ Counted(mem, of) /\ Sound(mem, mem.live, Kips) /\ t \in Threads /\ t # Root
    BY <1>1, <1>2 DEF Inv, Threads
  <1>4. PICK r : r = IF space = t THEN AsCreate(mem)
                     ELSE Result([mem EXCEPT !.shared[of[space]] = @ + 1], of[space])
    OBVIOUS
  <1>5. PICK m : m = IF space = t THEN MapList(r.mem, r.val, [n \in Kips |-> n]) ELSE r.mem
    OBVIOUS
  <1>6. PICK area : area = MapArea(m, of[caller], r.val, Utcb[t][1], Utcb[t][2], Privileged(caller), chance)
    OBVIOUS
  <1>7. Becomes(area.mem) /\ of' = [of EXCEPT ![t] = r.val]
    BY <1>4, <1>5, <1>6 DEF NewThread
  <1>a. CASE space = t /\ Spaces \ mem.live = {}
    <2>1. PICK q : q = Faulty(mem, "spaces")
      OBVIOUS
    <2>2. "spaces" \in Faults \ {"none", "endless"}
      BY DEF Faults
    <2>3. q \in Tables /\ q.fault # "none" /\ q.fault \in {mem.fault, "spaces"} /\ q.fault # "endless"
      BY <1>2, <1>3, <2>1, <2>2, FaultyIs
    <2>4. r = Result(q, NULL)
      BY <1>4, <1>a, <2>1 DEF AsCreate
    <2>5. r.mem = q /\ r.val = NULL
      BY <2>4 DEF Result
    <2>6. Good(q, Kips)
      BY <2>3, AfterFault DEF Good
    <2>7. m = MapList(q, NULL, [n \in Kips |-> n])
      BY <1>5, <1>a, <2>5
    <2>8. After(q, m, Kips)
      BY <2>3, <2>6, <2>7, KipsMapped DEF MapDone
    <2>9. m \in Tables /\ Good(m, Kips) /\ m.fault # "none"
      BY <2>3, <2>8, AfterGood DEF After
    <2>10. of[caller] \in Spaces /\ Privileged(caller) \in BOOLEAN /\ Utcb[t][1] \in Nat /\ Utcb[t][2] \in Nat
      BY <1>1, <1>2, <1>3, UtcbIs DEF Privileged
    <2>11. Regular => Multiple(Utcb[t][1])
      BY <1>3 DEF Regular
    <2>12. After(m, area.mem, Kips)
      BY <1>2, <1>6, <2>9, <2>10, <2>11, MapAreaGood
    <2>13. Allowed(area.mem, of')
      BY <2>9, <2>12 DEF After, Allowed
    <2>14. of' \in Homes /\ of'[Root] = RootSpace
      BY <1>3, <1>7, <2>5, ThreadsFinite DEF Inv, Homes
    <2> QED
      BY <1>7, <2>13, <2>14, BecomesGood
  <1>b. SUFFICES ASSUME space = t => Spaces \ mem.live # {}
                 PROVE  Inv'
    BY <1>a
  <1>8. /\ r.mem \in Tables /\ Good(r.mem, Kips) /\ r.mem.fault = "none"
        /\ r.val \in Spaces /\ r.mem.live = mem.live \cup {r.val}
        /\ r.mem.shared = [mem.shared EXCEPT ![r.val] = IF r.val \in mem.live THEN mem.shared[r.val] + 1 ELSE 0]
        /\ Kept(mem, r.mem, Kips)
    <2>1. CASE space = t
      <3>1. Spaces \ mem.live # {}
        BY <1>b, <2>1
      <3>2. r = AsCreate(mem)
        BY <1>4, <2>1
      <3>3. Created(mem, r, Kips)
        BY <1>3, <3>1, <3>2, AsCreateGood
      <3>4. /\ r.mem \in Tables /\ r.val \in Spaces \ mem.live /\ r.mem.live = mem.live \cup {r.val}
            /\ r.mem.shared = [mem.shared EXCEPT ![r.val] = 0] /\ r.mem.fault = mem.fault
            /\ Sound(r.mem, r.mem.live, Kips) /\ Kept(mem, r.mem, Kips)
        BY <1>3, <3>3 DEF Created
      <3>5. Good(r.mem, Kips)
        BY <1>2, <3>4 DEF Good, After, Kept
      <3> QED
        BY <1>2, <3>4, <3>5
    <2>2. CASE space # t
      <3>1. PICK a \in Spaces : a = of[space] /\ a \in mem.live
        BY <1>1, <1>2, <2>2
      <3>2. PICK n \in Nat : n = mem.shared[a] + 1
        BY <1>3 DEF Tables
      <3>3. PICK u : u = [mem EXCEPT !.shared[a] = n]
        OBVIOUS
      <3>4. r = Result(u, a)
        BY <1>3, <1>4, <2>2, <3>1, <3>2, <3>3 DEF Tables
      <3>5. r.mem = u /\ r.val = a
        BY <3>4 DEF Result
      <3>6. u \in Tables /\ u.shared = [mem.shared EXCEPT ![a] = n] /\ Same(mem, u, {"shared"})
        BY <1>3, <3>3 DEF Tables, Same
      <3>7. /\ u.used = mem.used /\ u.fp = mem.fp /\ u.mapNext = mem.mapNext /\ u.chain = mem.chain
            /\ u.live = mem.live /\ u.fault = mem.fault
        BY <1>3, <3>6 DEF Tables, Same
      <3>8. Sound(u, mem.live, Kips)
        BY <1>3, <3>7, SoundSame
      <3>9. Good(u, Kips)
        BY <1>2, <3>6, <3>7, <3>8 DEF Good, After, Kept
      <3>10. u.live = mem.live \cup {a}
        BY <3>1, <3>7
      <3>11. u.shared = [mem.shared EXCEPT ![a] = IF a \in mem.live THEN mem.shared[a] + 1 ELSE 0]
        BY <3>1, <3>2, <3>6
      <3>12. Kept(mem, u, Kips)
        BY <3>7, NeatSame DEF Kept
      <3> QED
        BY <1>2, <3>5, <3>6, <3>7, <3>9, <3>10, <3>11, <3>12
    <2> QED
      BY <2>1, <2>2
  <1>9. After(r.mem, m, Kips)
    <2>1. CASE space = t
      <3>1. m = MapList(r.mem, r.val, [n \in Kips |-> n])
        BY <1>5, <2>1
      <3>2. r.val \in r.mem.live
        BY <1>8
      <3>3. MapDone(r.mem, m, Kips)
        BY <1>8, <3>1, <3>2, KipsMapped
      <3> QED
        BY <3>3 DEF MapDone
    <2>2. CASE space # t
      BY <1>5, <1>8, <2>2 DEF Good
    <2> QED
      BY <2>1, <2>2
  <1>10. m \in Tables /\ Good(m, Kips) /\ (m.fault = "none" => m.live = r.mem.live)
    BY <1>9, AfterGood DEF After
  <1>11. After(m, area.mem, Kips)
    <2>1. of[caller] \in Spaces /\ of[caller] \in mem.live /\ Privileged(caller) \in BOOLEAN
      BY <1>1, <1>2 DEF Privileged
    <2>2. Utcb[t][1] \in Nat /\ Utcb[t][2] \in Nat
      BY <1>3, UtcbIs
    <2>3. m.fault = "none" => of[caller] \in m.live /\ r.val \in m.live
      BY <1>8, <1>10, <2>1
    <2>4. Regular => Multiple(Utcb[t][1])
      BY <1>3 DEF Regular
    <2> QED
      BY <1>2, <1>6, <1>10, <2>1, <2>2, <2>3, <2>4, MapAreaGood
  <1>12. After(r.mem, area.mem, Kips)
    BY <1>9, <1>11, AfterBoth
  <1>13. of' \in Homes /\ Counted(r.mem, of')
    BY <1>2, <1>3, <1>7, <1>8, CountedIn DEF Tables
  <1>14. Allowed(area.mem, of')
    <2>1. area.mem \in Tables /\ area.mem.fault # "endless"
      BY <1>12 DEF After
    <2>2. ASSUME area.mem.fault = "none"
          PROVE  Sound(area.mem, area.mem.live, Kips) /\ (Regular => Neat(area.mem, Kips)) /\ Counted(area.mem, of')
      <3>1. /\ area.mem.live = r.mem.live /\ area.mem.shared = r.mem.shared
            /\ Sound(area.mem, area.mem.live, Kips) /\ Kept(r.mem, area.mem, Kips)
        BY <1>12, <2>2 DEF After
      <3>2. Regular => Neat(area.mem, Kips)
        BY <1>8, <3>1 DEF Kept, Inv
      <3> QED
        BY <1>13, <3>1, <3>2 DEF Counted
    <2> QED
      BY <2>1, <2>2 DEF Allowed
  <1>15. of'[Root] = RootSpace
    BY <1>3, <1>7, ThreadsFinite DEF Inv, Homes
  <1> QED
    BY <1>7, <1>13, <1>14, <1>15, BecomesGood

LEMMA DeleteGood ==
    ASSUME Inv, NEW t \in Users, NEW chance \in BOOLEAN, Delete(t, chance)
    PROVE  Inv'
  <1>1. Fine /\ t \in Alive /\ of' = [of EXCEPT ![t] = NULL]
    BY DEF Delete, Op, Fine
  <1>2. /\ Good(mem, Kips) /\ mem.fault = "none" /\ mem.live \in SUBSET Spaces
        /\ t \in Threads /\ of[t] \in mem.live /\ of[t] \in Spaces /\ Root \in Alive
    BY <1>1, AliveIs
  <1>3. mem \in Tables /\ of \in Homes /\ Counted(mem, of) /\ of[Root] = RootSpace /\ t # Root
    BY <1>1, MemoryAssumption DEF Inv
  <1>4. PICK a \in Spaces : a = of[t] /\ a \in mem.live
    BY <1>2
  <1>5. PICK u : u = AsDestroy(mem, a, chance)
    OBVIOUS
  <1>6. Becomes(u)
    BY <1>4, <1>5 DEF Delete
  <1>7. /\ of' \in Homes
        /\ Taken(of') = IF In(of', a) = {} THEN Taken(of) \ {a} ELSE Taken(of)
        /\ Cardinality(In(of', a)) = Cardinality(In(of, a)) - 1
        /\ \A b \in Spaces \ {a} : In(of', b) = In(of, b)
    <2>1. PICK p : p = of'
      OBVIOUS
    <2>2. Leaving(of, p, a)
      BY <1>1, <1>2, <1>3, <1>4, <2>1, Leaves
    <2> QED
      BY <2>1, <2>2 DEF Leaving
  <1>8. mem.shared \in [Spaces -> Nat] /\ mem.shared[a] + 1 = Cardinality(In(of, a)) /\ mem.shared[a] \in Nat
    BY <1>3, <1>4 DEF Counted, Tables
  <1>9. of'[Root] = RootSpace
    BY <1>1, <1>3, ThreadsFinite DEF Homes
  <1>10. Cardinality(In(of', a)) = mem.shared[a]
    BY <1>7, <1>8
  <1>11. mem.shared[a] > 0 \/ a # RootSpace
    <2>1. ASSUME a = RootSpace
          PROVE  In(of', a) # {}
      BY <1>9, <2>1, ThreadsFinite DEF In
    <2>2. Cardinality(In(of', a)) = 0 <=> In(of', a) = {}
      BY InIs
    <2> QED
      BY <1>8, <1>10, <2>1, <2>2
  <1>12. Destroyed(mem, u, Kips, a)
    BY <1>2, <1>3, <1>4, <1>5, <1>11, AsDestroyGood
  <1>13. Allowed(u, of')
    <2>1. u \in Tables /\ u.fault # "endless"
      BY <1>12 DEF Destroyed
    <2>2. ASSUME u.fault = "none"
          PROVE  Sound(u, u.live, Kips) /\ (Regular => Neat(u, Kips)) /\ Counted(u, of')
      <3>1. /\ Sound(u, u.live, Kips) /\ Kept(mem, u, Kips)
            /\ IF mem.shared[a] > 0 THEN u.live = mem.live /\ u.shared = [mem.shared EXCEPT ![a] = @ - 1]
               ELSE u.live = mem.live \ {a} /\ u.shared = mem.shared
        BY <1>12, <2>2 DEF Destroyed
      <3>2. Cardinality(In(of', a)) = 0 <=> In(of', a) = {}
        BY InIs
      <3>3. u.live = Taken(of')
        <4>1. mem.live = Taken(of)
          BY <1>3 DEF Counted
        <4>2. CASE mem.shared[a] > 0
          <5>1. In(of', a) # {}
            BY <1>10, <3>2, <4>2
          <5> QED
            BY <1>7, <3>1, <4>1, <4>2, <5>1
        <4>3. CASE ~(mem.shared[a] > 0)
          <5>1. In(of', a) = {}
            BY <1>8, <1>10, <3>2, <4>3
          <5> QED
            BY <1>7, <3>1, <4>1, <4>3, <5>1
        <4> QED
          BY <4>2, <4>3
      <3>4. \A b \in u.live \ {a} : u.shared[b] = mem.shared[b] /\ b \in mem.live /\ b \in Spaces \ {a}
        BY <1>2, <1>8, <3>1
      <3>5. \A b \in u.live \ {a} : u.shared[b] + 1 = Cardinality(In(of', b))
        BY <1>3, <1>7, <3>4 DEF Counted
      <3>6. a \in u.live => u.shared[a] + 1 = Cardinality(In(of', a))
        BY <1>8, <1>10, <3>1
      <3>7. Regular => Neat(u, Kips)
        BY <3>1 DEF Kept, Inv
      <3> QED
        BY <3>1, <3>3, <3>5, <3>6, <3>7 DEF Counted
    <2> QED
      BY <2>1, <2>2 DEF Allowed
  <1> QED
    BY <1>6, <1>7, <1>9, <1>13, BecomesGood

LEMMA SendGood ==
    ASSUME Inv, NEW from \in Threads, NEW to \in Threads, NEW area \in Areas, NEW chance \in BOOLEAN,
           Send(from, to, area, chance)
    PROVE  Inv'
  <1>1. Fine /\ from \in Alive /\ to \in Alive /\ of' = of
    BY DEF Send, Op, Fine
  <1>2. /\ Good(mem, Kips) /\ mem.fault = "none"
        /\ of[from] \in mem.live /\ of[from] \in Spaces /\ of[to] \in mem.live
        /\ (Privileged(from) => of[from] = RootSpace)
    BY <1>1, AliveIs
  <1>3. mem \in Tables /\ of \in Homes /\ Counted(mem, of) /\ of[Root] = RootSpace
    BY <1>1 DEF Inv
  <1>4. /\ area[1] \in Nat /\ area[2] \in Nat /\ Privileged(from) \in BOOLEAN
        /\ Regular => Multiple(area[1])
    BY MemoryAssumption DEF Privileged, Regular
  <1>5. PICK r : r = MapArea(mem, of[from], of[to], area[1], area[2], Privileged(from), chance)
    OBVIOUS
  <1>6. Becomes(r.mem)
    BY <1>5 DEF Send
  <1>7. After(mem, r.mem, Kips)
    BY <1>2, <1>3, <1>4, <1>5, MapAreaGood
  <1>8. Regular /\ r.mem.fault = "none" => Neat(r.mem, Kips)
    BY <1>7 DEF After, Kept, Inv
  <1>9. Allowed(r.mem, of')
    BY <1>1, <1>3, <1>7, <1>8 DEF After, Allowed, Counted
  <1> QED
    BY <1>1, <1>3, <1>6, <1>9, BecomesGood

LEMMA SwitchGood ==
    ASSUME Inv, NEW t \in Threads, NEW pc, Switch(t, pc)
    PROVE  Inv'
  <1>1. Fine /\ t \in Alive /\ of' = of
    BY DEF Switch, Op, Fine
  <1>2. Good(mem, Kips) /\ mem.fault = "none" /\ of[t] \in Spaces /\ mem.live \in SUBSET Spaces
    BY <1>1, AliveIs
  <1>3. /\ mem \in Tables /\ of \in Homes /\ Counted(mem, of) /\ of[Root] = RootSpace
        /\ Sound(mem, mem.live, Kips)
    BY <1>1 DEF Inv
  <1>4. PICK r : r = SetupMpu(mem, of[t], pc, Stack[t])
    OBVIOUS
  <1>5. Becomes(r.mem)
    BY <1>4 DEF Switch
  <1>6. Remapped(mem, r.mem)
    BY <1>2, <1>3, <1>4, UtcbIs, SetupMpuIs
  <1>7. PICK u \in Tables : u = r.mem
    BY <1>6 DEF Remapped
  <1>8. /\ u.used = mem.used /\ u.fp = mem.fp /\ u.mapNext = mem.mapNext /\ u.chain = mem.chain
        /\ u.live = mem.live /\ u.shared = mem.shared /\ u.fault \in {mem.fault} \cup Wrong
    BY <1>3, <1>6, <1>7 DEF Remapped, Same, Tables
  <1>9. Sound(u, u.live, Kips)
    BY <1>3, <1>8, SoundSame
  <1>10. u.fault # "endless"
    BY <1>2, <1>8 DEF Wrong
  <1>11. Regular => Neat(u, Kips)
    BY <1>8, NeatSame DEF Inv
  <1>12. Allowed(u, of')
    BY <1>1, <1>3, <1>8, <1>9, <1>10, <1>11 DEF Allowed, Counted
  <1> QED
    BY <1>1, <1>3, <1>5, <1>7, <1>12, BecomesGood

\* Whatever threads are created, removed, mapped to and switched to, as long as
\* nothing undefined happens: every fpage in use is in one place and in one ring,
\* and every space alive is used by as many threads as its count says (all of
\* fpage.c and memory.c).
THEOREM Invariance == Spec => []Inv
  <1>1. Init => Inv
    BY InitGood
  <1>2. Inv /\ [Next]_vars => Inv'
    <2> SUFFICES ASSUME Inv, [Next]_vars
                 PROVE  Inv'
      OBVIOUS
    <2>1. ASSUME NEW chance \in BOOLEAN, NEW caller \in Threads, NEW t \in Users, NEW space \in Threads,
                 NewThread(caller, t, space, chance)
          PROVE  Inv'
      BY <2>1, NewThreadGood
    <2>2. ASSUME NEW chance \in BOOLEAN, NEW t \in Users, Delete(t, chance)
          PROVE  Inv'
      BY <2>2, DeleteGood
    <2>3. ASSUME NEW chance \in BOOLEAN, NEW from \in Threads, NEW to \in Threads, NEW area \in Areas,
                 Send(from, to, area, chance)
          PROVE  Inv'
      BY <2>3, SendGood
    <2>4. ASSUME NEW t \in Threads, NEW pc \in Codes, Switch(t, pc)
          PROVE  Inv'
      BY <2>4, SwitchGood
    <2>5. CASE UNCHANGED vars
      BY <2>5 DEF vars, Inv, Fine
    <2> QED
      BY <2>1, <2>2, <2>3, <2>4, <2>5 DEF Next
  <1> QED
    BY <1>1, <1>2, PTL DEF Spec

\* The invariant says of the tables what SlotsExact and RingsWhole do.
LEMMA InvAccounts == Inv => Accounted
  <1> SUFFICES ASSUME Inv
               PROVE  Accounted
    OBVIOUS
  <1>1. mem \in Tables /\ Placed(mem, mem.live, Kips) /\ Ringed(mem) /\ mem.fault # "endless"
    BY DEF Inv, Sound
  <1>2. RingsWhole
    BY <1>1, RingsAreWhole
  <1>3. SlotsExact
    <2>1. mem.used = Kips \cup UNION {ToSet(mem.chain[a]) : a \in mem.live}
      BY <1>1 DEF Placed
    <2>2. ASSUME NEW a \in mem.live, NEW b \in mem.live, NEW j \in DOMAIN mem.chain[a], NEW k \in DOMAIN mem.chain[b]
          PROVE  mem.chain[a][j] \notin Kips /\ (mem.chain[a][j] = mem.chain[b][k] => a = b /\ j = k)
      <3>1. mem.chain[a][j] \in ToSet(mem.chain[a]) /\ mem.chain[b][k] \in ToSet(mem.chain[b])
        BY DEF ToSet
      <3> QED
        BY <1>1, <3>1 DEF Placed, Distinct
    <2>3. ASSUME Fine
          PROVE  /\ mem.live = {of[t] : t \in Alive}
                 /\ \A a \in mem.live : mem.shared[a] + 1 = Cardinality({t \in Threads : of[t] = a})
      BY <2>3 DEF Inv, Counted, Taken, In, Alive
    <2> QED
      BY <2>1, <2>2, <2>3 DEF SlotsExact
  <1> QED
    BY <1>1, <1>2, <1>3 DEF Accounted

\* Nothing of fpage_table and as_table is lost or used twice (SlotsExact), the rings
\* of maps are whole, and no walk of unmap_fpage() around one goes on for ever.
THEOREM AllAccounted == Spec => []Accounted
  BY Invariance, InvAccounts, PTL

\* create_fpage_chain() makes regions the MPU can hold, powers of two aligned to
\* their size, and maps and splits keep them so.
THEOREM AllShaped == Spec => []MpuShaped
  <1>1. Inv => MpuShaped
    BY DEF Inv, Sound, Shapely, ShapeOf, MpuShaped, Base
  <1> QED
    BY <1>1, Invariance, PTL

\* The invariant says that spaces are in order where the board is laid out in
\* smallest fpages.
LEMMA InvOrders == Inv /\ Regular => WellFormed
  <1> SUFFICES ASSUME Inv, Regular
               PROVE  WellFormed
    OBVIOUS
  <1>1. /\ mem \in Tables /\ Placed(mem, mem.live, Kips) /\ Shapely(mem)
        /\ Gridded(mem, mem.used) /\ Sundered(mem, mem.used) /\ Sorted(mem)
    BY DEF Inv, Sound, Neat, Tidy
  <1>2. mem.live \in SUBSET Spaces /\ mem.used \in SUBSET Slots
    BY <1>1, LiveIs DEF Tables
  <1>3. TypeOK
    <2>1. ASSUME NEW f \in mem.used
          PROVE  mem.fp[f] \in Fpage /\ mem.mapNext[f] \in Slots /\ mem.mpuNext[f] \in Slots \cup {NULL}
      <3>1. f \in Slots /\ mem.fp[f] \in Fpages
        BY <1>1, <1>2 DEF Tables
      <3>2. Base(mem, f) \in Nat /\ Base(mem, f) < End(mem, f) /\ mem.fp[f].size \in 1 .. Top /\ End(mem, f) <= Top
        BY <1>1, UsedSpans DEF Gridded, OnGrid
      <3>3. mem.fp[f].base \in 0 .. Top
        <4>1. Top \in Nat
          BY MemoryAssumption
        <4>2. PICK b \in Nat, e \in Nat : b = Base(mem, f) /\ e = End(mem, f)
          BY <1>1, UsedSpans
        <4>3. b < e /\ e <= Top
          BY <3>2, <4>2
        <4>4. b \in 0 .. Top
          BY <4>1, <4>3
        <4>5. Base(mem, f) \in 0 .. Top
          BY <4>2, <4>4
        <4> QED
          BY <4>5 DEF Base
      <3>4. mem.fp[f] \in Fpage
        BY <3>1, <3>2, <3>3 DEF Fpages, Fpage
      <3>5. mem.mapNext[f] \in Slots /\ mem.mpuNext[f] \in Slots \cup {NULL}
        BY <1>1, <3>1 DEF Tables
      <3> QED
        BY <3>4, <3>5
    <2>2. ASSUME NEW a \in mem.live
          PROVE  mem.chain[a] \in Seq(Slots) /\ mem.mpuFirst[a] \in Slots \cup {NULL} /\ mem.shared[a] \in Nat
      BY <1>1, <1>2 DEF Tables
    <2>3. mem.fault \in Faults /\ of \in [Threads -> Spaces \cup {NULL}]
      BY DEF Inv, Tables, Homes
    <2> QED
      BY <1>2, <2>1, <2>2, <2>3 DEF TypeOK
  <1>4. ChainSorted
    <2>1. ASSUME NEW a \in mem.live, NEW j \in DOMAIN mem.chain[a], NEW k \in DOMAIN mem.chain[a], j < k
          PROVE  IF mem.fp[mem.chain[a][j]].clone \/ mem.fp[mem.chain[a][k]].clone
                 THEN Base(mem, mem.chain[a][j]) <= Base(mem, mem.chain[a][k])
                 ELSE End(mem, mem.chain[a][j]) <= Base(mem, mem.chain[a][k])
      <3>1. PICK f, g : f = mem.chain[a][j] /\ g = mem.chain[a][k]
        OBVIOUS
      <3>2. f \in ToSet(mem.chain[a]) /\ g \in ToSet(mem.chain[a])
        BY <3>1 DEF ToSet
      <3>3. f \in mem.used /\ g \in mem.used
        BY <1>1, <3>2 DEF Placed
      <3>4. f # g
        <4>1. Distinct(mem.chain[a]) /\ j # k
          BY <1>1, <2>1, LiveIs, SlotsAre DEF Placed
        <4> QED
          BY <3>1, <4>1 DEF Distinct
      <3>5. Base(mem, f) <= Base(mem, g)
        BY <1>1, <2>1, <3>1 DEF Sorted, OrderedBy
      <3>6. Base(mem, g) \in Nat /\ End(mem, g) \in Nat /\ Base(mem, g) < End(mem, g) /\ Base(mem, f) \in Nat
        BY <1>1, <3>3, UsedSpans
      <3>7. ASSUME ~mem.fp[f].clone, ~mem.fp[g].clone
            PROVE  End(mem, f) <= Base(mem, g)
        <4>1. Apart(mem, f, g)
          BY <1>1, <3>3, <3>4, <3>7 DEF Sundered, Beside
        <4> QED
          BY <3>5, <3>6, <4>1 DEF Apart
      <3> QED
        BY <3>1, <3>5, <3>7
    <2> QED
      BY <2>1 DEF ChainSorted
  <1>5. MpuShaped
    BY <1>1 DEF Shapely, ShapeOf, MpuShaped, Base
  <1> QED
    BY <1>3, <1>4, <1>5 DEF WellFormed

\* On a board laid out in multiples of the smallest fpage, whatever threads ask
\* for, every chain is sorted, fpages overlap only as maps of the same memory, and
\* all lie in the address space (insert_fpage_to_as(), insert_fpage_chain_to_as(),
\* split_fpage(), map_fpage(), assign_fpages_ext()).
THEOREM AllWellFormed == Regular => (Spec => []WellFormed)
  <1> SUFFICES ASSUME Regular
               PROVE  Spec => []WellFormed
    OBVIOUS
  <1>1. Inv => WellFormed
    BY InvOrders
  <1> QED
    BY <1>1, Invariance, PTL
=============================================================================
