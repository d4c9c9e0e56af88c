------------------------------- MODULE Chains -------------------------------
(***************************************************************************)
(* Chains of links: nodes of which each names the next one, or Nil, as the *)
(* lists and the tree the kernel keeps in its tables.  The specifications  *)
(* follow such links with functions on 0 .. Size, that is, for as many     *)
(* steps as there are nodes; the lemmas say what that reaches if the links *)
(* lead down in some rank.                                                 *)
(***************************************************************************)
EXTENDS FiniteSetTheorems, TLAPS

-----------------------------------------------------------------------------
(* Numbers: induction, in terms of sets, and functions defined by it *)

\* A set of numbers has a least one: their intervals from 0 are well-founded.
LEMMA LeastNatural ==
    ASSUME NEW T \in SUBSET Nat, T # {}
    PROVE  \E x \in T : \A y \in T : x <= y
  <1> DEFINE I == {0 .. n : n \in T}
  <1>1. I \subseteq FiniteSubsetsOf(Nat) /\ I # {}
    <2>1. ASSUME NEW n \in Nat
          PROVE  0 .. n \in FiniteSubsetsOf(Nat)
      <3>1. IsFiniteSet(0 .. n)
        BY FS_Interval
      <3>2. 0 .. n \subseteq Nat
        OBVIOUS
      <3> QED
        BY <3>1, <3>2 DEF FiniteSubsetsOf
    <2> QED
      BY <2>1
  <1> HIDE DEF I
  <1>2. PICK X \in I : \A Y \in I : ~(<<Y, X>> \in StrictSubsetOrdering(Nat))
    BY <1>1, FS_StrictSubsetOrderingWellFounded, WFMin
  <1> USE DEF I
  <1>3. PICK x \in T : X = 0 .. x
    BY <1>2
  <1>4. ASSUME NEW y \in T, y < x
        PROVE  FALSE
    <2>1. (0 .. y) \subseteq (0 .. x) /\ x \notin 0 .. y /\ x \in 0 .. x
      BY <1>4
    <2>2. <<0 .. y, X>> \in StrictSubsetOrdering(Nat)
      BY <1>3, <2>1 DEF StrictSubsetOrdering
    <2> QED
      BY <1>2, <2>2
  <1> QED
    BY <1>4

\* A set that holds 0 and with a number the next one holds all of them.
LEMMA SetInduction ==
    ASSUME NEW S, 0 \in S, \A n \in Nat : n \in S => n + 1 \in S
    PROVE  \A n \in Nat : n \in S
  <1> SUFFICES ASSUME Nat \ S # {} PROVE FALSE
    OBVIOUS
  <1>1. PICK x \in Nat \ S : \A y \in Nat \ S : x <= y
    BY LeastNatural
  <1>2. x - 1 \in Nat /\ ~(x <= x - 1)
    BY <1>1
  <1>3. x - 1 \in S
    BY <1>1, <1>2
  <1> QED
    BY <1>2, <1>3

\* A set of numbers with a bound has a greatest one.
LEMMA GreatestNatural ==
    ASSUME NEW T \in SUBSET Nat, T # {}, NEW b \in Nat, \A n \in T : n <= b
    PROVE  \E x \in T : \A y \in T : y <= x
  <1> DEFINE D == {b - n : n \in T}
  <1>1. D \in SUBSET Nat /\ D # {}
    <2>1. ASSUME NEW n \in T
          PROVE  b - n \in Nat
      BY n \in Nat, n <= b
    <2> QED
      BY <2>1
  <1> HIDE DEF D
  <1>2. PICK d \in D : \A y \in D : d <= y
    BY <1>1, LeastNatural
  <1> USE DEF D
  <1>3. PICK x \in T : d = b - x
    BY <1>2
  <1>4. ASSUME NEW y \in T
        PROVE  y <= x
    <2>1. b - x <= b - y
      BY <1>2, <1>3
    <2> QED
      BY <2>1
  <1> QED
    BY <1>4

\* f is in X, is c at 0 and goes on by h up to n.
Recursive(f, X, c, h, n) ==
    /\ f \in [0 .. n -> X]
    /\ f[0] = c
    /\ \A k \in 1 .. n : f[k] = h[<<k, f[k - 1]>>]

\* A function on an interval may be defined by what each value makes of the one
\* before it.
LEMMA Recursion ==
    ASSUME NEW X, NEW c \in X, NEW h \in [Nat \X X -> X], NEW n \in Nat
    PROVE  \E f : Recursive(f, X, c, h, n)
  <1> DEFINE S == {m \in Nat : \E f : Recursive(f, X, c, h, m)}
  <1>1. 0 \in S
    <2> DEFINE g == [k \in 0 .. 0 |-> c]
    <2>1. Recursive(g, X, c, h, 0)
      BY DEF Recursive
    <2> HIDE DEF g
    <2> QED
      BY <2>1
  <1>2. ASSUME NEW m \in Nat, m \in S
        PROVE  m + 1 \in S
    <2>1. PICK f : Recursive(f, X, c, h, m)
      BY <1>2
    <2> DEFINE g == [k \in 0 .. m + 1 |-> IF k = m + 1 THEN h[<<k, f[m]>>] ELSE f[k]]
    <2>2. g \in [0 .. m + 1 -> X]
      BY <2>1 DEF Recursive
    <2>3. g[0] = c /\ \A k \in 1 .. m + 1 : g[k] = h[<<k, g[k - 1]>>]
      BY <2>1 DEF Recursive
    <2> HIDE DEF g
    <2>4. Recursive(g, X, c, h, m + 1)
      BY <2>2, <2>3 DEF Recursive
    <2> QED
      BY <2>4
  <1> HIDE DEF S
  <1>3. n \in S
    BY <1>1, <1>2, SetInduction
  <1> QED
    BY <1>3 DEF S

\* What a function st makes of c, of that, and so on, n times.
Repeats(f, X, c, st, n) ==
    f \in [0 .. n -> X] /\ f[0] = c /\ \A m \in 1 .. n : f[m] = st[f[m - 1]]

LEMMA Repeated ==
    ASSUME NEW X, NEW c \in X, NEW st \in [X -> X], NEW n \in Nat
    PROVE  \E f : Repeats(f, X, c, st, n)
  <1> DEFINE h == [x \in Nat \X X |-> st[x[2]]]
  <1>1. h \in [Nat \X X -> X] /\ \A m \in Nat, x \in X : h[<<m, x>>] = st[x]
    OBVIOUS
  <1> HIDE DEF h
  <1>2. PICK f : Recursive(f, X, c, h, n)
    BY <1>1, Recursion
  <1>3. ASSUME NEW m \in 1 .. n
        PROVE  f[m] = st[f[m - 1]]
    <2>1. m \in Nat /\ m - 1 \in 0 .. n
      OBVIOUS
    <2> QED
      BY <1>1, <1>2, <2>1 DEF Recursive
  <1> QED
    BY <1>2, <1>3 DEF Recursive, Repeats

\* Values that stay in a set from each to the next.
LEMMA StaysIn ==
    ASSUME NEW X, NEW n \in Nat, NEW f, f[0] \in X,
           \A m \in 1 .. n : f[m - 1] \in X => f[m] \in X
    PROVE  \A m \in 0 .. n : f[m] \in X
  <1> DEFINE S == {m \in Nat : m <= n => f[m] \in X}
  <1>1. 0 \in S
    OBVIOUS
  <1>2. ASSUME NEW m \in Nat, m \in S
        PROVE  m + 1 \in S
    <2> SUFFICES ASSUME m + 1 <= n
                 PROVE  f[m + 1] \in X
      OBVIOUS
    <2>1. m + 1 \in 1 .. n /\ (m + 1) - 1 = m /\ f[m] \in X
      BY <1>2
    <2> QED
      BY <2>1
  <1> HIDE DEF S
  <1>3. \A m \in Nat : m \in S
    BY <1>1, <1>2, SetInduction
  <1> QED
    BY <1>3 DEF S

\* Values of which each, with its number, makes the next one good.
LEMMA StaysGood ==
    ASSUME NEW G, NEW n \in Nat, NEW f, <<0, f[0]>> \in G,
           \A m \in 1 .. n : <<m - 1, f[m - 1]>> \in G => <<m, f[m]>> \in G
    PROVE  \A m \in 0 .. n : <<m, f[m]>> \in G
  <1> DEFINE S == {m \in Nat : m <= n => <<m, f[m]>> \in G}
  <1>1. 0 \in S
    OBVIOUS
  <1>2. ASSUME NEW m \in Nat, m \in S
        PROVE  m + 1 \in S
    <2> SUFFICES ASSUME m + 1 <= n
                 PROVE  <<m + 1, f[m + 1]>> \in G
      OBVIOUS
    <2>1. m + 1 \in 1 .. n /\ (m + 1) - 1 = m /\ <<m, f[m]>> \in G
      BY <1>2
    <2> QED
      BY <2>1
  <1> HIDE DEF S
  <1>3. \A m \in Nat : m \in S
    BY <1>1, <1>2, SetInduction
  <1> QED
    BY <1>3 DEF S

\* Numbers that become less in each step until 0.
LEMMA Descends ==
    ASSUME NEW n \in Nat, NEW v \in [0 .. n -> Nat], v[0] <= n,
           \A m \in 1 .. n : v[m] <= v[m - 1] /\ (v[m - 1] # 0 => v[m] < v[m - 1])
    PROVE  v[n] = 0
  <1> DEFINE S == {m \in Nat : m <= n => v[m] = 0 \/ v[m] <= n - m}
  <1>1. 0 \in S
    OBVIOUS
  <1>2. ASSUME NEW m \in Nat, m \in S
        PROVE  m + 1 \in S
    <2> SUFFICES ASSUME m + 1 <= n
                 PROVE  v[m + 1] = 0 \/ v[m + 1] <= n - (m + 1)
      OBVIOUS
    <2>1. m + 1 \in 1 .. n /\ (m + 1) - 1 = m /\ m \in 0 .. n /\ m + 1 \in 0 .. n
      OBVIOUS
    <2>2. v[m] \in Nat /\ v[m + 1] \in Nat /\ (v[m] = 0 \/ v[m] <= n - m)
      BY <1>2, <2>1
    <2>3. v[m + 1] <= v[m] /\ (v[m] # 0 => v[m + 1] < v[m])
      BY <2>1
    <2> QED
      BY <2>2, <2>3
  <1> HIDE DEF S
  <1>3. \A m \in Nat : m \in S
    BY <1>1, <1>2, SetInduction
  <1>4. n \in S /\ n \in 0 .. n
    BY <1>3
  <1> QED
    BY <1>4 DEF S

-----------------------------------------------------------------------------
(* Links and where they lead *)

CONSTANTS Node, Nil, Size

Fits ==
    /\ Size \in Nat
    /\ IsFiniteSet(Node) /\ Cardinality(Node) <= Size
    /\ Nil \notin Node

Links == [Node -> Node \cup {Nil}]

\* The nodes that the links g lead through from t on, by the number of steps.
Way(g, t) ==
    LET s[k \in 0 .. Size] ==
          IF k = 0 THEN t ELSE IF s[k - 1] = Nil THEN Nil ELSE g[s[k - 1]]
    IN s

Reach(g, t) == {Way(g, t)[k] : k \in 0 .. Size} \ {Nil}

\* s are the nodes on the way.
Path(g, t, s) ==
    /\ s \in [0 .. Size -> Node \cup {Nil}]
    /\ s[0] = t
    /\ \A k \in 1 .. Size : s[k] = IF s[k - 1] = Nil THEN Nil ELSE g[s[k - 1]]

LEMMA WayPath ==
    ASSUME Fits, NEW g \in Links, NEW t \in Node \cup {Nil}
    PROVE  Path(g, t, Way(g, t))
  <1> DEFINE Step(s) == [k \in 0 .. Size |->
                            IF k = 0 THEN t ELSE IF s[k - 1] = Nil THEN Nil ELSE g[s[k - 1]]]
             X == Node \cup {Nil}
             h == [x \in Nat \X X |-> IF x[2] = Nil THEN Nil ELSE g[x[2]]]
             e == CHOOSE s : s = Step(s)
  <1>1. /\ Size \in Nat /\ t \in X
        /\ h \in [Nat \X X -> X]
    BY DEF Fits, Links
  <1>2. \A k \in Nat, x \in X : h[<<k, x>>] = IF x = Nil THEN Nil ELSE g[x]
    OBVIOUS
  <1> HIDE DEF h, X, Step, e
  <1>3. PICK f : Recursive(f, X, t, h, Size)
    BY <1>1, Recursion
  <1>4. ASSUME NEW k \in 1 .. Size
        PROVE  f[k] = IF f[k - 1] = Nil THEN Nil ELSE g[f[k - 1]]
    <2>1. k - 1 \in 0 .. Size /\ k \in Nat
      BY <1>1
    <2> QED
      BY <1>2, <1>3, <2>1 DEF Recursive
  <1> USE DEF Step, e
  <1>5. f = Step(f)
    <2>1. ASSUME NEW k \in 0 .. Size
          PROVE  f[k] = Step(f)[k]
      BY <1>1, <1>3, <1>4 DEF Recursive
    <2> QED
      BY <1>3, <2>1 DEF Recursive
  <1>6. e = Step(e)
    BY <1>5
  <1>7. Way(g, t) = e
    BY DEF Way
  <1> HIDE DEF e
  <1>8. /\ Step(e)[0] = t
        /\ \A k \in 1 .. Size : Step(e)[k] = IF e[k - 1] = Nil THEN Nil ELSE g[e[k - 1]]
    BY <1>1
  <1>9. DOMAIN Step(e) = 0 .. Size
    OBVIOUS
  <1>dom. e = [k \in 0 .. Size |-> e[k]]
    BY <1>6
  <1> HIDE DEF Step
  <1>10. /\ e[0] = t
         /\ \A k \in 1 .. Size : e[k] = IF e[k - 1] = Nil THEN Nil ELSE g[e[k - 1]]
    BY <1>6, <1>8
  <1>11. ASSUME NEW k \in 0 .. Size
         PROVE  e[k] \in X
    <2> DEFINE S == {m \in Nat : m <= Size => e[m] \in X}
    <2>1. 0 \in S
      BY <1>1, <1>10
    <2>2. ASSUME NEW m \in Nat, m \in S
          PROVE  m + 1 \in S
      <3> SUFFICES ASSUME m + 1 <= Size
                   PROVE  e[m + 1] \in X
        OBVIOUS
      <3>1. m + 1 \in 1 .. Size /\ (m + 1) - 1 = m /\ e[m] \in X
        BY <1>1, <2>2
      <3>2. e[m + 1] = IF e[m] = Nil THEN Nil ELSE g[e[m]]
        BY <1>10, <3>1
      <3> QED
        BY <3>1, <3>2 DEF Links, X
    <2> HIDE DEF S
    <2>3. k \in S
      BY <1>1, <2>1, <2>2, SetInduction
    <2> QED
      BY <1>1, <2>3 DEF S
  <1>12. e \in [0 .. Size -> X]
    BY <1>dom, <1>11
  <1>13. Path(g, t, e)
    BY <1>10, <1>12 DEF Path, X
  <1> QED
    BY <1>7, <1>13

LEMMA ReachPath ==
    ASSUME Fits, NEW g \in Links, NEW t \in Node \cup {Nil}
    PROVE  \E s : Path(g, t, s) /\ Reach(g, t) = {s[k] : k \in 0 .. Size} \ {Nil}
  BY WayPath DEF Reach

\* In L the links lead down in rank, and not out of L.
Ranked(g, L, r) ==
    /\ r \in [Node -> Nat]
    /\ \A t \in L : g[t] \in L \cup {Nil} /\ (g[t] # Nil => r[g[t]] < r[t])

\* A path of ranked links leads down, ...
LEMMA PathRank ==
    ASSUME Fits, NEW g \in Links, NEW L \in SUBSET Node, NEW r, Ranked(g, L, r),
           NEW t \in L, NEW s, Path(g, t, s)
    PROVE  /\ \A k \in 0 .. Size : s[k] \in L \cup {Nil}
           /\ \A j, k \in 0 .. Size : j < k /\ s[k] # Nil => s[j] # Nil /\ r[s[k]] < r[s[j]]
  <1>1. Size \in Nat /\ Nil \notin Node
    BY DEF Fits
  <1>2. ASSUME NEW k \in 0 .. Size
        PROVE  s[k] \in L \cup {Nil}
    <2> DEFINE S == {m \in Nat : m <= Size => s[m] \in L \cup {Nil}}
    <2>1. 0 \in S
      BY DEF Path
    <2>2. ASSUME NEW m \in Nat, m \in S
          PROVE  m + 1 \in S
      <3> SUFFICES ASSUME m + 1 <= Size
                   PROVE  s[m + 1] \in L \cup {Nil}
        OBVIOUS
      <3>1. m + 1 \in 1 .. Size /\ (m + 1) - 1 = m /\ s[m] \in L \cup {Nil}
        BY <1>1, <2>2
      <3>2. s[m + 1] = IF s[m] = Nil THEN Nil ELSE g[s[m]]
        BY <3>1 DEF Path
      <3> QED
        BY <3>1, <3>2 DEF Ranked
    <2> HIDE DEF S
    <2>3. k \in S
      BY <1>1, <2>1, <2>2, SetInduction
    <2> QED
      BY <1>1, <2>3 DEF S
  <1>3. ASSUME NEW j \in 0 .. Size, NEW k \in 0 .. Size, j < k, s[k] # Nil
        PROVE  s[j] # Nil /\ r[s[k]] < r[s[j]]
    <2> DEFINE S == {m \in Nat : j < m /\ m <= Size /\ s[m] # Nil
                                     => s[j] # Nil /\ r[s[m]] < r[s[j]]}
    <2>1. 0 \in S
      BY <1>1
    <2>2. ASSUME NEW m \in Nat, m \in S
          PROVE  m + 1 \in S
      <3> SUFFICES ASSUME j < m + 1, m + 1 <= Size, s[m + 1] # Nil
                   PROVE  s[j] # Nil /\ r[s[m + 1]] < r[s[j]]
        OBVIOUS
      <3>1. m + 1 \in 1 .. Size /\ (m + 1) - 1 = m /\ m \in 0 .. Size
        BY <1>1
      <3>2. s[m + 1] = IF s[m] = Nil THEN Nil ELSE g[s[m]]
        BY <3>1 DEF Path
      <3>3. s[m] # Nil /\ s[m] \in L /\ s[m + 1] \in L /\ r[s[m + 1]] < r[s[m]]
        BY <1>2, <3>1, <3>2 DEF Ranked
      <3>4. CASE j = m
        BY <3>3, <3>4
      <3>5. CASE j < m
        <4>1. s[j] # Nil /\ r[s[m]] < r[s[j]] /\ s[j] \in L
          BY <1>1, <1>2, <2>2, <3>3, <3>5
        <4>2. r[s[m + 1]] \in Nat /\ r[s[m]] \in Nat /\ r[s[j]] \in Nat
          BY <3>3, <4>1 DEF Ranked
        <4> QED
          BY <3>3, <4>1, <4>2
      <3> QED
        BY <1>1, <3>4, <3>5
    <2> HIDE DEF S
    <2>3. k \in S
      BY <1>1, <2>1, <2>2, SetInduction
    <2> QED
      BY <1>1, <1>3, <2>3 DEF S
  <1> QED
    BY <1>2, <1>3

\* ... and ends: it meets no node twice.
LEMMA PathEnds ==
    ASSUME Fits, NEW g \in Links, NEW L \in SUBSET Node, NEW r, Ranked(g, L, r),
           NEW t \in L, NEW s, Path(g, t, s)
    PROVE  s[Size] = Nil /\ \A k \in 0 .. Size : s[k] \in L \cup {Nil}
  <1>1. Size \in Nat /\ Nil \notin Node
    BY DEF Fits
  <1>2. \A k \in 0 .. Size : s[k] \in L \cup {Nil}
    BY PathRank
  <1>3. \A j, k \in 0 .. Size : j < k /\ s[k] # Nil => s[j] # Nil /\ r[s[k]] < r[s[j]]
    BY PathRank
  <1>4. ASSUME s[Size] # Nil
        PROVE  FALSE
    <2>1. ASSUME NEW k \in 0 .. Size
          PROVE  s[k] \in Node
      BY <1>1, <1>2, <1>3, <1>4
    <2>2. ASSUME NEW j \in 0 .. Size, NEW k \in 0 .. Size, s[j] = s[k]
          PROVE  j = k
      <3>1. r[s[j]] \in Nat /\ r[s[k]] \in Nat /\ s[j] # Nil /\ s[k] # Nil
        BY <1>1, <2>1 DEF Ranked
      <3>2. ~(j < k) /\ ~(k < j)
        BY <1>3, <2>2, <3>1
      <3> QED
        BY <1>1, <3>2
    <2>3. s \in Injection(0 .. Size, Node)
      BY <2>1, <2>2 DEF Injection, IsInjective, Path
    <2>4. IsFiniteSet(Node) /\ Cardinality(Node) <= Size /\ Cardinality(Node) \in Nat
      BY FS_CardinalityType DEF Fits
    <2>5. Cardinality(0 .. Size) = Size + 1
      BY <1>1, FS_Interval
    <2>6. Cardinality(0 .. Size) <= Cardinality(Node)
      BY <2>3, <2>4, FS_Injection
    <2> QED
      BY <1>1, <2>4, <2>5, <2>6
  <1> QED
    BY <1>2, <1>4

\* No node is reached from Nil.
LEMMA ReachNull ==
    ASSUME Fits, NEW g \in Links
    PROVE  /\ Reach(g, Nil) = {}
           /\ \A s : Path(g, Nil, s) => \A k \in 0 .. Size : s[k] = Nil
  <1>1. Size \in Nat
    BY DEF Fits
  <1>2. ASSUME NEW s, Path(g, Nil, s), NEW k \in 0 .. Size
        PROVE  s[k] = Nil
    <2> DEFINE S == {m \in Nat : m <= Size => s[m] = Nil}
    <2>1. 0 \in S
      BY <1>2 DEF Path
    <2>2. ASSUME NEW m \in Nat, m \in S
          PROVE  m + 1 \in S
      <3> SUFFICES ASSUME m + 1 <= Size
                   PROVE  s[m + 1] = Nil
        OBVIOUS
      <3>1. m + 1 \in 1 .. Size /\ (m + 1) - 1 = m /\ s[m] = Nil
        BY <1>1, <2>2
      <3> QED
        BY <1>2, <3>1 DEF Path
    <2> HIDE DEF S
    <2>3. k \in S
      BY <1>1, <2>1, <2>2, SetInduction
    <2> QED
      BY <1>1, <2>3 DEF S
  <1>3. PICK s : Path(g, Nil, s) /\ Reach(g, Nil) = {s[k] : k \in 0 .. Size} \ {Nil}
    BY ReachPath
  <1>4. Reach(g, Nil) = {}
    BY <1>2, <1>3
  <1> QED
    BY <1>2, <1>4

\* Along ranked links: a node reaches itself and what its link reaches.
LEMMA ReachStep ==
    ASSUME Fits, NEW g \in Links, NEW L \in SUBSET Node, NEW r, Ranked(g, L, r), NEW t \in L
    PROVE  Reach(g, t) = {t} \cup Reach(g, g[t])
  <1>1. Size \in Nat /\ Size >= 1 /\ Nil \notin Node /\ t \in Node
        /\ g[t] \in Node \cup {Nil} /\ g[t] \in L \cup {Nil}
    <2>1. Cardinality(Node) \in Nat /\ Cardinality(Node) # 0
      BY FS_CardinalityType, FS_EmptySet DEF Fits
    <2> QED
      BY <2>1 DEF Fits, Links, Ranked
  <1>2. PICK p : Path(g, t, p) /\ Reach(g, t) = {p[k] : k \in 0 .. Size} \ {Nil}
    BY ReachPath
  <1>3. PICK q : Path(g, g[t], q)
                 /\ Reach(g, g[t]) = {q[k] : k \in 0 .. Size} \ {Nil}
    BY <1>1, ReachPath
  <1>4. q[Size] = Nil
    <2>1. CASE g[t] = Nil
      BY <1>1, <1>3, <2>1, ReachNull
    <2>2. CASE g[t] # Nil
      BY <1>1, <1>3, <2>2, PathEnds
    <2> QED
      BY <2>1, <2>2
  <1>5. ASSUME NEW k \in 0 .. Size - 1
        PROVE  p[k + 1] = q[k]
    <2> DEFINE S == {m \in Nat : m < Size => p[m + 1] = q[m]}
    <2>1. 0 \in S
      <3>1. 1 \in 1 .. Size /\ 1 - 1 = 0 /\ 0 + 1 = 1
        BY <1>1
      <3>2. p[1] = IF p[0] = Nil THEN Nil ELSE g[p[0]]
        BY <1>2, <3>1 DEF Path
      <3> QED
        BY <1>1, <1>2, <1>3, <3>1, <3>2 DEF Path
    <2>2. ASSUME NEW m \in Nat, m \in S
          PROVE  m + 1 \in S
      <3> SUFFICES ASSUME m + 1 < Size
                   PROVE  p[(m + 1) + 1] = q[m + 1]
        OBVIOUS
      <3>1. m + 1 \in 1 .. Size /\ (m + 1) - 1 = m /\ p[m + 1] = q[m]
            /\ (m + 1) + 1 \in 1 .. Size /\ ((m + 1) + 1) - 1 = m + 1
        BY <1>1, <2>2
      <3>2. p[(m + 1) + 1] = IF p[m + 1] = Nil THEN Nil ELSE g[p[m + 1]]
        BY <1>2, <3>1 DEF Path
      <3>3. q[m + 1] = IF q[m] = Nil THEN Nil ELSE g[q[m]]
        BY <1>3, <3>1 DEF Path
      <3> QED
        BY <3>1, <3>2, <3>3
    <2> HIDE DEF S
    <2>3. k \in S
      BY <1>1, <2>1, <2>2, SetInduction
    <2> QED
      BY <1>1, <2>3 DEF S
  <1>6. ASSUME NEW x \in Reach(g, t)
        PROVE  x \in {t} \cup Reach(g, g[t])
    <2>1. PICK k \in 0 .. Size : x = p[k] /\ p[k] # Nil
      BY <1>2
    <2>2. CASE k = 0
      BY <1>2, <2>1, <2>2 DEF Path
    <2>3. CASE k # 0
      <3>1. k - 1 \in 0 .. Size - 1 /\ k - 1 \in 0 .. Size /\ (k - 1) + 1 = k
        BY <1>1, <2>3
      <3>2. x = q[k - 1]
        BY <1>5, <2>1, <3>1
      <3> QED
        BY <1>3, <2>1, <3>1, <3>2
    <2> QED
      BY <2>2, <2>3
  <1>7. t \in Reach(g, t)
    <2>1. p[0] = t /\ 0 \in 0 .. Size /\ t # Nil
      BY <1>1, <1>2 DEF Path
    <2> QED
      BY <1>2, <2>1
  <1>8. ASSUME NEW x \in Reach(g, g[t])
        PROVE  x \in Reach(g, t)
    <2>1. PICK k \in 0 .. Size : x = q[k] /\ q[k] # Nil
      BY <1>3
    <2>2. k \in 0 .. Size - 1 /\ k + 1 \in 0 .. Size
      BY <1>1, <1>4, <2>1
    <2>3. x = p[k + 1]
      BY <1>5, <2>1, <2>2
    <2> QED
      BY <1>2, <2>1, <2>2, <2>3
  <1> QED
    BY <1>6, <1>7, <1>8

\* What holds of a node if it holds of those of lower rank holds of all.
LEMMA RankInduction ==
    ASSUME NEW L \in SUBSET Node, NEW r \in [Node -> Nat], NEW S,
           \A t \in L : (\A u \in L : r[u] < r[t] => u \in S) => t \in S
    PROVE  L \subseteq S
  <1> SUFFICES ASSUME L \ S # {} PROVE FALSE
    OBVIOUS
  <1> DEFINE R == {r[t] : t \in L \ S}
  <1>1. R \in SUBSET Nat /\ R # {}
    OBVIOUS
  <1> HIDE DEF R
  <1>2. PICK x \in R : \A y \in R : x <= y
    BY <1>1, LeastNatural
  <1>3. PICK t \in L \ S : x = r[t]
    BY <1>2 DEF R
  <1>4. ASSUME NEW u \in L, r[u] < r[t]
        PROVE  u \in S
    <2>1. r[u] \in Nat /\ r[t] \in Nat
      OBVIOUS
    <2>2. ~(r[t] <= r[u])
      BY <1>4, <2>1
    <2> QED
      BY <1>2, <1>3, <2>2 DEF R
  <1> QED
    BY <1>3, <1>4

\* What is reached along ranked links: the node itself, and with each one the
\* next, within L and down to an end.
LEMMA ReachFacts ==
    ASSUME Fits, NEW g \in Links, NEW L \in SUBSET Node, NEW r, Ranked(g, L, r), NEW t \in L
    PROVE  /\ t \in Reach(g, t) /\ Reach(g, t) \subseteq L
           /\ \A u \in Reach(g, t) : g[u] # Nil => g[u] \in Reach(g, t)
           /\ \E last \in Reach(g, t) : g[last] = Nil
  <1> DEFINE Good(x) == /\ Reach(g, x) \subseteq L
                        /\ \A u \in Reach(g, x) : g[u] # Nil => g[u] \in Reach(g, x)
                        /\ \E last \in Reach(g, x) : g[last] = Nil
             S == {x \in L : Good(x)}
  <1>1. ASSUME NEW x \in L, \A u \in L : r[u] < r[x] => u \in S
        PROVE  Good(x)
    <2>1. Reach(g, x) = {x} \cup Reach(g, g[x])
      BY ReachStep
    <2>2. CASE g[x] = Nil
      BY <2>1, <2>2, ReachNull
    <2>3. CASE g[x] # Nil
      <3>1. g[x] \in L /\ r[g[x]] < r[x]
        BY <2>3 DEF Ranked
      <3>2. Good(g[x])
        BY <1>1, <3>1
      <3>3. g[x] \in Reach(g, g[x])
        BY <3>1, ReachStep
      <3> QED
        BY <2>1, <3>2, <3>3
    <2> QED
      BY <2>2, <2>3
  <1> HIDE DEF Good
  <1>2. L \subseteq S
    <2>1. r \in [Node -> Nat] /\ \A x \in L : (\A u \in L : r[u] < r[x] => u \in S) => x \in S
      BY <1>1 DEF Ranked
    <2> HIDE DEF S
    <2> QED
      BY <2>1, RankInduction
  <1>3. Good(t)
    BY <1>2
  <1>4. t \in Reach(g, t)
    BY ReachStep
  <1> QED
    BY <1>3, <1>4 DEF Good

\* Nothing else is reached: it is in every set that holds the node and with
\* each one the next.
LEMMA ReachLeast ==
    ASSUME Fits, NEW g \in Links, NEW L \in SUBSET Node, NEW r, Ranked(g, L, r), NEW t \in L,
           NEW C, t \in C, \A u \in L : u \in C /\ g[u] # Nil => g[u] \in C
    PROVE  Reach(g, t) \subseteq C
  <1> DEFINE S == {x \in L : x \in C => Reach(g, x) \subseteq C}
  <1>1. ASSUME NEW x \in L, \A u \in L : r[u] < r[x] => u \in S, x \in C
        PROVE  Reach(g, x) \subseteq C
    <2>1. Reach(g, x) = {x} \cup Reach(g, g[x])
      BY ReachStep
    <2>2. CASE g[x] = Nil
      BY <1>1, <2>1, <2>2, ReachNull
    <2>3. CASE g[x] # Nil
      <3>1. g[x] \in L /\ r[g[x]] < r[x] /\ g[x] \in C
        BY <1>1, <2>3 DEF Ranked
      <3> QED
        BY <1>1, <2>1, <3>1
    <2> QED
      BY <2>2, <2>3
  <1>2. r \in [Node -> Nat] /\ \A x \in L : (\A u \in L : r[u] < r[x] => u \in S) => x \in S
    BY <1>1 DEF Ranked
  <1> HIDE DEF S
  <1>3. L \subseteq S
    BY <1>2, RankInduction
  <1> QED
    BY <1>3 DEF S

\* Of two nodes on one chain one reaches the other.
LEMMA ReachLinear ==
    ASSUME Fits, NEW g \in Links, NEW L \in SUBSET Node, NEW r, Ranked(g, L, r), NEW t \in L,
           NEW u \in Reach(g, t), NEW v \in Reach(g, t)
    PROVE  u \in Reach(g, v) \/ v \in Reach(g, u)
  <1> DEFINE Good(x) == \A y, z \in Reach(g, x) : y \in Reach(g, z) \/ z \in Reach(g, y)
             S == {x \in L : Good(x)}
  <1>1. ASSUME NEW x \in L, \A y \in L : r[y] < r[x] => y \in S
        PROVE  Good(x)
    <2>1. Reach(g, x) = {x} \cup Reach(g, g[x])
      BY ReachStep
    <2>2. CASE g[x] = Nil
      BY <2>1, <2>2, ReachNull
    <2>3. CASE g[x] # Nil
      <3>1. Good(g[x])
        BY <1>1, <2>3 DEF Ranked
      <3> QED
        BY <2>1, <3>1
    <2> QED
      BY <2>2, <2>3
  <1> HIDE DEF Good
  <1>2. r \in [Node -> Nat] /\ \A x \in L : (\A y \in L : r[y] < r[x] => y \in S) => x \in S
    BY <1>1 DEF Ranked
  <1> HIDE DEF S
  <1>3. L \subseteq S
    BY <1>2, RankInduction
  <1> QED
    BY <1>3 DEF S, Good

\* Ranks have a bound.
LEMMA RankBound ==
    ASSUME Fits, NEW r \in [Node -> Nat]
    PROVE  \E b \in Nat : \A t \in Node : r[t] <= b
  <1>1. PICK n \in Nat : \E f : f \in Bijection(1 .. n, Node)
    BY FS_NatBijection DEF ExistsBijection, Fits
  <1>2. PICK f \in [1 .. n -> Node] : \A t \in Node : \E k \in 1 .. n : f[k] = t
    BY <1>1 DEF Bijection, Surjection, Injection, IsInjective
  <1> DEFINE Bound(b, m) == \A k \in 1 .. m : k <= n => r[f[k]] <= b
             S == {m \in Nat : \E b \in Nat : Bound(b, m)}
  <1>3. 0 \in S
    <2>1. Bound(0, 0)
      OBVIOUS
    <2> QED
      BY <2>1
  <1>4. ASSUME NEW m \in Nat, m \in S
        PROVE  m + 1 \in S
    <2>1. PICK b \in Nat : Bound(b, m)
      BY <1>4
    <2>2. CASE m + 1 <= n
      <3>1. r[f[m + 1]] \in Nat
        BY <1>2, <2>2
      <3>2. PICK d \in Nat : d >= b /\ d >= r[f[m + 1]]
        BY <3>1
      <3>3. ASSUME NEW k \in 1 .. m + 1, k <= n
            PROVE  r[f[k]] <= d
        <4>1. r[f[k]] \in Nat /\ (k = m + 1 \/ k \in 1 .. m)
          BY <1>2, <3>3
        <4> QED
          BY <2>1, <3>2, <3>3, <4>1
      <3>4. Bound(d, m + 1)
        BY <3>3
      <3> QED
        BY <3>4
    <2>3. CASE ~(m + 1 <= n)
      <3>1. Bound(b, m + 1)
        BY <2>1, <2>3
      <3> QED
        BY <3>1
    <2> QED
      BY <2>2, <2>3
  <1> HIDE DEF S
  <1>5. \A m \in Nat : m \in S
    BY <1>3, <1>4, SetInduction
  <1>6. n \in S
    BY <1>5
  <1> QED
    BY <1>2, <1>6 DEF S

-----------------------------------------------------------------------------
(* Lists *)

\* The nodes of S are a list linked by g, from head to the node, or Nil, that
\* follows the last one.
Listed(g, S, head, end) ==
    /\ \A e \in S : g[e] \in S \cup {end} /\ g[e] # head
    /\ \A e \in S : e = head \/ \E f \in S : g[f] = e
    /\ \A e, f \in S : g[e] = g[f] => e = f

\* What holds of the head and with each node of the next one holds of all.
LEMMA ListInduction ==
    ASSUME Fits, NEW g \in Links, NEW L \in SUBSET Node, NEW r, Ranked(g, L, r),
           NEW S \in SUBSET L, NEW head, NEW end, Listed(g, S, head, end),
           NEW C, head \in S => head \in C, \A e \in S : e \in C /\ g[e] \in S => g[e] \in C
    PROVE  S \subseteq C
  <1>1. r \in [Node -> Nat] /\ Nil \notin Node
    BY DEF Ranked, Fits
  <1>2. PICK b \in Nat : \A t \in Node : r[t] <= b
    BY <1>1, RankBound
  <1> DEFINE back == [t \in Node |-> b - r[t]]
  <1>3. back \in [Node -> Nat]
    BY <1>1, <1>2
  <1>4. ASSUME NEW e \in S, \A f \in S : back[f] < back[e] => f \in C
        PROVE  e \in C
    <2>1. CASE e = head
      BY <2>1
    <2>2. ASSUME NEW f \in S, g[f] = e
          PROVE  e \in C
      <3>1. f \in L /\ e \in L /\ e # Nil /\ f \in Node /\ e \in Node
        BY <1>1
      <3>2. r[e] < r[f] /\ r[e] \in Nat /\ r[f] \in Nat /\ r[e] <= b /\ r[f] <= b
        BY <1>1, <1>2, <2>2, <3>1 DEF Ranked
      <3>3. back[f] < back[e]
        BY <3>1, <3>2
      <3>4. f \in C
        BY <1>4, <3>3
      <3> QED
        BY <2>2, <3>4
    <2> QED
      BY <2>1, <2>2 DEF Listed
  <1> HIDE DEF back
  <1>5. S \in SUBSET Node
    OBVIOUS
  <1> QED
    BY <1>3, <1>4, <1>5, RankInduction

\* A list that ends is what is reached from its head.
LEMMA ListedReach ==
    ASSUME Fits, NEW g \in Links, NEW L \in SUBSET Node, NEW r, Ranked(g, L, r),
           NEW S \in SUBSET L, NEW head, IF head = Nil THEN S = {} ELSE head \in S,
           Listed(g, S, head, Nil)
    PROVE  Reach(g, head) = S
  <1>1. CASE head = Nil
    BY <1>1, ReachNull
  <1>2. CASE head # Nil
    <2>1. Reach(g, head) \subseteq S
      <3>1. \A u \in L : u \in S /\ g[u] # Nil => g[u] \in S
        BY DEF Listed
      <3> QED
        BY <1>2, <3>1, ReachLeast
    <2>2. head \in Reach(g, head)
          /\ \A u \in Reach(g, head) : g[u] # Nil => g[u] \in Reach(g, head)
      BY <1>2, ReachFacts
    <2>3. \A e \in S : e \in Reach(g, head) /\ g[e] \in S => g[e] \in Reach(g, head)
      BY <2>2 DEF Fits
    <2>4. S \subseteq Reach(g, head)
      BY <2>2, <2>3, ListInduction
    <2> QED
      BY <2>1, <2>4
  <1> QED
    BY <1>1, <1>2

\* The part of a list from a node m on, and the part before it, are lists.
LEMMA ListedSplit ==
    ASSUME Fits, NEW g \in Links, NEW L \in SUBSET Node, NEW r, Ranked(g, L, r),
           NEW S \in SUBSET L, NEW head \in S, Listed(g, S, head, Nil),
           NEW m \in (S \ {head}) \cup {Nil}
    PROVE  /\ Reach(g, m) \subseteq S \ {head}
           /\ IF m = Nil THEN Reach(g, m) = {} ELSE m \in Reach(g, m)
           /\ Listed(g, Reach(g, m), m, Nil)
           /\ Listed(g, S \ Reach(g, m), head, m)
  <1>1. CASE m = Nil
    BY <1>1, ReachNull DEF Listed
  <1>2. CASE m # Nil
    <2> DEFINE R == Reach(g, m)
    <2>1. m \in S /\ m # head /\ m \in L
      BY <1>2
    <2>2. m \in R /\ R \subseteq L /\ \A u \in R : g[u] # Nil => g[u] \in R
      BY <2>1, ReachFacts
    <2>3. R = {m} \cup Reach(g, g[m])
      BY <2>1, ReachStep
    <2>4. R \subseteq S \ {head}
      <3> DEFINE T == S \ {head}
      <3>1. \A u \in L : u \in T /\ g[u] # Nil => g[u] \in T
        BY DEF Listed
      <3>2. m \in T
        BY <2>1
      <3> HIDE DEF T
      <3>3. R \subseteq T
        BY <2>1, <3>1, <3>2, ReachLeast
      <3> QED
        BY <3>3 DEF T
    <2>5. \A u \in R : g[u] # m
      <3> SUFFICES ASSUME NEW u \in R PROVE u = m \/ r[u] < r[m]
        BY <2>2, <2>4 DEF Ranked, Fits
      <3> DEFINE C == {x \in L : x = m \/ r[x] < r[m]}
      <3>1. ASSUME NEW x \in L, x \in C, g[x] # Nil
            PROVE  g[x] \in C
        BY <2>1, <3>1 DEF Ranked
      <3>2. R \subseteq C
        <4>1. m \in C
          BY <2>1
        <4> HIDE DEF C
        <4> QED
          BY <2>1, <3>1, <4>1, ReachLeast
      <3> QED
        BY <3>2
    <2>6. ASSUME NEW e \in S \ R
          PROVE  g[e] \in (S \ R) \cup {m}
      <3>1. ASSUME g[e] # Nil, g[e] \in R, g[e] # m
            PROVE  FALSE
        <4>1. PICK f \in R : g[f] = g[e]
          <5>1. R \subseteq {m} \cup {x \in S : \E f \in R : g[f] = x}
            <6> DEFINE E == {m} \cup {x \in S : \E f \in R : g[f] = x}
            <6>1. \A x \in R : g[x] # Nil => g[x] \in E
              BY <2>2, <2>4
            <6>2. m \in R \cap E /\ \A x \in L : x \in R \cap E /\ g[x] # Nil => g[x] \in R \cap E
              BY <2>2, <6>1
            <6> HIDE DEF E
            <6>3. Reach(g, m) \subseteq R \cap E
              <7> HIDE DEF R
              <7> QED
                BY <2>1, <6>2, ReachLeast
            <6> QED
              BY <6>3 DEF E
          <5> QED
            BY <3>1, <5>1
        <4>2. f = e
          BY <2>4, <4>1 DEF Listed
        <4> QED
          BY <4>1, <4>2
      <3>2. g[e] # Nil
        <4> SUFFICES ASSUME g[e] = Nil PROVE FALSE
          OBVIOUS
        <4>1. PICK last \in R : g[last] = Nil
          BY <2>1, ReachFacts
        <4> QED
          BY <2>4, <4>1 DEF Listed
      <3> QED
        BY <3>1, <3>2 DEF Listed
    <2>7. Listed(g, R, m, Nil)
      <3>1. ASSUME NEW e \in R
            PROVE  e = m \/ \E f \in R : g[f] = e
        <4>1. CASE e = m
          BY <4>1
        <4>2. CASE e # m
          <5>1. PICK f \in S : g[f] = e
            BY <2>4 DEF Listed
          <5>2. f \in R
            BY <2>6, <4>2, <5>1
          <5> QED
            BY <5>1, <5>2
        <4> QED
          BY <4>1, <4>2
      <3> QED
        BY <2>2, <2>4, <2>5, <3>1 DEF Listed
    <2>8. Listed(g, S \ R, head, m)
      <3>1. ASSUME NEW e \in S \ R
            PROVE  e = head \/ \E f \in S \ R : g[f] = e
        BY <2>2, <2>4, <3>1 DEF Listed, Fits
      <3> QED
        BY <2>6, <3>1 DEF Listed
    <2> QED
      BY <1>2, <2>2, <2>4, <2>7, <2>8
  <1> QED
    BY <1>1, <1>2

\* Without its head a list is one.
LEMMA ListedPop ==
    ASSUME Fits, NEW g \in Links, NEW L \in SUBSET Node, NEW r, Ranked(g, L, r),
           NEW S \in SUBSET L, NEW head \in S, NEW end, end \notin S, Listed(g, S, head, end)
    PROVE  /\ Listed(g, S \ {head}, g[head], end)
           /\ IF g[head] = end THEN S \ {head} = {} ELSE g[head] \in S \ {head}
  <1>1. CASE g[head] = end
    <2> DEFINE C == {head}
    <2>1. S \subseteq C
      <3>1. \A e \in S : e \in C /\ g[e] \in S => g[e] \in C
        BY <1>1
      <3>2. head \in C
        OBVIOUS
      <3> HIDE DEF C
      <3> QED
        BY <3>1, <3>2, ListInduction
    <2> QED
      BY <1>1, <2>1 DEF Listed
  <1>2. CASE g[head] # end
    BY <1>2 DEF Listed
  <1> QED
    BY <1>1, <1>2

\* A new head, and a new node behind another one, leave a list.
LEMMA ListedPush ==
    ASSUME NEW g \in Links, NEW S \in SUBSET Node, NEW head, Listed(g, S, head, Nil),
           IF head = Nil THEN S = {} ELSE head \in S,
           NEW e \in Node \ S, Nil \notin Node
    PROVE  Listed([g EXCEPT ![e] = head], S \cup {e}, e, Nil)
  BY DEF Listed, Links

LEMMA ListedInsert ==
    ASSUME NEW g \in Links, NEW S \in SUBSET Node, NEW head \in S, Listed(g, S, head, Nil),
           NEW before \in S, NEW e \in Node \ S, Nil \notin Node
    PROVE  Listed([g EXCEPT ![before] = e, ![e] = g[before]], S \cup {e}, head, Nil)
  <1> DEFINE h == [g EXCEPT ![before] = e, ![e] = g[before]]
  <1>1. /\ h[before] = e /\ h[e] = g[before] /\ before # e
        /\ \A f \in S : f # before => h[f] = g[f]
    BY DEF Links
  <1> HIDE DEF h
  <1>2. ASSUME NEW f \in S \cup {e}
        PROVE  /\ h[f] \in (S \cup {e}) \cup {Nil} /\ h[f] # head
               /\ f = head \/ \E x \in S \cup {e} : h[x] = f
    BY <1>1 DEF Listed
  <1>3. ASSUME NEW f \in S \cup {e}, NEW x \in S \cup {e}, h[f] = h[x]
        PROVE  f = x
    BY <1>1, <1>3 DEF Listed
  <1>4. Listed(h, S \cup {e}, head, Nil)
    BY <1>2, <1>3 DEF Listed
  <1> QED
    BY <1>4 DEF h

\* A link past a node takes it out.
LEMMA ListedUnlink ==
    ASSUME Fits, NEW g \in Links, NEW S \in SUBSET Node, NEW r, Ranked(g, S, r),
           NEW head \in S, Listed(g, S, head, Nil), NEW e \in S \ {head},
           NEW h, \A x \in S : h[x] = IF g[x] = e THEN g[e] ELSE g[x]
    PROVE  Listed(h, S \ {e}, head, Nil) /\ Ranked(h, S \ {e}, r)
  <1>1. Nil \notin Node /\ r \in [Node -> Nat] /\ g[e] # e
    BY DEF Fits, Ranked
  <1>2. PICK b \in S : g[b] = e
    BY DEF Listed
  <1>3. ASSUME NEW x \in S \ {e}
        PROVE  h[x] \in (S \ {e}) \cup {Nil} /\ h[x] # head /\ (h[x] # Nil => r[h[x]] < r[x])
    <2>1. CASE g[x] = e
      <3>1. h[x] = g[e] /\ e # Nil /\ r[e] < r[x] /\ r[e] \in Nat /\ r[x] \in Nat
        BY <1>1, <2>1 DEF Ranked
      <3>2. g[e] # Nil => r[g[e]] < r[e] /\ r[g[e]] \in Nat
        BY <1>1 DEF Ranked
      <3> QED
        BY <1>1, <3>1, <3>2 DEF Listed
    <2>2. CASE g[x] # e
      BY <2>2 DEF Listed, Ranked
    <2> QED
      BY <2>1, <2>2
  <1>4. ASSUME NEW y \in S \ {e}
        PROVE  y = head \/ \E x \in S \ {e} : h[x] = y
    <2>1. ASSUME NEW x \in S, g[x] = y
          PROVE  \E z \in S \ {e} : h[z] = y
      BY <1>1, <1>2, <2>1
    <2> QED
      BY <2>1 DEF Listed
  <1>5. ASSUME NEW x \in S \ {e}, NEW y \in S \ {e}, h[x] = h[y]
        PROVE  x = y
    BY <1>5 DEF Listed
  <1> QED
    BY <1>1, <1>3, <1>4, <1>5 DEF Listed, Ranked

\* A new node that leads to any of the others has a rank.
LEMMA RankedPush ==
    ASSUME Fits, NEW g \in Links, NEW L \in SUBSET Node, NEW r, Ranked(g, L, r),
           NEW e \in Node \ L, NEW n \in L \cup {Nil}
    PROVE  \E s : Ranked([g EXCEPT ![e] = n], L \cup {e}, s)
  <1>1. r \in [Node -> Nat] /\ Nil \notin Node
    BY DEF Ranked, Fits
  <1>2. PICK b \in Nat : \A t \in Node : r[t] <= b
    BY <1>1, RankBound
  <1> DEFINE s == [r EXCEPT ![e] = b + 1]
             h == [g EXCEPT ![e] = n]
  <1>3. s \in [Node -> Nat] /\ s[e] = b + 1 /\ \A t \in L : s[t] = r[t] /\ r[t] \in Nat
    BY <1>1
  <1>4. h[e] = n /\ \A t \in L : h[t] = g[t]
    BY DEF Links
  <1> HIDE DEF s, h
  <1>5. ASSUME NEW t \in L
        PROVE  h[t] \in (L \cup {e}) \cup {Nil} /\ (h[t] # Nil => s[h[t]] < s[t])
    <2>1. g[t] \in L \cup {Nil} /\ (g[t] # Nil => r[g[t]] < r[t])
      BY DEF Ranked
    <2> QED
      BY <1>3, <1>4, <2>1
  <1>6. n # Nil => s[n] < s[e]
    <2>1. n # Nil => s[n] = r[n] /\ r[n] \in Nat /\ r[n] <= b
      BY <1>2, <1>3
    <2> QED
      BY <1>3, <2>1
  <1>7. Ranked(h, L \cup {e}, s)
    BY <1>3, <1>4, <1>5, <1>6 DEF Ranked
  <1> QED
    BY <1>7 DEF h

\* Only the links of its own nodes matter to a list.
LEMMA ListedSame ==
    ASSUME NEW g, NEW h, NEW S, NEW head, NEW end, Listed(g, S, head, end),
           \A e \in S : h[e] = g[e]
    PROVE  Listed(h, S, head, end)
  BY DEF Listed
=============================================================================
