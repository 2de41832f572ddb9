---------------------------- MODULE SimpedProofs ----------------------------
(***************************************************************************)
(* For any file, any sequence of keys, any size of the window and any      *)
(* number of lines: the doubly linked list of simped stays one chain, the  *)
(* cursor stays on it and on the screen, the modified flag and the two     *)
(* ways to quit lose nothing, and every key does to the text what the      *)
(* abstract TextBuffer says.                                               *)
(*                                                                         *)
(* The inductive invariant is about a sequence s of nodes, the list as it  *)
(* is drawn on paper: each node is in it once, next leads from each of its *)
(* elements to the following one and prev back.  Such a sequence is the    *)
(* Chain that starts at the head, and splitting and merging lines insert   *)
(* an element of it and take one out.                                      *)
(***************************************************************************)
EXTENDS Simped, FiniteSetTheorems, SequenceTheorems, WellFoundedInduction, TLAPS

-----------------------------------------------------------------------------
\* Induction and recursion on the naturals, as facts about sets and functions.

\* A set of naturals that is not empty has a least element.
LEMMA LeastNat ==
    ASSUME NEW T, T \subseteq Nat, T # {}
    PROVE  \E n \in T : \A m \in T : n <= m
<1> DEFINE R == {ss \in Nat \X Nat : ss[1] < ss[2]}
<1>1. IsWellFoundedOn(R, Nat)
  BY NatLessThanWellFounded DEF OpToRel
<1>2. PICK n \in T : \A m \in T : ~ (<<m, n>> \in R)
  <2> HIDE DEF R
  <2> QED BY <1>1, WFMin
<1>3. ASSUME NEW m \in T, m < n PROVE FALSE
  <2> DEFINE p == <<m, n>>
  <2>1. p[1] < p[2]
    BY <1>3
  <2>2. p \in Nat \X Nat
    OBVIOUS
  <2>3. p \in R
    BY <2>1, <2>2, Zenon
  <2> QED
    BY <2>3, <1>2
<1> QED
  BY <1>3

\* A set that holds 0 and the successor of each natural it holds has them all.
LEMMA SetInduction ==
    ASSUME NEW S, 0 \in S, \A n \in Nat : n \in S => n + 1 \in S
    PROVE  Nat \subseteq S
<1> DEFINE T == {n \in Nat : n \notin S}
<1> SUFFICES ASSUME T # {} PROVE FALSE
  OBVIOUS
<1>1. PICK n \in T : \A m \in T : n <= m
  BY LeastNat
<1>2. n # 0 /\ n - 1 \in Nat /\ n - 1 \notin T
  BY <1>1
<1> QED
  BY <1>2

\* g starts at a and goes on by G, which takes the index and the value to the
\* next value.
Recursive(g, V, a, G) ==
    /\ g \in [Nat -> V]
    /\ g[0] = a
    /\ \A n \in Nat : g[n + 1] = G[n][g[n]]

\* A recursive definition on the naturals has a solution.
LEMMA Recursion ==
    ASSUME NEW V, NEW a \in V, NEW G \in [Nat -> [V -> V]]
    PROVE  \E g : Recursive(g, V, a, G)
<1> DEFINE Upto(n, h) == /\ h \in [0..n -> V] /\ h[0] = a
                         /\ \A i \in 0..(n - 1) : h[i + 1] = G[i][h[i]]
           Done == {n \in Nat : \E h : Upto(n, h)}
<1>1. 0 \in Done
  <2>1. Upto(0, [i \in 0..0 |-> a])
    OBVIOUS
  <2> QED
    BY <2>1
<1>2. ASSUME NEW n \in Nat, n \in Done PROVE n + 1 \in Done
  <2>1. PICK h : Upto(n, h)
    BY <1>2
  <2> DEFINE k == [i \in 0..(n + 1) |-> IF i <= n THEN h[i] ELSE G[n][h[n]]]
  <2>2. h[n] \in V
    BY <2>1
  <2>3. k \in [0..(n + 1) -> V]
    BY <2>1, <2>2
  <2>4. k[0] = a
    BY <2>1
  <2>5. ASSUME NEW i \in 0..n PROVE k[i + 1] = G[i][k[i]]
    <3>1. CASE i = n
      <4>1. k[n] = h[n] /\ k[n + 1] = G[n][h[n]]
        OBVIOUS
      <4> HIDE DEF k
      <4> QED
        BY <3>1, <4>1
    <3>2. CASE i # n
      <4>1. i \in 0..(n - 1) /\ i \in 0..(n + 1) /\ i + 1 \in 0..(n + 1)
        BY <3>2
      <4>2. k[i] = h[i] /\ k[i + 1] = h[i + 1]
        BY <4>1
      <4> HIDE DEF k
      <4> QED
        BY <4>1, <4>2, <2>1
    <3> QED
      BY <3>1, <3>2
  <2>6. Upto(n + 1, k)
    <3> HIDE DEF k
    <3> QED
      BY <2>3, <2>4, <2>5
  <2> HIDE DEF k, Upto
  <2> QED
    BY <2>6
<1>3. \A n \in Nat : n \in Done
  <2> HIDE DEF Done
  <2> QED
    BY <1>1, <1>2, SetInduction
<1>4. ASSUME NEW n \in Nat, NEW m \in Nat, NEW h, NEW k, Upto(n, h), Upto(m, k)
      PROVE  \A i \in 0..n : i <= m => h[i] = k[i]
  <2> DEFINE S == {i \in Nat : i <= n /\ i <= m => h[i] = k[i]}
  <2>1. 0 \in S
    BY <1>4
  <2>2. ASSUME NEW i \in Nat, i \in S PROVE i + 1 \in S
    <3> SUFFICES ASSUME i + 1 <= n, i + 1 <= m PROVE h[i + 1] = k[i + 1]
      OBVIOUS
    <3>1. i \in 0..(n - 1) /\ i \in 0..(m - 1)
      OBVIOUS
    <3>2. h[i + 1] = G[i][h[i]] /\ k[i + 1] = G[i][k[i]]
      BY <3>1, <1>4
    <3> QED
      BY <2>2, <3>1, <3>2
  <2>3. Nat \subseteq S
    <3> HIDE DEF S
    <3> QED
      BY <2>1, <2>2, SetInduction
  <2> QED
    BY <2>3
<1> DEFINE H(n) == CHOOSE h : Upto(n, h)
           g == [n \in Nat |-> H(n)[n]]
<1>5. \A n \in Nat : Upto(n, H(n))
  <2> HIDE DEF Upto
  <2> QED
    BY <1>3
<1>6. \A n \in Nat : H(n)[n] \in V
  <2> SUFFICES ASSUME NEW n \in Nat PROVE H(n)[n] \in V
    OBVIOUS
  <2>1. Upto(n, H(n))
    BY <1>5
  <2> HIDE DEF H
  <2> QED
    BY <2>1
<1>7. H(0)[0] = a
  <2>1. Upto(0, H(0))
    BY <1>5
  <2> HIDE DEF H
  <2> QED
    BY <2>1
<1>8. ASSUME NEW n \in Nat PROVE H(n + 1)[n + 1] = G[n][H(n)[n]]
  <2>1. Upto(n, H(n)) /\ Upto(n + 1, H(n + 1))
    <3> HIDE DEF Upto, H
    <3> QED
      BY <1>5
  <2> HIDE DEF H
  <2>2. H(n)[n] = H(n + 1)[n]
    <3> HIDE DEF Upto
    <3> QED
      BY <2>1, <1>4
  <2> QED
    BY <2>1, <2>2
<1> HIDE DEF H
<1>9. g \in [Nat -> V] /\ g[0] = a /\ \A n \in Nat : g[n + 1] = G[n][g[n]]
  BY <1>6, <1>7, <1>8
<1> QED
  BY <1>9 DEF Recursive

-----------------------------------------------------------------------------
\* The list.

\* s is the list of n nodes that the fields next and prev of the nodes in use
\* make up.
IsList(s, n, nx, pv, us) ==
    /\ n \in Nat \ {0}
    /\ us \subseteq Node /\ Cardinality(us) = n
    /\ nx \in [Node -> Node \cup {NULL}]
    /\ pv \in [Node -> Node \cup {NULL}]
    /\ s \in [1..n -> us]
    /\ \A i, j \in 1..n : s[i] = s[j] => i = j
    /\ \A k \in us : \E i \in 1..n : s[i] = k
    /\ s[1] = lines
    /\ \A i \in 1..n : nx[s[i]] = IF i < n THEN s[i + 1] ELSE NULL
    /\ \A i \in 1..n : pv[s[i]] = IF i > 1 THEN s[i - 1] ELSE NULL

LEMMA Nodes == NULL \notin Node /\ Node \subseteq Nat /\ lines \in Node /\ IsFiniteSet(Node)
BY NodeAssumption, FS_Interval DEF Node, NULL, lines

\* The chain of a next field is what its definition says.
LEMMA ChainSteps ==
    ASSUME NEW nx \in [Node -> Node \cup {NULL}]
    PROVE  \A i \in Nat : ChainOf(nx)[i] =
               IF i <= 1 THEN lines
               ELSE IF ChainOf(nx)[i - 1] = NULL THEN NULL ELSE nx[ChainOf(nx)[i - 1]]
<1> DEFINE V == Node \cup {NULL}
           Following(n, v) == IF n = 0 THEN lines ELSE IF v = NULL THEN NULL ELSE nx[v]
           G == [n \in Nat |-> [v \in V |-> Following(n, v)]]
<1>1. lines \in V /\ G \in [Nat -> [V -> V]]
  BY Nodes
<1>2. PICK g \in [Nat -> V] : g[0] = lines /\ \A n \in Nat : g[n + 1] = G[n][g[n]]
  <2> HIDE DEF G, V
  <2>1. PICK g : Recursive(g, V, lines, G)
    BY <1>1, Recursion
  <2> QED
    BY <2>1 DEF Recursive
<1>3. \A n \in Nat : g[n + 1] = Following(n, g[n])
  <2> HIDE DEF Following
  <2> QED
    BY <1>2
<1>4. \A i \in Nat : g[i] = IF i <= 1 THEN lines
                            ELSE IF g[i - 1] = NULL THEN NULL ELSE nx[g[i - 1]]
  <2> SUFFICES ASSUME NEW i \in Nat
               PROVE  g[i] = IF i <= 1 THEN lines
                             ELSE IF g[i - 1] = NULL THEN NULL ELSE nx[g[i - 1]]
    OBVIOUS
  <2>1. CASE i = 0
    BY <2>1, <1>2
  <2>2. CASE i # 0
    <3>1. i - 1 \in Nat /\ (i - 1) + 1 = i
      BY <2>2
    <3>2. g[i] = Following(i - 1, g[i - 1])
      <4> HIDE DEF Following
      <4> QED
        BY <3>1, <1>3
    <3> QED
      BY <3>1, <3>2
  <2> QED
    BY <2>1, <2>2
<1>5. g = [i \in Nat |-> IF i <= 1 THEN lines
                        ELSE IF g[i - 1] = NULL THEN NULL ELSE nx[g[i - 1]]]
  BY <1>2, <1>4
<1>6. ChainOf(nx) = [i \in Nat |->
                       IF i <= 1 THEN lines
                       ELSE IF ChainOf(nx)[i - 1] = NULL THEN NULL
                       ELSE nx[ChainOf(nx)[i - 1]]]
  BY <1>5, Zenon DEF ChainOf
<1> HIDE DEF V
<1> QED
  BY <1>6

\* A list is the chain of its next field, and the chain ends behind it.
LEMMA ListIsChain ==
    ASSUME NEW s, NEW n, NEW nx, NEW pv, NEW us, IsList(s, n, nx, pv, us)
    PROVE  /\ \A i \in 1..n : ChainOf(nx)[i] = s[i]
           /\ ChainOf(nx)[n + 1] = NULL
<1> DEFINE c == ChainOf(nx)
           S == {i \in Nat : i + 1 <= n => c[i + 1] = s[i + 1]}
<1>1. \A i \in Nat : c[i] = IF i <= 1 THEN lines
                            ELSE IF c[i - 1] = NULL THEN NULL ELSE nx[c[i - 1]]
  BY ChainSteps DEF IsList
<1> HIDE DEF c
<1>2. \A i \in 1..n : s[i] \in Node /\ s[i] # NULL
  BY Nodes, ZenonT(60) DEF IsList
<1>3. n \in Nat /\ s[1] = lines
  BY DEF IsList
<1>4. 0 \in S
  BY <1>1, <1>3
<1>5. ASSUME NEW i \in Nat, i \in S PROVE i + 1 \in S
  <2> SUFFICES ASSUME (i + 1) + 1 <= n PROVE c[(i + 1) + 1] = s[(i + 1) + 1]
    OBVIOUS
  <2>1. i + 1 \in 1..n /\ i + 1 < n /\ c[i + 1] = s[i + 1]
    BY <1>3, <1>5
  <2>2. c[(i + 1) + 1] = nx[s[i + 1]]
    BY <2>1, <1>1, <1>2
  <2> QED
    BY <2>1, <2>2 DEF IsList
<1>6. Nat \subseteq S
  <2> HIDE DEF S
  <2> QED
    BY <1>4, <1>5, SetInduction
<1>7. \A i \in 1..n : c[i] = s[i]
  <2> SUFFICES ASSUME NEW i \in 1..n PROVE c[i] = s[i]
    OBVIOUS
  <2>1. i - 1 \in S /\ (i - 1) + 1 = i
    BY <1>3, <1>6
  <2> QED
    BY <2>1, <1>3
<1>8. c[n + 1] = NULL
  <2>1. n \in 1..n /\ n + 1 \in Nat /\ ~ (n + 1 <= 1) /\ (n + 1) - 1 = n
    BY DEF IsList
  <2>2. c[n + 1] = nx[s[n]]
    BY <2>1, <1>1, <1>2, <1>7
  <2> QED
    BY <2>1, <2>2 DEF IsList
<1> QED
  BY <1>7, <1>8 DEF c

\* A node inserted behind the r-th of a list of n, and the r-th node taken out.
Inserted(s, n, r, new) == [i \in 1..(n + 1) |-> IF i <= r THEN s[i]
                                               ELSE IF i = r + 1 THEN new ELSE s[i - 1]]
Removed(s, n, r) == [i \in 1..(n - 1) |-> IF i < r THEN s[i] ELSE s[i + 1]]

\* What splitLine() makes of the fields when it links the node new in behind
\* line, and mergeLines() when it unlinks the node cur behind line.
NextLinked(nx, line, new) == [nx EXCEPT ![new] = nx[line], ![line] = new]
PrevLinked(nx, pv, line, new) ==
    [k \in Node |-> IF k = new THEN line ELSE IF k = nx[line] THEN new ELSE pv[k]]
NextUnlinked(nx, line, cur) == [nx EXCEPT ![line] = nx[cur], ![cur] = NULL]
PrevUnlinked(nx, pv, line, cur) ==
    [k \in Node |-> IF k = cur THEN NULL ELSE IF k = nx[cur] THEN line ELSE pv[k]]

\* Linking a node in behind the r-th one inserts it into the list.
LEMMA ListInsert ==
    ASSUME NEW s, NEW n, NEW nx, NEW pv, NEW us, IsList(s, n, nx, pv, us),
           NEW r \in 1..n, NEW new \in Node \ us
    PROVE  IsList(Inserted(s, n, r, new), n + 1, NextLinked(nx, s[r], new),
                  PrevLinked(nx, pv, s[r], new), us \cup {new})
<1> DEFINE s2 == [i \in 1..(n + 1) |-> IF i <= r THEN s[i]
                                      ELSE IF i = r + 1 THEN new ELSE s[i - 1]]
           nx2 == [nx EXCEPT ![new] = nx[s[r]], ![s[r]] = new]
           pv2 == [k \in Node |-> IF k = new THEN s[r]
                                 ELSE IF k = nx[s[r]] THEN new ELSE pv[k]]
<1>1. /\ n \in Nat \ {0} /\ us \subseteq Node /\ s \in [1..n -> us]
      /\ nx \in [Node -> Node \cup {NULL}] /\ pv \in [Node -> Node \cup {NULL}]
      /\ \A i, j \in 1..n : s[i] = s[j] => i = j
  BY DEF IsList
<1>2. \A i \in 1..(n + 1) : /\ i <= r => i \in 1..n /\ s2[i] = s[i]
                            /\ i = r + 1 => s2[i] = new
                            /\ i > r + 1 => i - 1 \in 1..n /\ s2[i] = s[i - 1]
                            /\ i <= r \/ i = r + 1 \/ i > r + 1
  BY <1>1
<1>3. \A i \in 1..n : s[i] \in us /\ s[i] \in Node /\ s[i] # new /\ s[i] # NULL
  <2>1. ASSUME NEW i \in 1..n PROVE s[i] \in us
    BY <1>1
  <2>2. \A k \in us : k \in Node /\ k # new /\ k # NULL
    BY <1>1, Nodes, Zenon
  <2> QED
    BY <2>1, <2>2
<1>4. Cardinality(us \cup {new}) = n + 1
  <2>1. IsFiniteSet(us)
    BY <1>1, Nodes, FS_Subset
  <2> QED
    BY <2>1, FS_AddElement DEF IsList
<1>5. nx2 \in [Node -> Node \cup {NULL}] /\ pv2 \in [Node -> Node \cup {NULL}]
  BY <1>1, <1>3
<1>6. s2 \in [1..(n + 1) -> us \cup {new}]
  BY <1>1, <1>2, <1>3
<1>7. /\ \A k \in Node : k # new /\ k # s[r] => nx2[k] = nx[k]
      /\ nx2[new] = nx[s[r]] /\ nx2[s[r]] = new
  BY <1>1, <1>3
<1>8. /\ \A k \in Node : k # new /\ k # nx[s[r]] => pv2[k] = pv[k]
      /\ pv2[new] = s[r]
      /\ r < n => pv2[s[r + 1]] = new
  BY <1>1, <1>3 DEF IsList
<1> HIDE DEF s2, nx2, pv2
<1>9. \A i, j \in 1..(n + 1) : s2[i] = s2[j] => i = j
  BY <1>1, <1>2, <1>3
<1>10. \A k \in us \cup {new} : \E i \in 1..(n + 1) : s2[i] = k
  <2>1. CASE r + 1 \in 1..(n + 1) /\ s2[r + 1] = new
    <3>1. ASSUME NEW k \in us PROVE \E i \in 1..(n + 1) : s2[i] = k
      <4>1. PICK i \in 1..n : s[i] = k
        BY DEF IsList
      <4>2. CASE i <= r
        BY <4>1, <4>2, <1>1, <1>2
      <4>3. CASE i > r
        <5>1. i + 1 \in 1..(n + 1) /\ i + 1 > r + 1 /\ (i + 1) - 1 = i
          BY <4>3, <1>1
        <5>2. s2[i + 1] = k
          BY <5>1, <4>1, <1>2
        <5> QED
          BY <5>1, <5>2
      <4> QED
        BY <4>2, <4>3
    <3> QED
      BY <2>1, <3>1
  <2> QED
    BY <2>1, <1>1, <1>2
<1>11. s2[1] = lines
  BY <1>1, <1>2 DEF IsList
<1>12. \A i \in 1..(n + 1) : nx2[s2[i]] = IF i < n + 1 THEN s2[i + 1] ELSE NULL
  <2> SUFFICES ASSUME NEW i \in 1..(n + 1)
               PROVE  nx2[s2[i]] = IF i < n + 1 THEN s2[i + 1] ELSE NULL
    OBVIOUS
  <2>1. CASE i < r
    <3>1. i \in 1..n /\ i < n /\ i + 1 \in 1..(n + 1) /\ i + 1 <= r /\ s[i] # s[r]
      BY <2>1, <1>1
    <3>2. s2[i] = s[i] /\ s2[i + 1] = s[i + 1] /\ nx2[s[i]] = nx[s[i]]
      BY <3>1, <2>1, <1>2, <1>3, <1>7
    <3> QED
      BY <3>1, <3>2, <1>1 DEF IsList
  <2>2. CASE i = r
    BY <2>2, <1>1, <1>2, <1>7
  <2>3. CASE i = r + 1
    <3>1. nx2[s2[i]] = nx[s[r]]
      BY <2>3, <1>2, <1>7
    <3>2. i < n + 1 => i + 1 \in 1..(n + 1) /\ s2[i + 1] = s[r + 1]
      BY <2>3, <1>1, <1>2
    <3> QED
      BY <3>1, <3>2, <2>3, <1>1 DEF IsList
  <2>4. CASE i > r + 1
    <3>1. i - 1 \in 1..n /\ i - 1 # r /\ s[i - 1] # s[r] /\ s2[i] = s[i - 1]
      BY <2>4, <1>1, <1>2
    <3>2. nx2[s2[i]] = nx[s[i - 1]]
      BY <3>1, <1>3, <1>7
    <3>3. i < n + 1 => i + 1 \in 1..(n + 1) /\ s2[i + 1] = s[i]
      BY <2>4, <1>1, <1>2
    <3>4. nx[s[i - 1]] = IF i - 1 < n THEN s[(i - 1) + 1] ELSE NULL
      BY <3>1 DEF IsList
    <3>5. i - 1 < n <=> i < n + 1
      BY <1>1
    <3>6. (i - 1) + 1 = i
      BY <1>1
    <3> QED
      BY <3>2, <3>3, <3>4, <3>5, <3>6
  <2> QED
    BY <2>1, <2>2, <2>3, <2>4, <1>1
<1>13. \A i \in 1..(n + 1) : pv2[s2[i]] = IF i > 1 THEN s2[i - 1] ELSE NULL
  <2> SUFFICES ASSUME NEW i \in 1..(n + 1)
               PROVE  pv2[s2[i]] = IF i > 1 THEN s2[i - 1] ELSE NULL
    OBVIOUS
  <2>0. nx[s[r]] = IF r < n THEN s[r + 1] ELSE NULL
    BY DEF IsList
  <2>1. CASE i <= r
    <3>1. i \in 1..n /\ s2[i] = s[i] /\ s[i] # nx[s[r]]
      BY <2>0, <2>1, <1>1, <1>2, <1>3
    <3>2. pv2[s2[i]] = pv[s[i]]
      BY <3>1, <1>3, <1>8
    <3>3. i > 1 => i - 1 \in 1..(n + 1) /\ s2[i - 1] = s[i - 1]
      BY <2>1, <1>1, <1>2
    <3>4. pv[s[i]] = IF i > 1 THEN s[i - 1] ELSE NULL
      BY <3>1 DEF IsList
    <3> QED
      BY <3>2, <3>3, <3>4
  <2>2. CASE i = r + 1
    BY <2>2, <1>1, <1>2, <1>8
  <2>3. CASE i = r + 2
    <3>1. r < n /\ r + 1 \in 1..(n + 1) /\ s2[i] = s[r + 1] /\ s2[i - 1] = new
      BY <2>3, <1>1, <1>2
    <3> QED
      BY <3>1, <2>3, <1>8
  <2>4. CASE i > r + 2
    <3>1. /\ i - 1 \in 1..n /\ s2[i] = s[i - 1]
          /\ i - 1 \in 1..(n + 1) /\ s2[i - 1] = s[(i - 1) - 1]
          /\ i > 1 /\ i - 1 > 1
      BY <2>4, <1>1, <1>2
    <3>2. s[i - 1] # nx[s[r]]
      BY <2>0, <2>4, <3>1, <1>1, <1>3
    <3>3. pv2[s2[i]] = pv[s[i - 1]]
      BY <3>1, <3>2, <1>3, <1>8
    <3>4. pv[s[i - 1]] = s[(i - 1) - 1]
      BY <3>1 DEF IsList
    <3> QED
      BY <3>1, <3>3, <3>4
  <2> QED
    BY <2>1, <2>2, <2>3, <2>4, <1>1
<1>14. n + 1 \in Nat \ {0} /\ us \cup {new} \subseteq Node
  BY <1>1
<1>15. IsList(s2, n + 1, nx2, pv2, us \cup {new})
  BY <1>4, <1>5, <1>6, <1>9, <1>10, <1>11, <1>12, <1>13, <1>14 DEF IsList
<1> QED
  BY <1>15 DEF s2, nx2, pv2, Inserted, NextLinked, PrevLinked

\* Unlinking the r-th node takes it out of the list.
LEMMA ListRemove ==
    ASSUME NEW s, NEW n, NEW nx, NEW pv, NEW us, IsList(s, n, nx, pv, us),
           NEW r \in 2..n
    PROVE  IsList(Removed(s, n, r), n - 1, NextUnlinked(nx, s[r - 1], s[r]),
                  PrevUnlinked(nx, pv, s[r - 1], s[r]), us \ {s[r]})
<1> DEFINE s2 == [i \in 1..(n - 1) |-> IF i < r THEN s[i] ELSE s[i + 1]]
           nx2 == [nx EXCEPT ![s[r - 1]] = nx[s[r]], ![s[r]] = NULL]
           pv2 == [k \in Node |-> IF k = s[r] THEN NULL
                                 ELSE IF k = nx[s[r]] THEN s[r - 1] ELSE pv[k]]
<1>1. /\ n \in Nat \ {0} /\ us \subseteq Node /\ s \in [1..n -> us]
      /\ nx \in [Node -> Node \cup {NULL}] /\ pv \in [Node -> Node \cup {NULL}]
      /\ \A i, j \in 1..n : s[i] = s[j] => i = j
  BY DEF IsList
<1>2. \A i \in 1..(n - 1) : /\ i < r => i \in 1..n /\ s2[i] = s[i]
                            /\ i >= r => i + 1 \in 1..n /\ s2[i] = s[i + 1]
                            /\ i < r \/ i >= r
  BY <1>1
<1>3. \A i \in 1..n : s[i] \in us /\ s[i] \in Node /\ s[i] # NULL
  <2>1. ASSUME NEW i \in 1..n PROVE s[i] \in us
    BY <1>1
  <2>2. \A k \in us : k \in Node /\ k # NULL
    BY <1>1, Nodes, Zenon
  <2> QED
    BY <2>1, <2>2
<1>4. r \in 1..n /\ r - 1 \in 1..n /\ s[r - 1] # s[r]
  BY <1>1
<1>5. Cardinality(us \ {s[r]}) = n - 1
  <2>1. IsFiniteSet(us)
    BY <1>1, Nodes, FS_Subset
  <2> QED
    BY <2>1, <1>3, <1>4, FS_RemoveElement DEF IsList
<1>6. nx2 \in [Node -> Node \cup {NULL}] /\ pv2 \in [Node -> Node \cup {NULL}]
  BY <1>1, <1>3, <1>4
<1>7. \A i \in 1..(n - 1) : s2[i] # s[r] /\ s2[i] \in us
  BY <1>1, <1>2, <1>3, <1>4
<1>8. s2 \in [1..(n - 1) -> us \ {s[r]}]
  BY <1>7
<1>9. /\ \A k \in Node : k # s[r - 1] /\ k # s[r] => nx2[k] = nx[k]
      /\ nx2[s[r - 1]] = nx[s[r]]
  BY <1>1, <1>3, <1>4
<1>10. /\ \A k \in Node : k # s[r] /\ k # nx[s[r]] => pv2[k] = pv[k]
       /\ r < n => pv2[s[r + 1]] = s[r - 1]
  BY <1>1, <1>3, <1>4 DEF IsList
<1> HIDE DEF s2, nx2, pv2
<1>11. \A i, j \in 1..(n - 1) : s2[i] = s2[j] => i = j
  BY <1>1, <1>2
<1>12. \A k \in us \ {s[r]} : \E i \in 1..(n - 1) : s2[i] = k
  <2> SUFFICES ASSUME NEW k \in us, k # s[r]
               PROVE  \E i \in 1..(n - 1) : s2[i] = k
    OBVIOUS
  <2>1. PICK i \in 1..n : s[i] = k
    BY DEF IsList
  <2>2. CASE i < r
    BY <2>1, <2>2, <1>1, <1>2
  <2>3. CASE i > r
    <3>1. i - 1 \in 1..(n - 1) /\ i - 1 >= r /\ (i - 1) + 1 = i
      BY <2>3, <1>1
    <3>2. s2[i - 1] = k
      BY <3>1, <2>1, <1>2
    <3> QED
      BY <3>1, <3>2
  <2> QED
    BY <2>1, <2>2, <2>3, <1>1
<1>13. s2[1] = lines
  BY <1>1, <1>2 DEF IsList
<1>14. \A i \in 1..(n - 1) : nx2[s2[i]] = IF i < n - 1 THEN s2[i + 1] ELSE NULL
  <2> SUFFICES ASSUME NEW i \in 1..(n - 1)
               PROVE  nx2[s2[i]] = IF i < n - 1 THEN s2[i + 1] ELSE NULL
    OBVIOUS
  <2>1. CASE i < r - 1
    <3>1. /\ i \in 1..n /\ i < n /\ i < n - 1 /\ i + 1 \in 1..(n - 1) /\ i + 1 < r
          /\ s[i] # s[r] /\ s[i] # s[r - 1]
      BY <2>1, <1>1, <1>4
    <3>2. s2[i] = s[i] /\ s2[i + 1] = s[i + 1] /\ nx2[s[i]] = nx[s[i]]
      BY <3>1, <2>1, <1>2, <1>3, <1>9
    <3> QED
      BY <3>1, <3>2 DEF IsList
  <2>2. CASE i = r - 1
    <3>1. s2[i] = s[r - 1] /\ nx2[s2[i]] = nx[s[r]]
      BY <2>2, <1>2, <1>9
    <3>2. i < n - 1 => i + 1 \in 1..(n - 1) /\ i + 1 >= r /\ s2[i + 1] = s[r + 1]
      BY <2>2, <1>1, <1>2
    <3>3. i < n - 1 <=> r < n
      BY <2>2, <1>1
    <3>4. nx[s[r]] = IF r < n THEN s[r + 1] ELSE NULL
      BY <1>4 DEF IsList
    <3> QED
      BY <3>1, <3>2, <3>3, <3>4
  <2>3. CASE i >= r
    <3>1. i + 1 \in 1..n /\ s2[i] = s[i + 1] /\ s[i + 1] # s[r] /\ s[i + 1] # s[r - 1]
      BY <2>3, <1>1, <1>2, <1>4
    <3>2. nx2[s2[i]] = nx[s[i + 1]]
      BY <3>1, <1>3, <1>9
    <3>3. i < n - 1 => i + 1 \in 1..(n - 1) /\ s2[i + 1] = s[(i + 1) + 1]
      BY <2>3, <1>1, <1>2
    <3>4. nx[s[i + 1]] = IF i + 1 < n THEN s[(i + 1) + 1] ELSE NULL
      BY <3>1 DEF IsList
    <3>5. i < n - 1 <=> i + 1 < n
      BY <1>1
    <3> QED
      BY <3>2, <3>3, <3>4, <3>5
  <2> QED
    BY <2>1, <2>2, <2>3, <1>1
<1>15. \A i \in 1..(n - 1) : pv2[s2[i]] = IF i > 1 THEN s2[i - 1] ELSE NULL
  <2> SUFFICES ASSUME NEW i \in 1..(n - 1)
               PROVE  pv2[s2[i]] = IF i > 1 THEN s2[i - 1] ELSE NULL
    OBVIOUS
  <2>0. nx[s[r]] = IF r < n THEN s[r + 1] ELSE NULL
    BY <1>4 DEF IsList
  <2>1. CASE i < r
    <3>1. i \in 1..n /\ s2[i] = s[i] /\ s[i] # nx[s[r]] /\ s[i] # s[r]
      BY <2>0, <2>1, <1>1, <1>2, <1>3, <1>4
    <3>2. pv2[s2[i]] = pv[s[i]]
      BY <3>1, <1>3, <1>10
    <3>3. i > 1 => i - 1 \in 1..(n - 1) /\ s2[i - 1] = s[i - 1]
      BY <2>1, <1>1, <1>2
    <3>4. pv[s[i]] = IF i > 1 THEN s[i - 1] ELSE NULL
      BY <3>1 DEF IsList
    <3> QED
      BY <3>2, <3>3, <3>4
  <2>2. CASE i = r
    <3>1. r < n /\ i > 1 /\ s2[i] = s[r + 1]
      BY <2>2, <1>1, <1>2
    <3>2. i - 1 \in 1..(n - 1) /\ s2[i - 1] = s[r - 1]
      BY <2>2, <1>1, <1>2
    <3> QED
      BY <3>1, <3>2, <1>10
  <2>3. CASE i > r
    <3>1. /\ i + 1 \in 1..n /\ s2[i] = s[i + 1] /\ i > 1 /\ i + 1 > 1
          /\ i - 1 \in 1..(n - 1) /\ i - 1 >= r /\ s2[i - 1] = s[(i - 1) + 1]
          /\ (i - 1) + 1 = (i + 1) - 1
      BY <2>3, <1>1, <1>2
    <3>2. s[i + 1] # nx[s[r]] /\ s[i + 1] # s[r]
      BY <2>0, <2>3, <3>1, <1>1, <1>3, <1>4
    <3>3. pv2[s2[i]] = pv[s[i + 1]]
      BY <3>1, <3>2, <1>3, <1>10
    <3>4. pv[s[i + 1]] = s[(i + 1) - 1]
      BY <3>1 DEF IsList
    <3> QED
      BY <3>1, <3>3, <3>4
  <2> QED
    BY <2>1, <2>2, <2>3, <1>1
<1>16. n - 1 \in Nat \ {0} /\ us \ {s[r]} \subseteq Node
  BY <1>1
<1>17. IsList(s2, n - 1, nx2, pv2, us \ {s[r]})
  BY <1>5, <1>6, <1>8, <1>11, <1>12, <1>13, <1>14, <1>15, <1>16 DEF IsList
<1> QED
  BY <1>17 DEF s2, nx2, pv2, Removed, NextUnlinked, PrevUnlinked

-----------------------------------------------------------------------------
\* What is loaded and what is saved.

TextByte == Printable \cup {NL}
Line == Seq(Printable)

\* The first n elements of a sequence, and the rest.
LEMMA Parts ==
    ASSUME NEW S, NEW q \in Seq(S), NEW n \in 0..Len(q)
    PROVE  /\ Len(q) \in Nat
           /\ SubSeq(q, 1, n) \in Seq(S) /\ Len(SubSeq(q, 1, n)) = n
           /\ \A i \in 1..n : SubSeq(q, 1, n)[i] = q[i]
           /\ SubSeq(q, n + 1, Len(q)) \in Seq(S)
           /\ Len(SubSeq(q, n + 1, Len(q))) = Len(q) - n
           /\ \A i \in 1..(Len(q) - n) : SubSeq(q, n + 1, Len(q))[i] = q[n + i]
<1>1. Len(q) \in Nat /\ \A i \in 1..Len(q) : q[i] \in S
  OBVIOUS
<1>2. /\ SubSeq(q, 1, n) \in Seq(S)
      /\ Len(SubSeq(q, 1, n)) = IF 1 <= n THEN n - 1 + 1 ELSE 0
      /\ \A i \in 1..(n - 1 + 1) : SubSeq(q, 1, n)[i] = q[1 + i - 1]
  <2>1. \A i \in 1..n : q[i] \in S
    BY <1>1
  <2> QED
    BY <2>1, SubSeqProperties
<1>3. /\ SubSeq(q, n + 1, Len(q)) \in Seq(S)
      /\ Len(SubSeq(q, n + 1, Len(q))) = IF n + 1 <= Len(q) THEN Len(q) - (n + 1) + 1 ELSE 0
      /\ \A i \in 1..(Len(q) - (n + 1) + 1) :
            SubSeq(q, n + 1, Len(q))[i] = q[(n + 1) + i - 1]
  <2>1. \A i \in (n + 1)..Len(q) : q[i] \in S
    BY <1>1
  <2> QED
    BY <2>1, <1>1, SubSeqProperties
<1> QED
  BY <1>1, <1>2, <1>3

\* The elements a + 1 to b of q replaced by those of m.
Splice(q, a, b, m) == SubSeq(q, 1, a) \o m \o SubSeq(q, b + 1, Len(q))
IsSplice(r, S, q, a, b, m) ==
    /\ r \in Seq(S) /\ Len(r) = a + Len(m) + (Len(q) - b)
    /\ \A i \in 1..Len(r) : r[i] = IF i <= a THEN q[i]
                                   ELSE IF i <= a + Len(m) THEN m[i - a]
                                   ELSE q[i - a - Len(m) + b]

LEMMA Replaced ==
    ASSUME NEW S, NEW q \in Seq(S), NEW a \in 0..Len(q), NEW b \in a..Len(q),
           NEW m \in Seq(S)
    PROVE  IsSplice(Splice(q, a, b, m), S, q, a, b, m)
<1> DEFINE r == Splice(q, a, b, m)
<1> DEFINE u == SubSeq(q, 1, a)
           v == SubSeq(q, b + 1, Len(q))
<1>1. b \in 0..Len(q) /\ Len(q) \in Nat /\ Len(m) \in Nat
  OBVIOUS
<1>2. /\ u \in Seq(S) /\ Len(u) = a /\ \A i \in 1..a : u[i] = q[i]
      /\ v \in Seq(S) /\ Len(v) = Len(q) - b
      /\ \A i \in 1..(Len(q) - b) : v[i] = q[b + i]
  BY <1>1, Parts
<1> HIDE DEF u, v
<1> DEFINE w == u \o m
<1>3. /\ w \in Seq(S) /\ Len(w) = a + Len(m)
      /\ \A i \in 1..(a + Len(m)) : w[i] = IF i <= a THEN q[i] ELSE m[i - a]
  <2>1. /\ w \in Seq(S) /\ Len(w) = Len(u) + Len(m)
        /\ \A i \in 1..(Len(u) + Len(m)) : w[i] = IF i <= Len(u) THEN u[i] ELSE m[i - Len(u)]
    BY <1>2, ConcatProperties
  <2> HIDE DEF w
  <2> QED
    BY <2>1, <1>1, <1>2
<1>4. /\ r \in Seq(S) /\ Len(r) = a + Len(m) + (Len(q) - b)
      /\ \A i \in 1..Len(r) : r[i] = IF i <= a + Len(m) THEN w[i]
                                     ELSE v[i - (a + Len(m))]
  <2>1. r = w \o v
    BY DEF u, v, Splice
  <2> HIDE DEF w, r
  <2>2. /\ w \o v \in Seq(S) /\ Len(w \o v) = Len(w) + Len(v)
        /\ \A i \in 1..(Len(w) + Len(v)) : (w \o v)[i] = IF i <= Len(w) THEN w[i] ELSE v[i - Len(w)]
    <3>1. w \in Seq(S) /\ v \in Seq(S)
      BY <1>2, <1>3
    <3> QED
      BY <3>1, ConcatProperties
  <2> QED
    BY <2>1, <2>2, <1>1, <1>2, <1>3
<1> HIDE DEF w, r
<1>5. a \in Nat /\ b \in Nat /\ a <= b /\ b <= Len(q)
  OBVIOUS
<1>6. ASSUME NEW i \in 1..Len(r)
      PROVE  r[i] = IF i <= a THEN q[i]
                    ELSE IF i <= a + Len(m) THEN m[i - a]
                    ELSE q[i - a - Len(m) + b]
  <2>1. i \in Nat /\ i >= 1 /\ i <= a + Len(m) + (Len(q) - b)
    BY <1>1, <1>4, <1>5
  <2>2. CASE i <= a + Len(m)
    BY <2>1, <2>2, <1>1, <1>3, <1>4, <1>5
  <2>3. CASE i > a + Len(m)
    <3>1. /\ i - (a + Len(m)) \in 1..(Len(q) - b)
          /\ b + (i - (a + Len(m))) = i - a - Len(m) + b
      BY <2>1, <2>3, <1>1, <1>5
    <3>2. r[i] = v[i - (a + Len(m))]
      BY <2>1, <2>3, <1>1, <1>4, <1>5
    <3>3. r[i] = q[i - a - Len(m) + b]
      BY <3>1, <3>2, <1>2
    <3> QED
      BY <3>3, <2>1, <2>3, <1>1, <1>5
  <2> QED
    BY <2>1, <2>2, <2>3, <1>1, <1>5
<1>7. IsSplice(r, S, q, a, b, m)
  BY <1>4, <1>6 DEF IsSplice
<1> QED
  BY <1>7 DEF r

\* The last line of a text and those in front of it.
LEMMA LastLine ==
    ASSUME NEW S, NEW ls \in Seq(S), ls # <<>>
    PROVE  /\ Len(ls) \in Nat \ {0} /\ SubSeq(ls, 1, Len(ls) - 1) \in Seq(S)
           /\ Len(SubSeq(ls, 1, Len(ls) - 1)) = Len(ls) - 1
           /\ ls[Len(ls)] \in S
           /\ ls = Append(SubSeq(ls, 1, Len(ls) - 1), ls[Len(ls)])
<1>1. Len(ls) \in Nat \ {0}
  BY EmptySeq
<1>2. /\ SubSeq(ls, 1, Len(ls) - 1) \in Seq(S)
      /\ Len(SubSeq(ls, 1, Len(ls) - 1)) = Len(ls) - 1
      /\ \A i \in 1..(Len(ls) - 1) : SubSeq(ls, 1, Len(ls) - 1)[i] = ls[i]
  <2>1. Len(ls) - 1 \in 0..Len(ls)
    BY <1>1
  <2> QED
    BY <2>1, Parts
<1>3. ls[Len(ls)] \in S
  BY <1>1
<1> DEFINE a == Append(SubSeq(ls, 1, Len(ls) - 1), ls[Len(ls)])
<1>4. a \in Seq(S) /\ Len(a) = Len(ls) /\ \A i \in 1..Len(ls) : a[i] = ls[i]
  BY <1>1, <1>2, <1>3
<1>5. a = ls
  <2> HIDE DEF a
  <2> QED
    BY <1>4, SeqEqual
<1> QED
  BY <1>1, <1>2, <1>3, <1>5

\* What loadFile() has made of the first n bytes.
LEMMA LinesSteps ==
    ASSUME NEW s \in Seq(TextByte)
    PROVE  \E u \in [0..Len(s) -> Seq(Line) \ {<<>>}] :
              /\ LinesOf(s) = u[Len(s)]
              /\ u[0] = << <<>> >>
              /\ \A n \in 1..Len(s) :
                    u[n] = IF s[n] = NL THEN Append(u[n - 1], <<>>)
                           ELSE [u[n - 1] EXCEPT ![Len(u[n - 1])] = Append(@, s[n])]
<1> DEFINE V == Seq(Line) \ {<<>>}
           one == << <<>> >>
           Next1(n, ls) == IF s[n] = NL THEN Append(ls, <<>>)
                           ELSE [ls EXCEPT ![Len(ls)] = Append(@, s[n])]
           G == [n \in Nat |-> [ls \in V |-> IF n < Len(s) THEN Next1(n + 1, ls) ELSE ls]]
<1>1. one \in V
  BY DEF Line
<1>2. ASSUME NEW n \in 1..Len(s), NEW ls \in V PROVE Next1(n, ls) \in V
  <2>1. CASE s[n] = NL
    <3>1. <<>> \in Line /\ ls \in Seq(Line)
      BY DEF Line
    <3>2. Append(ls, <<>>) \in Seq(Line) /\ Append(ls, <<>>) # <<>>
      BY <3>1, AppendProperties
    <3> QED
      BY <3>2, <2>1
  <2>2. CASE s[n] # NL
    <3>1. s[n] \in Printable
      BY <2>2 DEF TextByte
    <3>2. /\ Len(ls) \in 1..Len(ls) /\ ls[Len(ls)] \in Line /\ ls \in Seq(Line)
          /\ Len(ls) \in Nat
      BY LastLine, EmptySeq
    <3>3. Append(ls[Len(ls)], s[n]) \in Line
      BY <3>1, <3>2, AppendProperties DEF Line
    <3>4. /\ [ls EXCEPT ![Len(ls)] = Append(ls[Len(ls)], s[n])] \in Seq(Line)
          /\ Len([ls EXCEPT ![Len(ls)] = Append(ls[Len(ls)], s[n])]) = Len(ls)
      BY <3>2, <3>3, ExceptSeq
    <3>5. [ls EXCEPT ![Len(ls)] = Append(ls[Len(ls)], s[n])] # <<>>
      BY <3>2, <3>4
    <3> QED
      BY <2>2, <3>4, <3>5
  <2> QED
    BY <2>1, <2>2
<1>3. G \in [Nat -> [V -> V]]
  <2>1. ASSUME NEW n \in Nat, NEW ls \in V, n < Len(s) PROVE n + 1 \in 1..Len(s)
    BY <2>1
  <2>2. ASSUME NEW n \in Nat, NEW ls \in V
        PROVE  (IF n < Len(s) THEN Next1(n + 1, ls) ELSE ls) \in V
    <3> HIDE DEF Next1, V
    <3> QED
      BY <1>2, <2>1
  <2> HIDE DEF Next1, V
  <2> QED
    BY <2>2
<1>4. PICK g \in [Nat -> V] : g[0] = one /\ \A n \in Nat : g[n + 1] = G[n][g[n]]
  <2> HIDE DEF G, V, one
  <2>1. PICK g : Recursive(g, V, one, G)
    BY <1>1, <1>3, Recursion
  <2> QED
    BY <2>1 DEF Recursive
<1> DEFINE u == [n \in 0..Len(s) |-> g[n]]
<1>5. u \in [0..Len(s) -> V] /\ u[0] = one
  <2> HIDE DEF one, V
  <2> QED
    BY <1>4
<1>6. ASSUME NEW n \in 1..Len(s) PROVE u[n] = Next1(n, u[n - 1])
  <2>1. n - 1 \in Nat /\ n - 1 < Len(s) /\ (n - 1) + 1 = n /\ n \in 0..Len(s)
        /\ n - 1 \in 0..Len(s)
    OBVIOUS
  <2>2. g[n - 1] \in V /\ g[n] = G[n - 1][g[n - 1]]
    <3> HIDE DEF G, V
    <3> QED
      BY <2>1, <1>4
  <2>3. g[n] = Next1((n - 1) + 1, g[n - 1])
    <3> HIDE DEF Next1, V
    <3> QED
      BY <2>1, <2>2
  <2> HIDE DEF Next1, V
  <2> QED
    BY <2>1, <2>3
<1> HIDE DEF u
<1>7. u = [n \in 0..Len(s) |->
            IF n = 0 THEN << <<>> >>
            ELSE LET ls == u[n - 1] IN
                 IF s[n] = NL THEN Append(ls, <<>>)
                 ELSE [ls EXCEPT ![Len(ls)] = Append(@, s[n])]]
  <2> DEFINE W(n) == IF n = 0 THEN one ELSE Next1(n, u[n - 1])
  <2>1. ASSUME NEW n \in 0..Len(s) PROVE u[n] = W(n)
    <3>1. n = 0 \/ n \in 1..Len(s)
      OBVIOUS
    <3> HIDE DEF Next1, one, V
    <3> QED
      BY <3>1, <1>5, <1>6
  <2>2. u = [n \in 0..Len(s) |-> W(n)]
    <3> HIDE DEF W
    <3> QED
      BY <1>5, <2>1
  <2> QED
    BY <2>2, Zenon
<1> DEFINE f == CHOOSE f : f = [n \in 0..Len(s) |->
            IF n = 0 THEN << <<>> >>
            ELSE LET ls == f[n - 1] IN
                 IF s[n] = NL THEN Append(ls, <<>>)
                 ELSE [ls EXCEPT ![Len(ls)] = Append(@, s[n])]]
<1>8. f = [n \in 0..Len(s) |->
            IF n = 0 THEN << <<>> >>
            ELSE LET ls == f[n - 1] IN
                 IF s[n] = NL THEN Append(ls, <<>>)
                 ELSE [ls EXCEPT ![Len(ls)] = Append(@, s[n])]]
  BY <1>7, Zenon
<1>9. LinesOf(s) = f[Len(s)]
  BY Zenon DEF LinesOf
<1> HIDE DEF f
<1>10. f[0] = one /\ \A n \in 1..Len(s) : f[n] = Next1(n, f[n - 1])
  <2>1. f[0] = one
    BY <1>8
  <2>2. ASSUME NEW n \in 1..Len(s) PROVE f[n] = Next1(n, f[n - 1])
    <3>1. n \in 0..Len(s) /\ n # 0
      OBVIOUS
    <3> QED
      BY <1>8, <3>1, Zenon
  <2> QED
    BY <2>1, <2>2
<1>11. \A n \in 0..Len(s) : f[n] \in V
  <2> DEFINE S == {n \in Nat : n <= Len(s) => f[n] \in V}
  <2> HIDE DEF Next1, one, V
  <2>1. 0 \in S
    BY <1>1, <1>10
  <2>2. ASSUME NEW n \in Nat, n \in S PROVE n + 1 \in S
    <3> SUFFICES ASSUME n + 1 <= Len(s) PROVE f[n + 1] \in V
      OBVIOUS
    <3>1. n + 1 \in 1..Len(s) /\ (n + 1) - 1 = n /\ n <= Len(s)
      OBVIOUS
    <3>2. f[n] \in V /\ f[n + 1] = Next1(n + 1, f[n])
      BY <3>1, <2>2, <1>10
    <3> QED
      BY <3>1, <3>2, <1>2
  <2>3. Nat \subseteq S
    <3> HIDE DEF S
    <3> QED
      BY <2>1, <2>2, SetInduction
  <2> QED
    BY <2>3
<1>12. f \in [0..Len(s) -> V]
  <2> QED
    BY <1>8, <1>11
<1> QED
  BY <1>9, <1>10, <1>12, Zenon

\* What save_file() has written behind the n-th line.
LEMMA BytesSteps ==
    ASSUME NEW ls \in Seq(Line), ls # <<>>
    PROVE  \E b \in [1..Len(ls) -> Seq(TextByte)] :
              /\ Bytes(ls) = b[Len(ls)]
              /\ b[1] = ls[1]
              /\ \A n \in 2..Len(ls) : b[n] = b[n - 1] \o <<NL>> \o ls[n]
<1> DEFINE V == Seq(TextByte)
           Add(n, v) == v \o <<NL>> \o ls[n]
           G == [n \in Nat |-> [v \in V |-> IF n + 2 <= Len(ls) THEN Add(n + 2, v) ELSE v]]
<1>1. Len(ls) \in Nat \ {0} /\ \A n \in 1..Len(ls) : ls[n] \in V
  <2>1. \A n \in 1..Len(ls) : ls[n] \in Line
    OBVIOUS
  <2>2. Line \subseteq Seq(TextByte)
    BY DEF Line, TextByte
  <2> QED
    BY <2>1, <2>2, EmptySeq
<1>2. ASSUME NEW n \in 1..Len(ls), NEW v \in V PROVE Add(n, v) \in V
  <2>1. ls[n] \in V /\ <<NL>> \in V
    BY <1>1 DEF TextByte
  <2> QED
    BY <2>1
<1>3. G \in [Nat -> [V -> V]]
  <2>1. ASSUME NEW n \in Nat, NEW v \in V
        PROVE  (IF n + 2 <= Len(ls) THEN Add(n + 2, v) ELSE v) \in V
    <3>1. n + 2 <= Len(ls) => n + 2 \in 1..Len(ls)
      BY <1>1
    <3> HIDE DEF Add, V
    <3> QED
      BY <1>2, <3>1
  <2> HIDE DEF Add, V
  <2> QED
    BY <2>1
<1>4. PICK g \in [Nat -> V] : g[0] = ls[1] /\ \A n \in Nat : g[n + 1] = G[n][g[n]]
  <2>1. ls[1] \in V
    BY <1>1
  <2> HIDE DEF G, V
  <2>2. PICK g : Recursive(g, V, ls[1], G)
    BY <2>1, <1>3, Recursion
  <2> QED
    BY <2>2 DEF Recursive
<1> DEFINE u == [n \in 1..Len(ls) |-> g[n - 1]]
<1>5. u \in [1..Len(ls) -> V] /\ u[1] = ls[1]
  <2> HIDE DEF V
  <2> QED
    BY <1>1, <1>4
<1>6. ASSUME NEW n \in 2..Len(ls) PROVE u[n] = Add(n, u[n - 1])
  <2>1. n - 2 \in Nat /\ (n - 2) + 2 = n /\ (n - 2) + 1 = n - 1 /\ n <= Len(ls)
        /\ n \in 1..Len(ls) /\ n - 1 \in 1..Len(ls) /\ (n - 1) - 1 = n - 2
    BY <1>1
  <2>2. g[n - 2] \in V /\ g[n - 1] = G[n - 2][g[n - 2]]
    <3> HIDE DEF V, G
    <3> QED
      BY <2>1, <1>4
  <2>3. g[n - 1] = Add(n, g[n - 2])
    <3> HIDE DEF Add, V
    <3> QED
      BY <2>1, <2>2
  <2> HIDE DEF Add
  <2> QED
    BY <2>1, <2>3
<1> HIDE DEF u
<1>7. u = [n \in 1..Len(ls) |-> IF n = 1 THEN ls[1] ELSE u[n - 1] \o <<NL>> \o ls[n]]
  <2> DEFINE W(n) == IF n = 1 THEN ls[1] ELSE Add(n, u[n - 1])
  <2>1. ASSUME NEW n \in 1..Len(ls) PROVE u[n] = W(n)
    <3>1. n = 1 \/ n \in 2..Len(ls)
      OBVIOUS
    <3> HIDE DEF Add, V
    <3> QED
      BY <3>1, <1>5, <1>6
  <2>2. u = [n \in 1..Len(ls) |-> W(n)]
    <3> HIDE DEF W, V
    <3> QED
      BY <1>5, <2>1
  <2> QED
    BY <2>2, Zenon
<1> DEFINE f == CHOOSE f : f = [n \in 1..Len(ls) |->
                     IF n = 1 THEN ls[1] ELSE f[n - 1] \o <<NL>> \o ls[n]]
<1>8. f = [n \in 1..Len(ls) |-> IF n = 1 THEN ls[1] ELSE f[n - 1] \o <<NL>> \o ls[n]]
  BY <1>7, Zenon
<1>9. Bytes(ls) = f[Len(ls)]
  BY Zenon DEF Bytes
<1> HIDE DEF f
<1>10. f[1] = ls[1] /\ \A n \in 2..Len(ls) : f[n] = Add(n, f[n - 1])
  <2>1. f[1] = ls[1]
    BY <1>1, <1>8
  <2>2. ASSUME NEW n \in 2..Len(ls) PROVE f[n] = Add(n, f[n - 1])
    <3>1. n \in 1..Len(ls) /\ n # 1
      OBVIOUS
    <3> QED
      BY <1>8, <3>1, Zenon
  <2> QED
    BY <2>1, <2>2
<1>11. \A n \in 1..Len(ls) : f[n] \in V
  <2> DEFINE S == {n \in Nat : n + 1 <= Len(ls) => f[n + 1] \in V}
  <2> HIDE DEF V, Add
  <2>1. 0 \in S
    BY <1>1, <1>10
  <2>2. ASSUME NEW n \in Nat, n \in S PROVE n + 1 \in S
    <3> SUFFICES ASSUME (n + 1) + 1 <= Len(ls) PROVE f[(n + 1) + 1] \in V
      OBVIOUS
    <3>1. /\ (n + 1) + 1 \in 2..Len(ls) /\ (n + 1) + 1 \in 1..Len(ls)
          /\ ((n + 1) + 1) - 1 = n + 1 /\ f[n + 1] \in V
      BY <2>2, <1>1
    <3> QED
      BY <3>1, <1>2, <1>10
  <2>3. Nat \subseteq S
    <3> HIDE DEF S
    <3> QED
      BY <2>1, <2>2, SetInduction
  <2>4. ASSUME NEW n \in 1..Len(ls) PROVE f[n] \in V
    <3>1. n - 1 \in Nat /\ (n - 1) + 1 = n /\ n <= Len(ls)
      BY <1>1
    <3>2. n - 1 \in S
      <4> HIDE DEF S
      <4> QED
        BY <2>3, <3>1
    <3> QED
      BY <3>1, <3>2
  <2> QED
    BY <2>4
<1>12. f \in [1..Len(ls) -> V]
  <2> HIDE DEF V
  <2> QED
    BY <1>8, <1>11
<1> QED
  BY <1>9, <1>10, <1>12, Zenon

LEMMA BytesOne == ASSUME NEW l \in Line PROVE Bytes(<<l>>) = l
<1>1. <<l>> \in Seq(Line) /\ <<l>> # <<>> /\ Len(<<l>>) = 1
  OBVIOUS
<1> QED
  BY <1>1, BytesSteps

LEMMA BytesType == ASSUME NEW ls \in Seq(Line), ls # <<>> PROVE Bytes(ls) \in Seq(TextByte)
<1>1. Len(ls) \in 1..Len(ls)
  BY EmptySeq
<1>2. PICK b \in [1..Len(ls) -> Seq(TextByte)] : Bytes(ls) = b[Len(ls)]
  BY BytesSteps
<1> QED
  BY <1>1, <1>2

\* A further line is written behind the others and a newline.
LEMMA BytesAppend ==
    ASSUME NEW ls \in Seq(Line), ls # <<>>, NEW l \in Line
    PROVE  Bytes(Append(ls, l)) = Bytes(ls) \o <<NL>> \o l
<1> DEFINE m == Append(ls, l)
<1>1. /\ m \in Seq(Line) /\ m # <<>> /\ Len(m) = Len(ls) + 1 /\ Len(ls) \in Nat \ {0}
      /\ m[Len(ls) + 1] = l /\ \A i \in 1..Len(ls) : m[i] = ls[i]
  <2>1. Len(ls) \in Nat \ {0}
    BY EmptySeq
  <2> QED
    BY <2>1, AppendProperties
<1> HIDE DEF m
<1>2. PICK b \in [1..Len(ls) -> Seq(TextByte)] :
          /\ Bytes(ls) = b[Len(ls)] /\ b[1] = ls[1]
          /\ \A n \in 2..Len(ls) : b[n] = b[n - 1] \o <<NL>> \o ls[n]
  BY BytesSteps
<1>3. PICK c \in [1..Len(m) -> Seq(TextByte)] :
          /\ Bytes(m) = c[Len(m)] /\ c[1] = m[1]
          /\ \A n \in 2..Len(m) : c[n] = c[n - 1] \o <<NL>> \o m[n]
  BY <1>1, BytesSteps
<1> DEFINE S == {n \in Nat : n + 1 <= Len(ls) => b[n + 1] = c[n + 1]}
<1>4. 0 \in S
  BY <1>1, <1>2, <1>3
<1>5. ASSUME NEW n \in Nat, n \in S PROVE n + 1 \in S
  <2> SUFFICES ASSUME (n + 1) + 1 <= Len(ls) PROVE b[(n + 1) + 1] = c[(n + 1) + 1]
    OBVIOUS
  <2>1. /\ (n + 1) + 1 \in 2..Len(ls) /\ (n + 1) + 1 \in 2..Len(m)
        /\ ((n + 1) + 1) - 1 = n + 1 /\ b[n + 1] = c[n + 1]
        /\ m[(n + 1) + 1] = ls[(n + 1) + 1]
    BY <1>1, <1>5
  <2>2. b[(n + 1) + 1] = b[n + 1] \o <<NL>> \o ls[(n + 1) + 1]
    BY <2>1, <1>2
  <2>3. c[(n + 1) + 1] = c[n + 1] \o <<NL>> \o m[(n + 1) + 1]
    BY <2>1, <1>3
  <2> QED
    BY <2>1, <2>2, <2>3
<1>6. Nat \subseteq S
  <2> HIDE DEF S
  <2> QED
    BY <1>4, <1>5, SetInduction
<1>7. b[Len(ls)] = c[Len(ls)]
  <2>1. Len(ls) - 1 \in Nat /\ (Len(ls) - 1) + 1 = Len(ls)
    BY <1>1
  <2>2. Len(ls) - 1 \in S
    <3> HIDE DEF S
    <3> QED
      BY <1>6, <2>1
  <2> QED
    BY <2>1, <2>2, <1>1
<1>8. Bytes(m) = c[Len(ls)] \o <<NL>> \o l
  <2>1. Len(ls) + 1 \in 2..Len(m) /\ (Len(ls) + 1) - 1 = Len(ls)
    BY <1>1
  <2> QED
    BY <2>1, <1>1, <1>3
<1> QED
  BY <1>2, <1>7, <1>8 DEF m

\* A character added to the last line is written last.
LEMMA BytesGrow ==
    ASSUME NEW ls \in Seq(Line), ls # <<>>, NEW c \in Printable
    PROVE  Bytes([ls EXCEPT ![Len(ls)] = Append(@, c)]) = Append(Bytes(ls), c)
<1> DEFINE front == SubSeq(ls, 1, Len(ls) - 1)
           last == ls[Len(ls)]
           m == [ls EXCEPT ![Len(ls)] = Append(last, c)]
<1>1. /\ Len(ls) \in Nat \ {0} /\ front \in Seq(Line) /\ Len(front) = Len(ls) - 1
      /\ last \in Line /\ ls = Append(front, last)
  BY LastLine
<1>2. Append(last, c) \in Line
  BY <1>1, AppendProperties DEF Line
<1>3. m = Append(front, Append(last, c))
  <2> DEFINE a == Append(front, Append(last, c))
  <2>1. /\ m \in Seq(Line) /\ Len(m) = Len(ls)
        /\ \A i \in 1..Len(ls) : m[i] = IF i = Len(ls) THEN Append(last, c) ELSE ls[i]
    <3> HIDE DEF last
    <3>1. Len(ls) \in 1..Len(ls)
      BY <1>1
    <3> QED
      BY <3>1, <1>2, ExceptSeq
  <2>2. \A i \in 1..(Len(ls) - 1) : front[i] = ls[i]
    <3>1. Len(ls) - 1 \in 0..Len(ls)
      BY <1>1
    <3> QED
      BY <3>1, Parts
  <2>3. /\ a \in Seq(Line) /\ Len(a) = Len(ls)
        /\ \A i \in 1..Len(ls) : a[i] = IF i = Len(ls) THEN Append(last, c) ELSE ls[i]
    <3> HIDE DEF front, last
    <3> QED
      BY <1>1, <1>2, <2>2, AppendProperties
  <2> HIDE DEF a, m
  <2>4. Len(m) = Len(a) /\ \A i \in 1..Len(m) : m[i] = a[i]
    BY <2>1, <2>3
  <2>5. m = a
    BY <2>1, <2>3, <2>4, SeqEqual
  <2> QED
    BY <2>5 DEF a
<1> HIDE DEF m, front, last
<1>4. CASE front = <<>>
  <2>1. ls = <<last>> /\ m = <<Append(last, c)>>
    BY <1>1, <1>3, <1>4
  <2> QED
    BY <2>1, <1>1, <1>2, BytesOne DEF m, last
<1>5. CASE front # <<>>
  <2>1. Bytes(ls) = Bytes(front) \o <<NL>> \o last
    BY <1>1, <1>5, BytesAppend
  <2>2. Bytes(m) = Bytes(front) \o <<NL>> \o Append(last, c)
    BY <1>1, <1>2, <1>3, <1>5, BytesAppend
  <2>3. /\ Bytes(front) \in Seq(TextByte) /\ <<NL>> \in Seq(TextByte)
        /\ last \in Seq(TextByte) /\ c \in TextByte
    <3>1. Bytes(front) \in Seq(TextByte)
      BY <1>1, <1>5, BytesType
    <3>2. Line \subseteq Seq(TextByte)
      BY DEF Line, TextByte
    <3> QED
      BY <3>1, <3>2, <1>1 DEF TextByte
  <2>4. Bytes(front) \o <<NL>> \in Seq(TextByte)
    BY <2>3
  <2>5. Bytes(m) = Append(Bytes(ls), c)
    <3> DEFINE p == Bytes(front) \o <<NL>>
    <3> HIDE DEF p
    <3>1. p \o Append(last, c) = Append(p \o last, c)
      <4>1. p \in Seq(TextByte)
        BY <2>4 DEF p
      <4> QED
        BY <4>1, <2>3
    <3> QED
      BY <3>1, <2>1, <2>2 DEF p
  <2> QED
    BY <2>5 DEF m, last
<1> QED
  BY <1>4, <1>5

\* Saving what was loaded gives the same bytes, and every loaded line is free
\* of newlines.
LEMMA RoundTrip ==
    ASSUME NEW s \in Seq(TextByte)
    PROVE  /\ LinesOf(s) \in Seq(Line) /\ LinesOf(s) # <<>>
           /\ Bytes(LinesOf(s)) = s
<1>1. PICK u \in [0..Len(s) -> Seq(Line) \ {<<>>}] :
          /\ LinesOf(s) = u[Len(s)]
          /\ u[0] = << <<>> >>
          /\ \A n \in 1..Len(s) :
                u[n] = IF s[n] = NL THEN Append(u[n - 1], <<>>)
                       ELSE [u[n - 1] EXCEPT ![Len(u[n - 1])] = Append(@, s[n])]
  BY LinesSteps
<1>2. Len(s) \in Nat /\ Len(s) \in 0..Len(s) /\ \A n \in 1..Len(s) : s[n] \in TextByte
  OBVIOUS
<1>3. /\ SubSeq(s, 1, 0) = <<>> /\ SubSeq(s, 1, Len(s)) = s
      /\ \A n \in 1..Len(s) : /\ SubSeq(s, 1, n - 1) \in Seq(TextByte)
                              /\ Append(SubSeq(s, 1, n - 1), s[n]) = SubSeq(s, 1, n)
  <2>1. SubSeq(s, 1, 0) = <<>>
    BY SubSeqEmpty
  <2>2. SubSeq(s, 1, Len(s)) = s
    BY <1>2, Parts, SeqEqual
  <2>3. ASSUME NEW n \in 1..Len(s)
        PROVE  /\ SubSeq(s, 1, n - 1) \in Seq(TextByte)
               /\ Append(SubSeq(s, 1, n - 1), s[n]) = SubSeq(s, 1, n)
    <3>1. n - 1 \in 0..Len(s) /\ n \in 0..Len(s)
      OBVIOUS
    <3> DEFINE a == SubSeq(s, 1, n - 1)
               b == SubSeq(s, 1, n)
    <3>2. /\ a \in Seq(TextByte) /\ Len(a) = n - 1 /\ \A i \in 1..(n - 1) : a[i] = s[i]
          /\ b \in Seq(TextByte) /\ Len(b) = n /\ \A i \in 1..n : b[i] = s[i]
      BY <3>1, Parts
    <3> HIDE DEF a, b
    <3>3. /\ Append(a, s[n]) \in Seq(TextByte) /\ Len(Append(a, s[n])) = n
          /\ \A i \in 1..n : Append(a, s[n])[i] = s[i]
      BY <3>2, <1>2
    <3>4. Append(a, s[n]) = b
      BY <3>2, <3>3, SeqEqual
    <3> QED
      BY <3>2, <3>4 DEF a, b
  <2> QED
    BY <2>1, <2>2, <2>3
<1> DEFINE S == {n \in Nat : n <= Len(s) => Bytes(u[n]) = SubSeq(s, 1, n)}
<1>4. 0 \in S
  <2>1. <<>> \in Line
    BY DEF Line
  <2> QED
    BY <2>1, <1>1, <1>3, BytesOne
<1>5. ASSUME NEW m \in Nat, m \in S PROVE m + 1 \in S
  <2> SUFFICES ASSUME m + 1 <= Len(s) PROVE Bytes(u[m + 1]) = SubSeq(s, 1, m + 1)
    OBVIOUS
  <2> DEFINE n == m + 1
  <2>1. n \in 1..Len(s) /\ n - 1 = m /\ m \in 0..Len(s) /\ Bytes(u[m]) = SubSeq(s, 1, m)
    BY <1>2, <1>5
  <2>2. u[m] \in Seq(Line) /\ u[m] # <<>> /\ s[n] \in TextByte
    BY <2>1, <1>2
  <2> HIDE DEF n
  <2>3. Bytes(u[n]) = Append(Bytes(u[m]), s[n])
    <3>1. CASE s[n] = NL
      <4>1. <<>> \in Line
        BY DEF Line
      <4>2. Bytes(u[n]) = Bytes(u[m]) \o <<NL>> \o <<>>
        BY <4>1, <3>1, <1>1, <2>1, <2>2, BytesAppend
      <4>3. Bytes(u[m]) \in Seq(TextByte)
        BY <2>2, BytesType
      <4> QED
        BY <4>2, <4>3, <3>1, <2>2
    <3>2. CASE s[n] # NL
      <4>1. s[n] \in Printable
        BY <3>2, <2>2 DEF TextByte
      <4>2. u[n] = [u[m] EXCEPT ![Len(u[m])] = Append(@, s[n])]
        BY <3>2, <2>1, <1>1
      <4> QED
        BY <4>1, <4>2, <2>2, BytesGrow
    <3> QED
      BY <3>1, <3>2
  <2> QED
    BY <2>1, <2>3, <1>3 DEF n
<1>6. Nat \subseteq S
  <2> HIDE DEF S
  <2> QED
    BY <1>4, <1>5, SetInduction
<1>7. Bytes(u[Len(s)]) = s
  BY <1>2, <1>3, <1>6
<1> QED
  BY <1>1, <1>2, <1>7

\* What is loaded of a file, and that it is the whole of a text file.
LEMMA CStringText ==
    ASSUME NEW c \in Seq(Printable \cup {NL, NUL})
    PROVE  CString(c) \in Seq(TextByte) /\ (IsText(c) => CString(c) = c)
<1> DEFINE T == {n \in 0..Len(c) : n = Len(c) \/ c[n + 1] = NUL}
<1>1. Len(c) \in T /\ T \subseteq Nat
  OBVIOUS
<1>2. PICK n \in T : \A m \in T : n <= m
  <2> HIDE DEF T
  <2> QED
    BY <1>1, LeastNat
<1> DEFINE k == Min(T)
<1>3. k \in T /\ \A m \in T : k <= m
  <2> HIDE DEF T
  <2> QED
    BY <1>2, Zenon DEF Min
<1> HIDE DEF k
<1>4. k \in 0..Len(c)
  BY <1>3
<1>5. \A i \in 1..k : c[i] # NUL
  <2> SUFFICES ASSUME NEW i \in 1..k, c[i] = NUL PROVE FALSE
    OBVIOUS
  <2>1. i - 1 \in T
    BY <1>4
  <2>2. k <= i - 1
    <3> HIDE DEF T
    <3> QED
      BY <2>1, <1>3
  <2> QED
    BY <2>2, <1>4
<1>6. /\ FirstOf(c, k) \in Seq(Printable \cup {NL, NUL}) /\ Len(FirstOf(c, k)) = k
      /\ \A i \in 1..k : FirstOf(c, k)[i] = c[i]
  BY <1>4, Parts DEF FirstOf
<1>7. CString(c) = FirstOf(c, k)
  BY DEF CString, k
<1>8. \A i \in 1..k : FirstOf(c, k)[i] \in TextByte
  <2>1. \A i \in 1..k : c[i] \in Printable \cup {NL, NUL}
    BY <1>4
  <2> QED
    BY <2>1, <1>5, <1>6 DEF TextByte
<1>9. FirstOf(c, k) \in Seq(TextByte)
  <2>1. FirstOf(c, k) = [i \in 1..k |-> FirstOf(c, k)[i]]
    BY <1>6
  <2> QED
    BY <2>1, <1>4, <1>8
<1>10. ASSUME IsText(c) PROVE FirstOf(c, k) = c
  <2>1. k = Len(c)
    <3>1. k \in T
      BY <1>3
    <3>2. k # Len(c) => k + 1 \in 1..Len(c) /\ c[k + 1] = NUL
      BY <3>1
    <3> QED
      BY <3>2, <1>10 DEF IsText
  <2> QED
    BY <2>1, <1>6, SeqEqual
<1> QED
  BY <1>7, <1>9, <1>10

-----------------------------------------------------------------------------
\* The inductive invariant.

Order == [i \in 1..Cardinality(used) |-> Chain[i]]

Types ==
    /\ text \in [Node -> Line]
    /\ x \in Nat /\ y \in Nat /\ scroll_offset \in Nat
    /\ mode \in {"E_CMD", "E_EDI"}
    /\ modified \in BOOLEAN
    /\ fileStat \in {"FS_NEW", "FS_EST"}
    /\ pc \in {"editing", "quit", "forced"}
    /\ uncounted \in {0, 1}

\* The list is one, and the cursor is on its line y + 1 and inside it.
OnList ==
    /\ IsList(Order, Cardinality(used), next, prev, used)
    /\ y + 1 \in 1..Cardinality(used)
    /\ current_line = Order[y + 1]
    /\ x <= Len(text[current_line])
    /\ line_count = Cardinality(used) - uncounted

IInv == Types /\ OnList

\* A list is the chain of its fields, and what the editor shows is its text.
LEMMA ListText ==
    ASSUME NEW s, NEW n, NEW nx, NEW pv, NEW us, IsList(s, n, nx, pv, us), NEW tx
    PROVE  /\ Cardinality(us) = n
           /\ [i \in 1..Cardinality(us) |-> ChainOf(nx)[i]] = s
           /\ [i \in 1..Cardinality(us) |-> IF ChainOf(nx)[i] = NULL THEN <<>>
                                            ELSE tx[ChainOf(nx)[i]]]
                = [i \in 1..n |-> tx[s[i]]]
<1>1. Cardinality(us) = n
  BY DEF IsList
<1>2. \A i \in 1..n : ChainOf(nx)[i] = s[i]
  BY ListIsChain
<1>3. [i \in 1..n |-> ChainOf(nx)[i]] = s
  <2>1. s = [i \in 1..n |-> s[i]]
    BY DEF IsList
  <2> QED
    BY <1>2, <2>1
<1>4. \A i \in 1..n : s[i] # NULL
  BY Nodes, ZenonT(60) DEF IsList
<1> QED
  BY <1>1, <1>2, <1>3, <1>4

\* The same of the list as it is, and as a step leaves it.
LEMMA ListNow ==
    ASSUME NEW s, NEW n, IsList(s, n, next, prev, used)
    PROVE  /\ Cardinality(used) = n /\ Order = s
           /\ Buffer = [i \in 1..n |-> text[s[i]]]
BY ListText DEF Order, Buffer, Chain

LEMMA NewList ==
    ASSUME NEW s, NEW n, IsList(s, n, next', prev', used')
    PROVE  /\ Cardinality(used') = n /\ Order' = s
           /\ IsList(Order', Cardinality(used'), next', prev', used')
           /\ Buffer' = [i \in 1..n |-> text'[s[i]]]
<1>1. Cardinality(used') = n /\ Order' = s /\ Buffer' = [i \in 1..n |-> text'[s[i]]]
  BY ListText DEF Order, Buffer, Chain
<1> QED
  BY <1>1

\* What the editor shows is the text of the nodes of the list.
LEMMA BufferIs ==
    ASSUME IInv
    PROVE  /\ Cardinality(used) \in Nat \ {0}
           /\ Buffer \in Seq(Line) /\ Len(Buffer) = Cardinality(used) /\ Buffer # <<>>
           /\ \A i \in 1..Cardinality(used) : /\ Order[i] \in Node /\ Order[i] \in used
                                              /\ Buffer[i] = text[Order[i]]
           /\ current_line \in Node /\ current_line \in used
           /\ Buffer[y + 1] = text[current_line]
           /\ Buffer = [i \in 1..Cardinality(used) |-> text[Order[i]]]
<1>1. Cardinality(used) \in Nat \ {0} /\ used \subseteq Node
  BY DEF IInv, OnList, IsList
<1>2. \A i \in 1..Cardinality(used) : Order[i] \in used /\ Order[i] \in Node /\ Order[i] # NULL
  <2>1. Order \in [1..Cardinality(used) -> used]
    BY DEF IInv, OnList, IsList
  <2> QED
    BY <2>1, <1>1, Nodes
<1>3. \A i \in 1..Cardinality(used) : Buffer[i] = text[Order[i]]
  BY <1>2 DEF Buffer, Order
<1>4. \A i \in 1..Cardinality(used) : Buffer[i] \in Line
  BY <1>2, <1>3 DEF IInv, Types
<1>5. Buffer \in Seq(Line) /\ Len(Buffer) = Cardinality(used)
  BY <1>1, <1>4 DEF Buffer
<1>6. Buffer = [i \in 1..Cardinality(used) |-> text[Order[i]]]
  BY <1>3 DEF Buffer
<1>7. y + 1 \in 1..Cardinality(used) /\ current_line = Order[y + 1]
  BY DEF IInv, OnList
<1> QED
  BY <1>1, <1>2, <1>3, <1>5, <1>6, <1>7

\* The line of the cursor, its neighbours, and the parts on both sides of it.
LEMMA Cursor ==
    ASSUME IInv
    PROVE  /\ text[current_line] \in Line /\ Len(text[current_line]) \in Nat
           /\ x \in 0..Len(text[current_line])
           /\ prev[current_line] # NULL <=> y > 0
           /\ y > 0 => y \in 1..Cardinality(used) /\ prev[current_line] = Order[y]
           /\ next[current_line] # NULL <=> y + 1 < Cardinality(used)
           /\ y + 1 < Cardinality(used) =>
                 /\ y + 2 \in 1..Cardinality(used)
                 /\ next[current_line] = Order[y + 2]
<1>1. text[current_line] \in Line /\ Len(text[current_line]) \in Nat
  BY BufferIs DEF IInv, Types, Line
<1>2. x \in 0..Len(text[current_line])
  BY <1>1 DEF IInv, Types, OnList
<1>3. y \in Nat /\ y + 1 \in 1..Cardinality(used) /\ Cardinality(used) \in Nat
      /\ current_line = Order[y + 1]
  BY BufferIs DEF IInv, Types, OnList
<1>4. prev[current_line] = IF y + 1 > 1 THEN Order[(y + 1) - 1] ELSE NULL
  BY <1>3 DEF IInv, OnList, IsList
<1>5. next[current_line] = IF y + 1 < Cardinality(used) THEN Order[(y + 1) + 1] ELSE NULL
  BY <1>3 DEF IInv, OnList, IsList
<1>6. \A i \in 1..Cardinality(used) : Order[i] # NULL
  BY BufferIs, Nodes
<1>7. (y + 1) - 1 = y /\ (y + 1) + 1 = y + 2 /\ (y + 1 > 1 <=> y > 0)
  BY <1>3
<1>8. y > 0 => y \in 1..Cardinality(used)
  BY <1>3
<1>9. y + 1 < Cardinality(used) => y + 2 \in 1..Cardinality(used)
  BY <1>3
<1> QED
  BY <1>1, <1>2, <1>4, <1>5, <1>6, <1>7, <1>8, <1>9

\* The window follows the cursor.
LEMMA ScrollStep ==
    ASSUME scroll_offset \in Nat, y' \in Nat, Scroll
    PROVE  scroll_offset' \in Nat /\ CursorVisible'
BY SizeAssumption DEF Scroll, CursorVisible

-----------------------------------------------------------------------------
\* The steps: each preserves the invariant and is the step of TextBuffer.

USE DEF Text!Before, Text!Behind, FirstOf, RestOf

LEMMA SameNodes ==
    ASSUME IInv, UNCHANGED <<next, prev, used>>
    PROVE  /\ Order' = Order
           /\ IsList(Order', Cardinality(used'), next', prev', used')
           /\ Buffer' = [i \in 1..Cardinality(used) |-> text'[Order[i]]]
<1>1. IsList(Order, Cardinality(used), next', prev', used')
  BY DEF IInv, OnList
<1> QED
  BY <1>1, NewList

\* A change inside the line of the cursor.
LEMMA LineChange ==
    ASSUME IInv, NEW l \in Line, text' = [text EXCEPT ![current_line] = l],
           UNCHANGED <<next, prev, used, y, current_line, line_count, uncounted>>,
           x' \in 0..Len(l)
    PROVE  /\ text' \in [Node -> Line] /\ OnList'
           /\ Buffer' = [Buffer EXCEPT ![y + 1] = l]
<1>1. text' \in [Node -> Line] /\ current_line \in Node /\ text'[current_line] = l
  BY BufferIs DEF IInv, Types
<1>2. Order' = Order /\ IsList(Order', Cardinality(used'), next', prev', used')
  BY SameNodes
<1>3. Len(l) \in Nat
  BY DEF Line
<1>4. OnList'
  BY <1>1, <1>2, <1>3 DEF IInv, OnList
<1>5. \A i \in 1..Cardinality(used) : text'[Order[i]] = IF i = y + 1 THEN l ELSE text[Order[i]]
  <2> SUFFICES ASSUME NEW i \in 1..Cardinality(used)
               PROVE  text'[Order[i]] = IF i = y + 1 THEN l ELSE text[Order[i]]
    OBVIOUS
  <2>1. i = y + 1 <=> Order[i] = current_line
    BY DEF IInv, OnList, IsList
  <2> QED
    BY <2>1, BufferIs DEF IInv, Types
<1>6. Buffer' = [i \in 1..Cardinality(used) |-> IF i = y + 1 THEN l ELSE text[Order[i]]]
  BY <1>5, SameNodes
<1>7. y + 1 \in 1..Cardinality(used)
  BY DEF IInv, OnList
<1>8. Buffer' = [Buffer EXCEPT ![y + 1] = l]
  BY <1>6, <1>7, BufferIs
<1> QED
  BY <1>1, <1>4, <1>8

LEMMA InsertStep ==
    ASSUME IInv, NEW s \in Line, InsertString(s)
    PROVE  IInv' /\ CursorVisible' /\ modified' /\ UNCHANGED fileVars /\ Text!Type(s)
<1> DEFINE old == text[current_line]
           l == FirstOf(old, x) \o s \o RestOf(old, x)
<1>1. old \in Line /\ Len(old) \in Nat /\ x \in 0..Len(old) /\ Len(s) \in Nat
  BY Cursor DEF Line
<1>2. l \in Line /\ Len(l) = Len(old) + Len(s)
  <2>1. old \in Seq(Printable) /\ s \in Seq(Printable) /\ x \in x..Len(old)
    BY <1>1 DEF Line
  <2>2. l = Splice(old, x, x, s)
    BY DEF Splice
  <2> HIDE DEF l, old
  <2>3. IsSplice(l, Printable, old, x, x, s)
    BY <2>1, <2>2, <1>1, Replaced
  <2>4. l \in Seq(Printable) /\ Len(l) = x + Len(s) + (Len(old) - x)
    BY <2>3 DEF IsSplice
  <2> QED
    BY <2>4, <1>1 DEF Line
<1>3. /\ text' = [text EXCEPT ![current_line] = l]
      /\ UNCHANGED <<next, prev, used, y, current_line, line_count, mode>>
      /\ UNCHANGED fileVars /\ modified' = TRUE /\ x' = x + Len(s) /\ Scroll
  BY DEF InsertString
<1> HIDE DEF l
<1>4. x' \in 0..Len(l)
  BY <1>1, <1>2, <1>3
<1>5. /\ text' \in [Node -> Line] /\ OnList'
      /\ Buffer' = [Buffer EXCEPT ![y + 1] = l]
  BY <1>2, <1>3, <1>4, LineChange DEF fileVars
<1>6. scroll_offset' \in Nat /\ CursorVisible'
  BY <1>3, ScrollStep DEF IInv, Types
<1>7. IInv'
  BY <1>1, <1>3, <1>5, <1>6 DEF IInv, Types, fileVars
<1>8. Text!Type(s)
  <2>1. Buffer[y + 1] = old
    BY BufferIs
  <2> QED
    BY <2>1, <1>3, <1>5 DEF Text!Type, l
<1> QED
  BY <1>3, <1>6, <1>7, <1>8

LEMMA DeleteStep ==
    ASSUME IInv, DeleteChar
    PROVE  IInv' /\ CursorVisible' /\ modified' /\ UNCHANGED fileVars /\ Text!DeleteBack
<1> DEFINE old == text[current_line]
           l == FirstOf(old, x - 1) \o RestOf(old, x)
<1>1. old \in Line /\ Len(old) \in Nat /\ x \in 1..Len(old)
  BY Cursor DEF DeleteChar
<1>2. l \in Line /\ Len(l) = Len(old) - 1
  <2> DEFINE u == FirstOf(old, x - 1)
             v == RestOf(old, x)
  <2> HIDE DEF old
  <2>1. /\ u \in Seq(Printable) /\ Len(u) = x - 1
        /\ v \in Seq(Printable) /\ Len(v) = Len(old) - x
    <3>1. x - 1 \in 0..Len(old) /\ x \in 0..Len(old) /\ old \in Seq(Printable)
      BY <1>1 DEF Line
    <3> QED
      BY <3>1, Parts
  <2> HIDE DEF u, v
  <2>2. u \o v \in Seq(Printable) /\ Len(u \o v) = Len(u) + Len(v)
    BY <2>1, ConcatProperties
  <2>3. u \o v \in Line /\ Len(u \o v) = Len(old) - 1
    BY <2>1, <2>2, <1>1 DEF Line
  <2> QED
    BY <2>3 DEF u, v
<1>3. /\ text' = [text EXCEPT ![current_line] = l]
      /\ UNCHANGED <<next, prev, used, y, current_line, line_count, mode>>
      /\ UNCHANGED fileVars /\ modified' = TRUE /\ x' = x - 1 /\ Scroll /\ x > 0
  BY DEF DeleteChar
<1> HIDE DEF l
<1>4. x' \in 0..Len(l)
  BY <1>1, <1>2, <1>3
<1>5. /\ text' \in [Node -> Line] /\ OnList'
      /\ Buffer' = [Buffer EXCEPT ![y + 1] = l]
  BY <1>2, <1>3, <1>4, LineChange DEF fileVars
<1>6. scroll_offset' \in Nat /\ CursorVisible'
  BY <1>3, ScrollStep DEF IInv, Types
<1>7. IInv'
  BY <1>1, <1>3, <1>5, <1>6 DEF IInv, Types, fileVars
<1>8. Text!DeleteBack
  <2>1. Buffer[y + 1] = old
    BY BufferIs
  <2> QED
    BY <2>1, <1>3, <1>5 DEF Text!DeleteBack, l
<1> QED
  BY <1>3, <1>6, <1>7, <1>8

LEMMA MergeStep ==
    ASSUME IInv, MergeLines
    PROVE  IInv' /\ CursorVisible' /\ modified' /\ UNCHANGED fileVars /\ Text!Join
<1> DEFINE n == Cardinality(used)
           cur == current_line
           line == prev[cur]
           joined == text[line] \o text[cur]
           s2 == [i \in 1..(n - 1) |-> IF i < y + 1 THEN Order[i] ELSE Order[i + 1]]
<1>1. /\ x = 0 /\ line # NULL
      /\ text' = [text EXCEPT ![line] = @ \o text[cur], ![cur] = <<>>]
      /\ next' = [next EXCEPT ![line] = next[cur], ![cur] = NULL]
      /\ prev' = [k \in Node |-> IF k = cur THEN NULL
                                 ELSE IF k = next[cur] THEN line ELSE prev[k]]
      /\ used' = used \ {cur}
      /\ line_count' = line_count - 1 /\ modified' = TRUE
      /\ current_line' = line /\ y' = y - 1 /\ x' = Len(text[line])
      /\ UNCHANGED fileVars /\ UNCHANGED mode /\ Scroll
  BY DEF MergeLines
<1>2. /\ n \in Nat \ {0} /\ y \in 1..n /\ y + 1 \in 2..n /\ (y + 1) - 1 = y
      /\ cur = Order[y + 1] /\ line = Order[y]
      /\ cur \in Node /\ line \in Node /\ cur # line
      /\ \A i, j \in 1..n : Order[i] = Order[j] => i = j
      /\ \A i \in 1..n : Order[i] \in Node
  <2>1. /\ n \in Nat \ {0} /\ y + 1 \in 1..n /\ cur = Order[y + 1]
        /\ \A i \in 1..n : Order[i] \in Node
        /\ \A i, j \in 1..n : Order[i] = Order[j] => i = j
    BY BufferIs DEF IInv, OnList, IsList
  <2>2. y > 0 /\ y \in 1..n /\ line = Order[y]
    BY <1>1, Cursor
  <2>3. y + 1 \in 2..n /\ (y + 1) - 1 = y /\ y # y + 1
    BY <2>1, <2>2
  <2> QED
    BY <2>1, <2>2, <2>3
<1>3. IsList(s2, n - 1, next', prev', used')
  <2>1. IsList(Order, n, next, prev, used)
    BY DEF IInv, OnList
  <2> DEFINE r == y + 1
  <2>2. r \in 2..n /\ Order[r] = cur /\ Order[r - 1] = line
    BY <1>2
  <2> HIDE DEF n, cur, line, r
  <2>3. IsList(Removed(Order, n, r), n - 1, NextUnlinked(next, Order[r - 1], Order[r]),
               PrevUnlinked(next, prev, Order[r - 1], Order[r]), used \ {Order[r]})
    BY <2>1, <2>2, ListRemove
  <2> QED
    BY <2>2, <2>3, <1>1 DEF r, Removed, NextUnlinked, PrevUnlinked
<1>4. /\ text[line] \in Line /\ text[cur] \in Line /\ joined \in Line
      /\ Len(text[line]) \in Nat /\ Len(joined) = Len(text[line]) + Len(text[cur])
      /\ Len(text[cur]) \in Nat
  <2>1. text[line] \in Seq(Printable) /\ text[cur] \in Seq(Printable)
    BY <1>2 DEF IInv, Types, Line
  <2> QED
    BY <2>1, ConcatProperties DEF Line
<1>5. /\ text' \in [Node -> Line]
      /\ \A k \in Node : text'[k] = IF k = cur THEN <<>>
                                    ELSE IF k = line THEN joined ELSE text[k]
  <2>1. text \in [Node -> Line] /\ <<>> \in Line
    BY DEF IInv, Types, Line
  <2>2. text' = [text EXCEPT ![line] = joined, ![cur] = <<>>]
    BY <1>1, <1>2, <2>1
  <2> HIDE DEF cur, line, joined
  <2> QED
    BY <2>1, <2>2, <1>2, <1>4
<1>6. /\ Cardinality(used') = n - 1 /\ Order' = s2
      /\ IsList(Order', Cardinality(used'), next', prev', used')
      /\ Buffer' = [i \in 1..(n - 1) |-> text'[s2[i]]]
  <2> HIDE DEF s2, n
  <2> QED
    BY <1>3, NewList
<1>7. /\ Buffer \in Seq(Line) /\ Len(Buffer) = n
      /\ \A i \in 1..n : Buffer[i] = text[Order[i]]
  BY BufferIs
<1> HIDE DEF n, cur, line, joined
<1>8. y' + 1 \in 1..(n - 1) /\ s2[y' + 1] = line /\ y' \in Nat
  BY <1>1, <1>2
<1>9. OnList'
  <2>1. x' <= Len(text'[line])
    BY <1>1, <1>2, <1>4, <1>5
  <2>2. line_count = n - uncounted /\ line_count' = line_count - 1 /\ uncounted' = uncounted
    BY <1>1 DEF IInv, OnList, n, fileVars
  <2>3. line_count' = Cardinality(used') - uncounted'
    BY <2>2, <1>2, <1>6 DEF IInv, Types
  <2> HIDE DEF s2
  <2> QED
    BY <2>1, <2>3, <1>1, <1>6, <1>8 DEF OnList
<1>10. scroll_offset' \in Nat /\ CursorVisible'
  BY <1>1, <1>8, ScrollStep DEF IInv, Types
<1>11. IInv'
  BY <1>1, <1>4, <1>5, <1>8, <1>9, <1>10 DEF IInv, Types, fileVars
<1>12. Buffer' = Splice(Buffer, y - 1, y + 1, <<joined>>)
  <2> DEFINE r == Splice(Buffer, y - 1, y + 1, <<joined>>)
  <2>1. /\ r \in Seq(Line) /\ Len(r) = n - 1
        /\ \A i \in 1..(n - 1) : r[i] = IF i < y THEN Buffer[i]
                                        ELSE IF i = y THEN joined ELSE Buffer[i + 1]
    <3>1. /\ y - 1 \in 0..Len(Buffer) /\ y + 1 \in (y - 1)..Len(Buffer)
          /\ <<joined>> \in Seq(Line) /\ Len(<<joined>>) = 1
      BY <1>2, <1>4, <1>7
    <3>2. /\ r \in Seq(Line) /\ Len(r) = (y - 1) + Len(<<joined>>) + (Len(Buffer) - (y + 1))
          /\ \A i \in 1..Len(r) :
                r[i] = IF i <= y - 1 THEN Buffer[i]
                       ELSE IF i <= (y - 1) + Len(<<joined>>) THEN <<joined>>[i - (y - 1)]
                       ELSE Buffer[i - (y - 1) - Len(<<joined>>) + (y + 1)]
      <4> DEFINE a == y - 1
                 b == y + 1
                 m == <<joined>>
      <4>1. a \in 0..Len(Buffer) /\ b \in a..Len(Buffer) /\ m \in Seq(Line)
        BY <3>1
      <4> HIDE DEF a, b, m
      <4>2. IsSplice(Splice(Buffer, a, b, m), Line, Buffer, a, b, m)
        BY <4>1, <1>7, Replaced
      <4>3. IsSplice(r, Line, Buffer, y - 1, y + 1, <<joined>>)
        BY <4>2 DEF a, b, m
      <4> HIDE DEF r
      <4> QED
        BY <4>3 DEF IsSplice
    <3> HIDE DEF r
    <3>3. Len(r) = n - 1
      BY <3>1, <3>2, <1>2, <1>7
    <3>4. ASSUME NEW i \in 1..(n - 1)
          PROVE  r[i] = IF i < y THEN Buffer[i] ELSE IF i = y THEN joined ELSE Buffer[i + 1]
      <4>1. CASE i < y
        BY <4>1, <3>2, <3>3, <1>2
      <4>2. CASE i = y
        <5>1. i - (y - 1) = 1 /\ ~(i <= y - 1) /\ i <= (y - 1) + 1
          BY <4>2, <1>2
        <5> QED
          BY <5>1, <4>2, <3>1, <3>2, <3>3, <1>2
      <4>3. CASE i > y
        <5>1. i - (y - 1) - 1 + (y + 1) = i + 1 /\ ~(i <= y - 1) /\ ~(i <= (y - 1) + 1)
          BY <4>3, <1>2
        <5> QED
          BY <5>1, <4>3, <3>1, <3>2, <3>3, <1>2
      <4> QED
        BY <4>1, <4>2, <4>3, <1>2
    <3> QED
      BY <3>2, <3>3, <3>4
  <2> HIDE DEF r
  <2>2. ASSUME NEW i \in 1..(n - 1) PROVE text'[s2[i]] = r[i]
    <3>1. CASE i < y
      <4>1. s2[i] = Order[i] /\ i \in 1..n /\ i # y /\ i # y + 1
        BY <3>1, <1>2
      <4>2. Order[i] \in Node /\ Order[i] # cur /\ Order[i] # line
        BY <4>1, <1>2
      <4> QED
        BY <4>1, <4>2, <3>1, <2>1, <1>5, <1>7
    <3>2. CASE i = y
      <4>1. s2[i] = line
        BY <3>2, <1>2
      <4> QED
        BY <4>1, <3>2, <2>1, <1>2, <1>5
    <3>3. CASE i > y
      <4>1. s2[i] = Order[i + 1] /\ i + 1 \in 1..n /\ i + 1 # y /\ i + 1 # y + 1
        BY <3>3, <1>2
      <4>2. Order[i + 1] \in Node /\ Order[i + 1] # cur /\ Order[i + 1] # line
        BY <4>1, <1>2
      <4>3. r[i] = Buffer[i + 1]
        BY <3>3, <2>1, <1>2
      <4> QED
        BY <4>1, <4>2, <4>3, <1>5, <1>7
    <3> QED
      BY <3>1, <3>2, <3>3, <1>2
  <2>3. r = [i \in 1..(n - 1) |-> r[i]]
    BY <2>1
  <2>4. Buffer' = r
    <3> HIDE DEF s2
    <3> QED
      BY <2>2, <2>3, <1>6
  <2> QED
    BY <2>4 DEF r
<1>13. Text!Join
  <2>1. /\ y + 1 > 1 /\ (y + 1) - 2 = y - 1 /\ (y + 1) - 1 = y
        /\ Buffer[y] = text[line] /\ Buffer[y + 1] = text[cur]
        /\ y' + 1 = y
    BY <1>1, <1>2, <1>7
  <2>2. Buffer' = SubSeq(Buffer, 1, y - 1) \o <<Buffer[y] \o Buffer[y + 1]>>
                    \o SubSeq(Buffer, (y + 1) + 1, Len(Buffer))
    BY <2>1, <1>12 DEF Splice, joined
  <2> QED
    BY <2>1, <2>2, <1>1 DEF Text!Join
<1> QED
  BY <1>1, <1>10, <1>11, <1>13

LEMMA SplitStep ==
    ASSUME IInv, SplitLine
    PROVE  IInv' /\ CursorVisible' /\ modified' /\ UNCHANGED fileVars /\ Text!Break
<1> DEFINE n == Cardinality(used)
           line == current_line
           old == text[line]
           left == FirstOf(old, x)
           right == RestOf(old, x)
<1>1. PICK new \in Node \ used :
        /\ text' = [text EXCEPT ![new] = right, ![line] = FirstOf(@, x)]
        /\ next' = [next EXCEPT ![new] = next[line], ![line] = new]
        /\ prev' = [k \in Node |-> IF k = new THEN line
                                   ELSE IF k = next[line] THEN new ELSE prev[k]]
        /\ used' = used \cup {new}
        /\ line_count' = line_count + 1 /\ modified' = TRUE
        /\ current_line' = new /\ y' = y + 1 /\ x' = 0
        /\ UNCHANGED fileVars /\ UNCHANGED mode /\ Scroll
  BY DEF SplitLine
<1> DEFINE s2 == Inserted(Order, n, y + 1, new)
<1>2. /\ n \in Nat \ {0} /\ y + 1 \in 1..n /\ y \in Nat
      /\ line = Order[y + 1] /\ line \in Node /\ line # new /\ new \in Node
      /\ \A i, j \in 1..n : Order[i] = Order[j] => i = j
      /\ \A i \in 1..n : Order[i] \in Node /\ Order[i] # new
  BY BufferIs DEF IInv, Types, OnList, IsList
<1>3. IsList(s2, n + 1, next', prev', used')
  <2>1. IsList(Order, n, next, prev, used)
    BY DEF IInv, OnList
  <2> DEFINE r == y + 1
  <2>2. r \in 1..n /\ Order[r] = line
    BY <1>2
  <2> HIDE DEF n, line, r
  <2>3. IsList(Inserted(Order, n, r, new), n + 1, NextLinked(next, Order[r], new),
               PrevLinked(next, prev, Order[r], new), used \cup {new})
    BY <2>1, <2>2, ListInsert
  <2> QED
    BY <2>2, <2>3, <1>1 DEF r, NextLinked, PrevLinked
<1>4. old \in Line /\ left \in Line /\ right \in Line /\ Len(left) \in Nat
  <2>1. old \in Seq(Printable) /\ x \in 0..Len(old)
    BY Cursor DEF Line
  <2> HIDE DEF old
  <2> QED
    BY <2>1, Parts DEF Line
<1>5. /\ text' \in [Node -> Line]
      /\ \A k \in Node : text'[k] = IF k = line THEN left
                                    ELSE IF k = new THEN right ELSE text[k]
  <2>1. text \in [Node -> Line]
    BY DEF IInv, Types
  <2>2. text' = [text EXCEPT ![new] = right, ![line] = left]
    BY <1>1, <1>2, <2>1
  <2> HIDE DEF line, left, right
  <2> QED
    BY <2>1, <2>2, <1>2, <1>4
<1>6. /\ Cardinality(used') = n + 1 /\ Order' = s2
      /\ IsList(Order', Cardinality(used'), next', prev', used')
      /\ Buffer' = [i \in 1..(n + 1) |-> text'[s2[i]]]
  <2> HIDE DEF s2, n
  <2> QED
    BY <1>3, NewList
<1>7. /\ Buffer \in Seq(Line) /\ Len(Buffer) = n
      /\ \A i \in 1..n : Buffer[i] = text[Order[i]]
  BY BufferIs
<1> HIDE DEF n, line, old, left, right
<1>8. /\ \A i \in 1..(n + 1) : /\ i <= y + 1 => s2[i] = Order[i]
                               /\ i = y + 2 => s2[i] = new
                               /\ i > y + 2 => s2[i] = Order[i - 1]
      /\ y' + 1 \in 1..(n + 1) /\ s2[y' + 1] = new /\ y' \in Nat
  BY <1>1, <1>2 DEF Inserted
<1>9. OnList'
  <2>1. x' <= Len(text'[new])
    <3>1. right \in Line /\ text'[new] = right
      BY <1>2, <1>4, <1>5
    <3>2. Len(right) >= 0
      BY <3>1 DEF Line
    <3> QED
      BY <3>1, <3>2, <1>1
  <2>2. line_count = n - uncounted /\ line_count' = line_count + 1 /\ uncounted' = uncounted
    BY <1>1 DEF IInv, OnList, n, fileVars
  <2>3. line_count' = Cardinality(used') - uncounted'
    BY <2>2, <1>2, <1>6 DEF IInv, Types
  <2> HIDE DEF s2
  <2> QED
    BY <2>1, <2>3, <1>1, <1>6, <1>8 DEF OnList
<1>10. scroll_offset' \in Nat /\ CursorVisible'
  BY <1>1, <1>8, ScrollStep DEF IInv, Types
<1>11. IInv'
  BY <1>1, <1>5, <1>8, <1>9, <1>10 DEF IInv, Types, fileVars
<1>12. Buffer' = Splice(Buffer, y, y + 1, <<left, right>>)
  <2> DEFINE r == Splice(Buffer, y, y + 1, <<left, right>>)
  <2>1. /\ r \in Seq(Line) /\ Len(r) = n + 1
        /\ \A i \in 1..(n + 1) : /\ i <= y => r[i] = Buffer[i]
                                 /\ i = y + 1 => r[i] = left
                                 /\ i = y + 2 => r[i] = right
                                 /\ i > y + 2 => r[i] = Buffer[i - 1]
    <3> DEFINE a == y
               b == y + 1
               m == <<left, right>>
    <3>1. Len(m) = 2 /\ m[1] = left /\ m[2] = right
      OBVIOUS
    <3>2. a \in 0..Len(Buffer) /\ b \in a..Len(Buffer) /\ m \in Seq(Line)
      BY <1>2, <1>4, <1>7
    <3> HIDE DEF a, b, m
    <3>3. IsSplice(r, Line, Buffer, a, b, m)
      <4>1. IsSplice(Splice(Buffer, a, b, m), Line, Buffer, a, b, m)
        BY <3>2, <1>7, Replaced
      <4> QED
        BY <4>1 DEF a, b, m
    <3>4. b = y + 1 /\ a = y
      BY DEF a, b
    <3> HIDE DEF r
    <3>5. Len(r) = n + 1
      BY <3>1, <3>3, <3>4, <1>2, <1>7 DEF IsSplice
    <3>6. ASSUME NEW i \in 1..(n + 1)
          PROVE  /\ i <= y => r[i] = Buffer[i]
                 /\ i = y + 1 => r[i] = left
                 /\ i = y + 2 => r[i] = right
                 /\ i > y + 2 => r[i] = Buffer[i - 1]
      <4>1. r[i] = IF i <= y THEN Buffer[i]
                   ELSE IF i <= y + 2 THEN m[i - y] ELSE Buffer[i - y - 2 + b]
        BY <3>1, <3>3, <3>4, <3>5 DEF IsSplice
      <4>2. i = y + 1 => ~(i <= y) /\ i <= y + 2 /\ i - y = 1
        BY <1>2
      <4>3. i = y + 2 => ~(i <= y) /\ i <= y + 2 /\ i - y = 2
        BY <1>2
      <4>4. i > y + 2 => ~(i <= y) /\ ~(i <= y + 2) /\ i - y - 2 + b = i - 1
        BY <1>2, <3>4
      <4> QED
        BY <4>1, <4>2, <4>3, <4>4, <3>1
    <3> QED
      BY <3>3, <3>4, <3>5, <3>6 DEF IsSplice
  <2> HIDE DEF r
  <2>2. ASSUME NEW i \in 1..(n + 1) PROVE text'[s2[i]] = r[i]
    <3> HIDE DEF s2
    <3>1. CASE i <= y
      <4>1. s2[i] = Order[i] /\ i \in 1..n /\ i # y + 1
        BY <3>1, <1>2, <1>8
      <4>2. Order[i] \in Node /\ Order[i] # line /\ Order[i] # new
        BY <4>1, <1>2
      <4> QED
        BY <4>1, <4>2, <3>1, <2>1, <1>5, <1>7
    <3>2. CASE i = y + 1
      <4>1. s2[i] = line
        BY <3>2, <1>2, <1>8
      <4> QED
        BY <4>1, <3>2, <2>1, <1>2, <1>5
    <3>3. CASE i = y + 2
      <4>1. s2[i] = new
        BY <3>3, <1>2, <1>8
      <4> QED
        BY <4>1, <3>3, <2>1, <1>2, <1>5
    <3>4. CASE i > y + 2
      <4>1. s2[i] = Order[i - 1] /\ i - 1 \in 1..n /\ i - 1 # y + 1
        BY <3>4, <1>2, <1>8
      <4>2. Order[i - 1] \in Node /\ Order[i - 1] # line /\ Order[i - 1] # new
        BY <4>1, <1>2
      <4>3. r[i] = Buffer[i - 1]
        BY <3>4, <2>1, <1>2
      <4> QED
        BY <4>1, <4>2, <4>3, <1>5, <1>7
    <3> QED
      BY <3>1, <3>2, <3>3, <3>4, <1>2
  <2>3. r = [i \in 1..(n + 1) |-> r[i]]
    BY <2>1
  <2>4. Buffer' = r
    <3> HIDE DEF s2
    <3> QED
      BY <2>2, <2>3, <1>6
  <2> QED
    BY <2>4 DEF r
<1>13. Text!Break
  <2>1. (y + 1) - 1 = y /\ Buffer[y + 1] = old /\ y' + 1 = (y + 1) + 1 /\ x' = 0
    BY <1>1, <1>2, <1>7 DEF old
  <2>2. Buffer' = SubSeq(Buffer, 1, y) \o <<left, right>>
                    \o SubSeq(Buffer, (y + 1) + 1, Len(Buffer))
    BY <1>12 DEF Splice
  <2> QED
    BY <2>1, <2>2 DEF Text!Break, left, right
<1> QED
  BY <1>1, <1>10, <1>11, <1>13

\* A key that only moves the cursor, or changes nothing but the mode or the
\* file, leaves the text as it is.
LEMMA SameText ==
    ASSUME IInv, UNCHANGED <<text, next, prev, used>>
    PROVE  /\ Order' = Order /\ Buffer' = Buffer
           /\ IsList(Order', Cardinality(used'), next', prev', used')
BY SameNodes, BufferIs

LEMMA MoveStep ==
    ASSUME IInv, MoveCursor
    PROVE  IInv' /\ CursorVisible' /\ Text!Move
<1>1. /\ UNCHANGED listVars /\ UNCHANGED fileVars /\ UNCHANGED mode
      /\ UNCHANGED modified /\ Scroll
  BY DEF MoveCursor, MoveX, MoveTo
<1>2. /\ Order' = Order /\ Buffer' = Buffer
      /\ IsList(Order', Cardinality(used'), next', prev', used')
  BY <1>1, SameText DEF listVars
<1>3. /\ text[current_line] \in Line /\ Len(text[current_line]) \in Nat
      /\ x \in 0..Len(text[current_line])
      /\ Cardinality(used) \in Nat \ {0} /\ y + 1 \in 1..Cardinality(used) /\ y \in Nat
      /\ current_line = Order[y + 1]
  BY Cursor, BufferIs DEF IInv, Types, OnList
<1> DEFINE Moved == /\ y' + 1 \in 1..Cardinality(used) /\ y' \in Nat
                    /\ y' - y \in {-1, 0, 1}
                    /\ current_line' = Order[y' + 1]
                    /\ x' \in 0..Len(text[current_line'])
<1>4. Moved
  <2>1. ASSUME NEW to \in 0..Len(text[current_line]), MoveX(to) PROVE Moved
    BY <2>1, <1>3 DEF MoveX
  <2>2. ASSUME NEW node \in Node, MoveTo(node, -1), node = prev[current_line]
        PROVE  Moved
    <3>1. y > 0 /\ y \in 1..Cardinality(used) /\ node = Order[y]
      BY <2>2, Cursor DEF MoveTo
    <3>2. current_line' = node /\ y' = y - 1
          /\ x' = IF x > Len(text[node]) THEN Len(text[node]) ELSE x
      BY <2>2, <1>3 DEF MoveTo
    <3>3. Len(text[node]) \in Nat
      BY <3>1, BufferIs DEF IInv, Types, Line
    <3> QED
      BY <3>1, <3>2, <3>3, <1>3
  <2>3. ASSUME NEW node \in Node, MoveTo(node, 1), node = next[current_line]
        PROVE  Moved
    <3>1. y + 2 \in 1..Cardinality(used) /\ node = Order[y + 2]
      BY <2>3, Cursor DEF MoveTo
    <3>2. current_line' = node /\ y' = y + 1
          /\ x' = IF x > Len(text[node]) THEN Len(text[node]) ELSE x
      BY <2>3, <1>3 DEF MoveTo
    <3>3. Len(text[node]) \in Nat
      BY <3>1, BufferIs DEF IInv, Types, Line
    <3>4. y' + 1 = y + 2 /\ y' \in Nat /\ y' - y = 1
      BY <3>2, <1>3
    <3> QED
      BY <3>1, <3>2, <3>3, <3>4, <1>3
  <2>4. prev[current_line] # NULL => prev[current_line] \in Node
    BY BufferIs DEF IInv, OnList, IsList
  <2>5. next[current_line] # NULL => next[current_line] \in Node
    BY BufferIs DEF IInv, OnList, IsList
  <2>6. \A node : MoveTo(node, -1) \/ MoveTo(node, 1) => node # NULL
    BY DEF MoveTo
  <2>7. /\ (IF x > 0 THEN x - 1 ELSE 0) \in 0..Len(text[current_line])
        /\ (IF x < Length THEN x + 1 ELSE Length) \in 0..Len(text[current_line])
        /\ 0 \in 0..Len(text[current_line])
        /\ Length \in 0..Len(text[current_line])
    BY <1>3 DEF Length
  <2> HIDE DEF Moved
  <2> QED
    BY <2>1, <2>2, <2>3, <2>4, <2>5, <2>6, <2>7 DEF MoveCursor
<1>5. OnList'
  <2>1. x' <= Len(text'[current_line'])
    <3>1. text[current_line'] \in Line
      BY <1>4, BufferIs DEF IInv, Types
    <3> QED
      BY <3>1, <1>1, <1>4 DEF listVars, Line
  <2> QED
    BY <2>1, <1>1, <1>2, <1>4 DEF IInv, OnList, listVars, fileVars
<1>6. scroll_offset' \in Nat /\ CursorVisible'
  BY <1>1, <1>4, ScrollStep DEF IInv, Types
<1>7. x' \in Nat
  <2>1. text[current_line'] \in Line
    BY <1>4, BufferIs DEF IInv, Types
  <2> QED
    BY <2>1, <1>4 DEF Line
<1>8. IInv'
  BY <1>1, <1>4, <1>5, <1>6, <1>7 DEF IInv, Types, listVars, fileVars
<1>9. Text!Move
  <2>1. /\ Len(Buffer) = Cardinality(used)
        /\ Buffer[y' + 1] = text[current_line']
    BY <1>4, BufferIs
  <2>2. (y' + 1) - (y + 1) = y' - y
    BY <1>3, <1>4
  <2> QED
    BY <2>1, <2>2, <1>2, <1>4 DEF Text!Move
<1> QED
  BY <1>6, <1>8, <1>9

\* Switching the mode and the commands leave the text and the cursor alone.
LEMMA StillStep ==
    ASSUME IInv, CursorVisible, Command \/ \E m \in {"E_CMD", "E_EDI"} : SetMode(m)
    PROVE  IInv' /\ CursorVisible' /\ Buffer' = Buffer /\ y' = y /\ x' = x
<1>1. /\ UNCHANGED listVars /\ UNCHANGED <<current_line, x, y, fileStat, uncounted>>
      /\ mode' \in {"E_CMD", "E_EDI"}
  BY DEF Command, SetMode, fileVars, IInv, Types
<1>2. modified' \in BOOLEAN /\ pc' \in {"editing", "quit", "forced"}
  BY DEF Command, CommandW, CommandWQ, CommandQ, CommandForceQ, SaveFile, SaveFileFails,
         Stay, Quit, SetMode, fileVars, IInv, Types
<1>3. Scroll \/ UNCHANGED scroll_offset
  BY DEF Command, CommandW, CommandWQ, CommandQ, CommandForceQ, Stay, Quit, SetMode
<1>4. scroll_offset' \in Nat /\ CursorVisible'
  <2>1. CASE Scroll
    BY <2>1, <1>1, ScrollStep DEF IInv, Types
  <2>2. CASE UNCHANGED scroll_offset
    BY <2>2, <1>1 DEF CursorVisible, IInv, Types
  <2> QED
    BY <2>1, <2>2, <1>3
<1>5. /\ Order' = Order /\ Buffer' = Buffer
      /\ IsList(Order', Cardinality(used'), next', prev', used')
  BY <1>1, SameText DEF listVars
<1>6. OnList'
  BY <1>1, <1>5 DEF IInv, OnList, listVars
<1>7. IInv'
  BY <1>1, <1>2, <1>4, <1>6 DEF IInv, Types, listVars
<1> QED
  BY <1>1, <1>4, <1>5, <1>7

-----------------------------------------------------------------------------
\* The start.

LEMMA InitStep ==
    ASSUME Init
    PROVE  /\ IInv /\ CursorVisible /\ y = 0 /\ x = 0
           /\ \E c \in Contents \cup {<<>>} :
                 /\ Buffer = LinesOf(CString(c)) /\ disk = c
                 /\ fileStat = "FS_EST" => saved = c
<1>1. PICK c \in Contents \cup {<<>>}, stat \in {"FS_NEW", "FS_EST"} : InitEditor(c, stat)
  BY DEF Init
<1>2. /\ current_line = lines /\ x = 0 /\ y = 0 /\ scroll_offset = 0
      /\ mode = "E_CMD" /\ modified = FALSE /\ pc = "editing"
  BY DEF Init
<1> DEFINE ls == LinesOf(CString(c))
           n == Len(ls)
           s == [i \in 1..n |-> i]
<1>3. c \in Seq(Printable \cup {NL, NUL}) /\ n <= MaxNode
  <2>1. c \in Seq(Printable \cup {NL, NUL})
    <3>1. Contents \subseteq Seq(Printable \cup {NL, NUL})
      BY ContentsAssumption, Zenon
    <3>2. <<>> \in Seq(Printable \cup {NL, NUL})
      OBVIOUS
    <3> QED
      BY <3>1, <3>2
  <2>2. n <= MaxNode
    BY ContentsAssumption, Zenon
  <2> QED
    BY <2>1, <2>2
<1>4. ls \in Seq(Line) /\ ls # <<>>
  BY <1>3, CStringText, RoundTrip
<1>5. n \in Nat \ {0} /\ \A i \in 1..n : ls[i] \in Line
  BY <1>4, EmptySeq
<1>6. /\ text = [k \in Node |-> IF k <= n THEN ls[k] ELSE <<>>]
      /\ next = [k \in Node |-> IF k < n THEN k + 1 ELSE NULL]
      /\ prev = [k \in Node |-> IF k <= n THEN k - 1 ELSE NULL]
      /\ used = 1..n
      /\ uncounted \in {0, 1}
      /\ line_count = n - uncounted
      /\ disk = c
      /\ saved = IF stat = "FS_NEW" THEN Absent ELSE c
      /\ fileStat = stat
  BY <1>1 DEF InitEditor
<1> HIDE DEF ls, n
<1>7. Node = 1..MaxNode /\ MaxNode \in Nat \ {0} /\ NULL = 0 /\ lines = 1
  BY NodeAssumption DEF Node, NULL, lines
<1>8. /\ text \in [Node -> Line] /\ \A i \in 1..n : text[i] = ls[i]
  <2>1. <<>> \in Line
    BY DEF Line
  <2>2. \A k \in Node : (IF k <= n THEN ls[k] ELSE <<>>) \in Line
    BY <2>1, <1>5, <1>7
  <2> QED
    BY <2>2, <1>3, <1>5, <1>6, <1>7
<1>9. IsList(s, n, next, prev, used)
  <2>1. used \subseteq Node /\ Cardinality(used) = n
    <3>1. 1 \in Int /\ n \in Int /\ ~(1 > n) /\ n - 1 + 1 = n
      BY <1>5
    <3>2. Cardinality(1..n) = n
      BY <3>1, FS_Interval
    <3> QED
      BY <3>2, <1>3, <1>5, <1>6, <1>7
  <2>2. /\ next \in [Node -> Node \cup {NULL}]
        /\ prev \in [Node -> Node \cup {NULL}]
    BY <1>3, <1>5, <1>6, <1>7
  <2>3. /\ s \in [1..n -> used] /\ s[1] = lines
        /\ \A i \in 1..n : s[i] = i
    BY <1>5, <1>6, <1>7
  <2>4. \A i \in 1..n : /\ next[i] = IF i < n THEN i + 1 ELSE NULL
                        /\ prev[i] = IF i > 1 THEN i - 1 ELSE NULL
    BY <1>3, <1>5, <1>6, <1>7
  <2>5. \A i \in 1..n : /\ next[s[i]] = IF i < n THEN s[i + 1] ELSE NULL
                        /\ prev[s[i]] = IF i > 1 THEN s[i - 1] ELSE NULL
    <3>1. \A i \in 1..n : (i < n => i + 1 \in 1..n) /\ (i > 1 => i - 1 \in 1..n)
      BY <1>5
    <3> HIDE DEF s
    <3> QED
      BY <3>1, <2>3, <2>4
  <2> HIDE DEF s
  <2> QED
    BY <2>1, <2>2, <2>3, <2>5, <1>5, <1>6 DEF IsList
<1>10. /\ Cardinality(used) = n /\ Order = s
       /\ Buffer = [i \in 1..n |-> text[s[i]]]
  <2> HIDE DEF s
  <2> QED
    BY <1>9, ListNow
<1>11. Buffer = ls
  <2>1. Buffer = [i \in 1..n |-> ls[i]]
    BY <1>8, <1>10
  <2> QED
    BY <2>1, <1>4 DEF n
<1>12. OnList
  <2>1. 1 \in 1..n /\ 0 + 1 = 1 /\ s[1] = lines
    BY <1>5, <1>7
  <2>2. text[lines] \in Line
    BY <2>1, <1>7, <1>8
  <2>3. 0 <= Len(text[lines])
    BY <2>2 DEF Line
  <2> HIDE DEF s
  <2> QED
    BY <2>1, <2>3, <1>2, <1>6, <1>9, <1>10 DEF OnList
<1>13. IInv
  BY <1>2, <1>6, <1>8, <1>12 DEF IInv, Types
<1>14. CursorVisible
  BY <1>2, SizeAssumption DEF CursorVisible
<1> QED
  BY <1>2, <1>6, <1>11, <1>13, <1>14 DEF ls

-----------------------------------------------------------------------------
\* Every step.

LEMMA NextStep ==
    ASSUME IInv, CursorVisible, [Next]_vars
    PROVE  IInv' /\ CursorVisible' /\ [Text!TNext]_(Text!tvars)
<1>1. CASE \E m \in {"E_CMD", "E_EDI"} : SetMode(m)
  BY <1>1, StillStep DEF Text!tvars
<1>2. CASE MoveCursor
  BY <1>2, MoveStep DEF Text!TNext
<1>3. CASE \E c \in Char : InsertString(<<c>>)
  <2>1. PICK c \in Char : InsertString(<<c>>)
    BY <1>3
  <2>2. <<c>> \in Line
    BY DEF Line, Printable
  <2> QED
    BY <2>1, <2>2, InsertStep DEF Text!TNext
<1>4. CASE InsertString(Tab)
  BY <1>4, TabAssumption, InsertStep DEF Text!TNext, Line
<1>5. CASE DeleteChar
  BY <1>5, DeleteStep DEF Text!TNext
<1>6. CASE MergeLines
  BY <1>6, MergeStep DEF Text!TNext
<1>7. CASE SplitLine
  BY <1>7, SplitStep DEF Text!TNext
<1>8. CASE Command
  BY <1>8, StillStep DEF Text!tvars
<1>9. CASE UNCHANGED vars
  <2>1. UNCHANGED <<text, next, prev, used>>
    BY <1>9 DEF vars
  <2>2. /\ Order' = Order /\ Buffer' = Buffer
        /\ IsList(Order', Cardinality(used'), next', prev', used')
    BY <2>1, SameText
  <2>3. Types'
    BY <1>9 DEF IInv, Types, vars
  <2>4. OnList'
    BY <1>9, <2>2 DEF IInv, OnList, vars
  <2>5. CursorVisible'
    BY <1>9 DEF CursorVisible, vars
  <2> QED
    BY <2>2, <2>3, <2>4, <2>5, <1>9 DEF IInv, Text!tvars, vars
<1> QED
  BY <1>1, <1>2, <1>3, <1>4, <1>5, <1>6, <1>7, <1>8, <1>9 DEF Next

THEOREM Invariance == Spec => [](IInv /\ CursorVisible)
<1>1. Init => IInv /\ CursorVisible
  BY InitStep
<1>2. IInv /\ CursorVisible /\ [Next]_vars => (IInv /\ CursorVisible)'
  BY NextStep
<1> QED
  BY <1>1, <1>2, PTL DEF Spec

LEMMA IInvType == IInv => TypeOK
<1> SUFFICES ASSUME IInv PROVE TypeOK
  OBVIOUS
<1>1. current_line \in Node /\ Cardinality(used) \in Nat \ {0}
  BY BufferIs
<1>2. line_count \in Nat
  BY <1>1 DEF IInv, Types, OnList
<1> QED
  BY <1>1, <1>2 DEF IInv, Types, OnList, IsList, TypeOK, Line

LEMMA IInvWellFormed == IInv => ListWellFormed
<1> SUFFICES ASSUME IInv PROVE ListWellFormed
  OBVIOUS
<1> DEFINE n == Cardinality(used)
<1>1. IsList(Order, n, next, prev, used)
  BY DEF IInv, OnList
<1> HIDE DEF n
<1>2. /\ \A i \in 1..n : Chain[i] = Order[i]
      /\ Chain[n + 1] = NULL
  BY <1>1, ListIsChain DEF Chain
<1>3. {Chain[i] : i \in 1..n} = used
  <2>1. \A i \in 1..n : Chain[i] \in used
    BY <1>1, <1>2 DEF IsList
  <2>2. \A k \in used : \E i \in 1..n : Chain[i] = k
    BY <1>1, <1>2 DEF IsList
  <2> QED
    BY <2>1, <2>2
<1>4. /\ n \in Nat \ {0} /\ Order[1] = lines
      /\ \A k \in used : \E i \in 1..n : Order[i] = k
      /\ \A i \in 1..n : next[Order[i]] = IF i < n THEN Order[i + 1] ELSE NULL
      /\ \A i \in 1..n : prev[Order[i]] = IF i > 1 THEN Order[i - 1] ELSE NULL
  BY <1>1 DEF IsList
<1>5. prev[lines] = NULL
  BY <1>4
<1>6. ASSUME NEW k \in used, next[k] # NULL PROVE prev[next[k]] = k
  <2>1. PICK i \in 1..n : Order[i] = k
    BY <1>4
  <2>2. i < n /\ next[k] = Order[i + 1]
    BY <2>1, <1>4, <1>6
  <2>3. i + 1 \in 1..n /\ i + 1 > 1 /\ (i + 1) - 1 = i
    BY <2>2, <1>4
  <2> QED
    BY <2>1, <2>2, <2>3, <1>4
<1>7. /\ line_count = n - uncounted /\ Chain[y + 1] = current_line
      /\ x <= Len(text[current_line])
  BY <1>2 DEF IInv, OnList, n
<1> QED
  BY <1>2, <1>3, <1>5, <1>6, <1>7, IInvType DEF ListWellFormed, n

\* Whatever the history of splits and merges, the list of simped.c is one chain
\* of all the nodes in use, prev undoes next, and the cursor is on the line
\* that its row counts, with its column inside it.
THEOREM ListStaysWellFormed == Spec => []ListWellFormed
BY Invariance, IInvWellFormed, PTL

\* The row of the cursor is inside the window after every key.
THEOREM CursorStaysVisible == Spec => []CursorVisible
BY Invariance, PTL

\* Each key does to the text what the abstract text buffer says.
THEOREM RefinesTextBuffer == Spec => ImplementsTextBuffer
<1>1. Init => Text!TInit
  <2> SUFFICES ASSUME Init PROVE Text!TInit
    OBVIOUS
  <2>1. y + 1 = 1 /\ x = 0
    BY InitStep
  <2>2. \E c \in Contents \cup {<<>>} : Buffer = LinesOf(CString(c))
    BY InitStep
  <2> QED
    BY <2>1, <2>2, Zenon DEF Text!TInit
<1>2. IInv /\ CursorVisible /\ [Next]_vars => [Text!TNext]_(Text!tvars)
  BY NextStep
<1>3. Init /\ [](IInv /\ CursorVisible) /\ [][Next]_vars => Text!TSpec
  BY <1>1, <1>2, PTL DEF Text!TSpec
<1> QED
  BY <1>3, Invariance, PTL DEF Spec, ImplementsTextBuffer

-----------------------------------------------------------------------------
\* The file.

\* While the editor runs, an existing file holds what was last saved into it.
SavedIsOnDisk == pc = "editing" /\ fileStat = "FS_EST" /\ saved # Torn => disk = saved

DiskInv == UnmodifiedIsOnDisk /\ SavedIsOnDisk /\ QuitLosesNothing

LEMMA DiskInit == ASSUME Init PROVE DiskInv
<1>1. PICK c \in Contents \cup {<<>>} : /\ Buffer = LinesOf(CString(c)) /\ disk = c
                                        /\ fileStat = "FS_EST" => saved = c
  BY InitStep
<1>2. c \in Seq(Printable \cup {NL, NUL})
  <2>1. Contents \subseteq Seq(Printable \cup {NL, NUL})
    BY ContentsAssumption, Zenon
  <2>2. <<>> \in Seq(Printable \cup {NL, NUL})
    OBVIOUS
  <2> QED
    BY <2>1, <2>2
<1>3. IsText(c) => Bytes(LinesOf(CString(c))) = c
  BY <1>2, CStringText, RoundTrip
<1>4. pc = "editing"
  BY DEF Init
<1> QED
  BY <1>1, <1>3, <1>4 DEF DiskInv, UnmodifiedIsOnDisk, SavedIsOnDisk, QuitLosesNothing

LEMMA DiskStep ==
    ASSUME IInv, CursorVisible, DiskInv, [Next]_vars
    PROVE  DiskInv'
<1> USE DEF DiskInv, UnmodifiedIsOnDisk, SavedIsOnDisk, QuitLosesNothing
\* A key that changes the text sets modified.
<1>1. CASE pc = "editing" /\ modified' /\ UNCHANGED fileVars
  BY <1>1 DEF fileVars
\* A key that does not leaves what the disk is compared with.
<1>2. CASE Buffer' = Buffer /\ UNCHANGED modified /\ UNCHANGED fileVars
  BY <1>2 DEF fileVars
<1>3. CASE Command
  <2>1. Buffer' = Buffer /\ pc = "editing" /\ UNCHANGED fileStat
    BY <1>3, StillStep DEF Command, Editing
  <2>2. CASE CommandW
    <3>1. CASE SaveFile
      BY <3>1, <2>1 , <2>2 DEF SaveFile, CommandW, Stay
    <3>2. CASE SaveFileFails
      BY <3>2, <2>1, <2>2 DEF SaveFileFails, CommandW, Stay
    <3> QED
      BY <3>1, <3>2, <2>2 DEF CommandW
  <2>3. CASE CommandWQ
    <3>1. CASE SaveFile /\ Quit("quit")
      BY <3>1, <2>1 DEF SaveFile, Quit
    <3>2. CASE SaveFileFails /\ Stay
      BY <3>2, <2>1 DEF SaveFileFails, Stay
    <3> QED
      BY <3>1, <3>2, <2>3 DEF CommandWQ
  <2>4. CASE CommandQ
    <3>1. CASE modified /\ Stay /\ UNCHANGED disk
      BY <3>1, <2>1, <2>4 DEF CommandQ, Stay
    <3>2. CASE ~modified /\ Quit("quit") /\ fileStat = "FS_EST"
      BY <3>2, <2>1, <2>4 DEF CommandQ, Quit
    <3>3. CASE ~modified /\ Quit("quit") /\ fileStat # "FS_EST"
      BY <3>3, <2>1, <2>4 DEF CommandQ, Quit
    <3> QED
      BY <3>1, <3>2, <3>3, <2>4 DEF CommandQ
  <2>5. CASE CommandForceQ
    BY <2>5, <2>1 DEF CommandForceQ, Quit
  <2> QED
    BY <1>3, <2>2, <2>3, <2>4, <2>5 DEF Command
<1>4. CASE \E m \in {"E_CMD", "E_EDI"} : SetMode(m)
  BY <1>2, <1>4, StillStep DEF SetMode
<1>5. CASE MoveCursor
  <2>1. UNCHANGED <<text, next, prev, used>> /\ UNCHANGED modified /\ UNCHANGED fileVars
    BY <1>5 DEF MoveCursor, MoveX, MoveTo, listVars
  <2> QED
    BY <1>2, <2>1, SameText
<1>6. CASE \E c \in Char : InsertString(<<c>>)
  <2>1. PICK c \in Char : InsertString(<<c>>)
    BY <1>6
  <2>2. pc = "editing" /\ modified' /\ UNCHANGED fileVars
    BY <2>1 DEF InsertString, Editing
  <2> QED
    BY <1>1, <2>2
<1>7. CASE InsertString(Tab)
  <2>1. pc = "editing" /\ modified' /\ UNCHANGED fileVars
    BY <1>7 DEF InsertString, Editing
  <2> QED
    BY <1>1, <2>1
<1>8. CASE DeleteChar \/ MergeLines \/ SplitLine
  <2>1. pc = "editing" /\ modified' /\ UNCHANGED fileVars
    BY <1>8 DEF DeleteChar, MergeLines, SplitLine, Editing
  <2> QED
    BY <1>1, <2>1
<1>9. CASE UNCHANGED vars
  <2>1. UNCHANGED <<text, next, prev, used>> /\ UNCHANGED modified /\ UNCHANGED fileVars
    BY <1>9 DEF vars, fileVars
  <2> QED
    BY <1>2, <2>1, SameText
<1> QED
  BY <1>3, <1>4, <1>5, <1>6, <1>7, <1>8, <1>9 DEF Next

LEMMA DiskInvariance == Spec => []DiskInv
<1>1. Init => DiskInv
  BY DiskInit
<1>2. IInv /\ CursorVisible /\ DiskInv /\ [Next]_vars => DiskInv'
  BY DiskStep
<1> QED
  BY <1>1, <1>2, Invariance, PTL DEF Spec

\* As long as no save has failed, a text file holds what the screen shows
\* whenever the modified flag of the editor is clear.
THEOREM ModifiedIsTrue == Spec => []UnmodifiedIsOnDisk
BY DiskInvariance, PTL DEF DiskInv

\* However an existing file is quit, it holds what was last saved into it, and
\* after :q and :wq that is the text on the screen.
THEOREM NothingLostAtQuit == Spec => []QuitLosesNothing
BY DiskInvariance, PTL DEF DiskInv
=============================================================================
