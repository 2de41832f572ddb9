--------------------------- MODULE StreamsProofs ---------------------------
(***************************************************************************)
(* Proofs about what the tools put out, for every input and all the sizes. *)
(* The invariant of each says what is in its output at every step of a     *)
(* copy, or on the screen after every key.  FlattenSeq and the running     *)
(* sums of dd are recursive functions; what they compute is proved by an   *)
(* induction over a set of numbers, since one that is not empty has a      *)
(* least member.                                                           *)
(***************************************************************************)
EXTENDS Streams, SequenceTheorems, FiniteSetTheorems, WellFoundedInduction, TLAPS

-----------------------------------------------------------------------------
\* Bytes.

LEMMA LeastOfTwo ==
    ASSUME NEW a \in Int, NEW b \in Int
    PROVE  Min({a, b}) \in {a, b} /\ Min({a, b}) <= a /\ Min({a, b}) <= b
  <1>1. \E x \in {a, b} : \A y \in {a, b} : x <= y
    BY a <= b \/ b <= a
  <1> QED
    BY <1>1 DEF Min

LEMMA GreatestOfTwo ==
    ASSUME NEW a \in Int, NEW b \in Int
    PROVE  Max({a, b}) \in {a, b} /\ Max({a, b}) >= a /\ Max({a, b}) >= b
  <1>1. \E x \in {a, b} : \A y \in {a, b} : x >= y
    BY a <= b \/ b <= a
  <1> QED
    BY <1>1 DEF Max

\* A number of bytes that is not more than either of two.
LEMMA UpToBoth ==
    ASSUME NEW a \in Int, NEW b \in Int, NEW n \in 1..Min({a, b})
    PROVE  n \in Nat \ {0} /\ n <= a /\ n <= b
  <1> DEFINE k == Min({a, b})
  <1>1. k \in Int /\ k <= a /\ k <= b
    BY LeastOfTwo
  <1>2. n \in 1..k
    OBVIOUS
  <1> HIDE DEF k
  <1> QED
    BY <1>1, <1>2

LEMMA FunctionIsSeq ==
    ASSUME NEW S, NEW n \in Nat, NEW f \in [1..n -> S]
    PROVE  f \in Seq(S) /\ Len(f) = n
  OBVIOUS

\* The part of s from a to b.
IsPart(S, t, s, a, b) ==
    /\ t \in Seq(S) /\ Len(t) = b - a + 1
    /\ \A i \in 1..(b - a + 1) : t[i] = s[a + i - 1]

LEMMA Part ==
    ASSUME NEW S, NEW s \in Seq(S), NEW a \in 1..(Len(s) + 1), NEW b \in (a - 1)..Len(s)
    PROVE  IsPart(S, SubSeq(s, a, b), s, a, b)
  <1>1. Len(s) \in Nat /\ \A i \in 1..Len(s) : s[i] \in S
    BY LenProperties, ElementOfSeq
  <1>2. a \in Int /\ b \in Int /\ \A i \in a..b : s[i] \in S
    BY <1>1
  <1>3. /\ SubSeq(s, a, b) \in Seq(S)
        /\ Len(SubSeq(s, a, b)) = IF a <= b THEN b - a + 1 ELSE 0
        /\ \A i \in 1..(b - a + 1) : SubSeq(s, a, b)[i] = s[a + i - 1]
    BY <1>2, SubSeqProperties
  <1> QED
    BY <1>1, <1>3 DEF IsPart

\* s with one element more.
IsAppended(S, t, s, e) ==
    /\ t \in Seq(S) /\ t # <<>> /\ Len(t) = Len(s) + 1 /\ t[Len(s) + 1] = e
    /\ \A i \in 1..Len(s) : t[i] = s[i]

LEMMA Appended ==
    ASSUME NEW S, NEW s \in Seq(S), NEW e \in S
    PROVE  IsAppended(S, Append(s, e), s, e)
  BY AppendProperties DEF IsAppended

\* What was read and what is read next are a longer part.
LEMMA Longer ==
    ASSUME NEW S, NEW s \in Seq(S), NEW a \in 0..Len(s), NEW b \in a..Len(s)
    PROVE  SubSeq(s, 1, a) \o SubSeq(s, a + 1, b) = SubSeq(s, 1, b)
  <1>1. Len(s) \in Nat
    BY LenProperties
  <1> QED
    BY <1>1, ConcatAdjacentSubSeq

\* Writing at the end of a file appends.
LEMMA WrittenAtEnd ==
    ASSUME NEW old \in Seq(Byte), NEW bytes \in Seq(Byte)
    PROVE  Written(old, Len(old), bytes) = old \o bytes
  <1> DEFINE n == Len(old)
             m == Len(bytes)
             w == Written(old, n, bytes)
  <1>1. n \in Nat /\ m \in Nat /\ DOMAIN old = 1..n /\ DOMAIN bytes = 1..m
    BY LenProperties
  <1>2. Max({n, n + m}) = n + m
    <2> HIDE DEF n, m
    <2>1. n \in Int /\ n + m \in Int /\ n <= n + m
      BY <1>1
    <2> DEFINE k == n + m
    <2>2. k \in Int /\ n <= k
      BY <2>1
    <2> HIDE DEF k
    <2>3. Max({n, k}) \in {n, k} /\ Max({n, k}) >= n /\ Max({n, k}) >= k
      BY <2>1, <2>2, GreatestOfTwo
    <2>4. Max({n, k}) = k
      BY <2>1, <2>2, <2>3
    <2> QED
      BY <2>4 DEF k
  <1>3. w = [k \in 1..(n + m) |-> IF k - n \in 1..m THEN bytes[k - n]
                                  ELSE IF k \in 1..n THEN old[k] ELSE 0]
    BY <1>1, <1>2 DEF Written
  <1>4. /\ old \o bytes \in Seq(Byte) /\ Len(old \o bytes) = n + m
        /\ \A i \in 1..(n + m) : (old \o bytes)[i] = IF i <= n THEN old[i] ELSE bytes[i - n]
    BY ConcatProperties
  <1>5. \A k \in 1..(n + m) : (k - n \in 1..m) = ~(k <= n)
    BY <1>1
  <1>6. \A k \in 1..(n + m) : k <= n => k \in 1..n
    BY <1>1
  <1>7. old \o bytes = [k \in 1..(n + m) |-> (old \o bytes)[k]]
    BY <1>4, LenProperties
  <1>8. ASSUME NEW k \in 1..(n + m) PROVE w[k] = (old \o bytes)[k]
    <2>1. w[k] = IF k - n \in 1..m THEN bytes[k - n] ELSE IF k \in 1..n THEN old[k] ELSE 0
      BY <1>3
    <2>2. (old \o bytes)[k] = IF k <= n THEN old[k] ELSE bytes[k - n]
      BY <1>4
    <2> QED
      BY <1>5, <1>6, <2>1, <2>2
  <1> DEFINE v == old \o bytes
  <1> HIDE DEF v, w
  <1>9. w = [k \in 1..(n + m) |-> v[k]]
    <2>1. DOMAIN w = 1..(n + m) /\ w = [k \in DOMAIN w |-> w[k]]
      BY <1>3
    <2> QED
      BY <1>8, <2>1 DEF v
  <1> QED
    BY <1>7, <1>9 DEF v, w

LEMMA WrittenType ==
    ASSUME NEW old \in Seq(Byte), NEW from \in Nat, NEW bytes \in Seq(Byte)
    PROVE  /\ Written(old, from, bytes) \in Seq(Byte)
           /\ Len(Written(old, from, bytes)) >= Len(old)
           /\ Len(Written(old, from, bytes)) >= from + Len(bytes)
  <1> DEFINE n == Len(old)
             m == from + Len(bytes)
             k == Max({n, m})
             w == Written(old, from, bytes)
  <1>1. /\ n \in Nat /\ m \in Nat /\ DOMAIN old = 1..n /\ DOMAIN bytes = 1..Len(bytes)
        /\ \A i \in 1..n : old[i] \in Byte
        /\ \A i \in 1..Len(bytes) : bytes[i] \in Byte
    BY LenProperties, ElementOfSeq
  <1>2. k \in Nat /\ k >= n /\ k >= m
    <2> HIDE DEF n, m
    <2>1. n \in Int /\ m \in Int
      BY <1>1
    <2>2. Max({n, m}) \in {n, m} /\ Max({n, m}) >= n /\ Max({n, m}) >= m
      BY <2>1, GreatestOfTwo
    <2> QED
      BY <1>1, <2>2
  <1>3. w = [i \in 1..k |-> IF i - from \in DOMAIN bytes THEN bytes[i - from]
                           ELSE IF i \in DOMAIN old THEN old[i] ELSE 0]
    BY DEF Written
  <1> HIDE DEF n, m, k, w
  <1>4. ASSUME NEW i \in 1..k PROVE w[i] \in Byte
    <2>1. w[i] = IF i - from \in DOMAIN bytes THEN bytes[i - from]
                 ELSE IF i \in DOMAIN old THEN old[i] ELSE 0
      BY <1>3
    <2>2. 0 \in Byte
      BY DEF Byte
    <2>3. \A e \in DOMAIN bytes : bytes[e] \in Byte
      BY <1>1
    <2>4. \A e \in DOMAIN old : old[e] \in Byte
      BY <1>1
    <2>5. CASE i - from \in DOMAIN bytes
      BY <2>1, <2>3, <2>5
    <2>6. CASE i - from \notin DOMAIN bytes /\ i \in DOMAIN old
      BY <2>1, <2>4, <2>6
    <2>7. CASE i - from \notin DOMAIN bytes /\ i \notin DOMAIN old
      BY <2>1, <2>2, <2>7
    <2> QED
      BY <2>5, <2>6, <2>7
  <1>5. w \in [1..k -> Byte]
    BY <1>3, <1>4
  <1>6. w \in Seq(Byte) /\ Len(w) = k
    BY <1>2, <1>5, FunctionIsSeq
  <1> QED
    BY <1>2, <1>6 DEF n, m, w

-----------------------------------------------------------------------------
\* Induction: a set of numbers that is not empty has a least one.

LEMMA LeastNumber ==
    ASSUME NEW T \in SUBSET Nat, T # {}
    PROVE  \E x \in T : \A y \in T : ~(y < x)
  <1> DEFINE R == OpToRel(<, Nat)
  <1>1. IsWellFoundedOn(R, Nat)
    BY NatLessThanWellFounded
  <1>2. \A x \in Nat, y \in Nat : y < x => <<y, x>> \in R
    BY DEF OpToRel
  <1> HIDE DEF R
  <1>3. PICK x \in T : \A y \in T : <<y, x>> \notin R
    BY <1>1, WFMin
  <1> QED
    BY <1>2, <1>3

LEMMA Induction ==
    ASSUME NEW S, 0 \in S, \A n \in Nat : n \in S => n + 1 \in S
    PROVE  \A n \in Nat : n \in S
  <1> DEFINE T == {n \in Nat : n \notin S}
  <1> SUFFICES ASSUME T # {} PROVE FALSE
    OBVIOUS
  <1>1. PICK x \in T : \A y \in T : ~(y < x)
    BY LeastNumber
  <1>2. x \in Nat /\ x # 0
    OBVIOUS
  <1>3. x - 1 \in Nat /\ x - 1 < x /\ x - 1 \notin T
    BY <1>1, <1>2
  <1>4. x - 1 \in S
    BY <1>3
  <1> QED
    BY <1>2, <1>3, <1>4

-----------------------------------------------------------------------------
\* What FlattenSeq computes, from the first sequence to the i-th of them.

FlatTo(f, seqs, n) ==
    f = [i \in 1..n |-> IF i = 1 THEN seqs[i] ELSE f[i - 1] \o seqs[i]]

LEMMA FlatExists ==
    ASSUME NEW seqs
    PROVE  \A n \in Nat : \E f : FlatTo(f, seqs, n)
  <1> DEFINE S == {n \in Nat : \E f : FlatTo(f, seqs, n)}
  <1>1. 0 \in S
    <2>1. 1..0 = {}
      OBVIOUS
    <2> DEFINE f == [i \in 1..0 |-> seqs[i]]
    <2>2. FlatTo(f, seqs, 0)
      BY <2>1 DEF FlatTo
    <2> QED
      BY <2>2
  <1>2. ASSUME NEW n \in Nat, n \in S PROVE n + 1 \in S
    <2>1. PICK f : f = [i \in 1..n |-> IF i = 1 THEN seqs[i] ELSE f[i - 1] \o seqs[i]]
      BY <1>2 DEF FlatTo
    <2> DEFINE g == [i \in 1..(n + 1) |-> IF i \in 1..n THEN f[i]
                                          ELSE IF i = 1 THEN seqs[i] ELSE f[i - 1] \o seqs[i]]
    <2>2. ASSUME NEW i \in 1..(n + 1)
          PROVE  g[i] = IF i = 1 THEN seqs[i] ELSE g[i - 1] \o seqs[i]
      <3>1. CASE i \in 1..n
        <4>1. g[i] = f[i] /\ f[i] = IF i = 1 THEN seqs[i] ELSE f[i - 1] \o seqs[i]
          BY <2>1, <3>1
        <4>2. i # 1 => i - 1 \in 1..n /\ i - 1 \in 1..(n + 1)
          BY <3>1
        <4>3. i # 1 => g[i - 1] = f[i - 1]
          BY <4>2
        <4> QED
          BY <4>1, <4>3
      <3>2. CASE i \notin 1..n
        <4>1. i = n + 1
          BY <3>2
        <4>2. i # 1 => i - 1 \in 1..n /\ i - 1 \in 1..(n + 1)
          BY <4>1
        <4>3. i # 1 => g[i - 1] = f[i - 1]
          BY <4>2
        <4> QED
          BY <3>2, <4>3
      <3> QED
        BY <3>1, <3>2
    <2>3. g = [i \in 1..(n + 1) |-> g[i]]
      OBVIOUS
    <2> HIDE DEF g
    <2>4. FlatTo(g, seqs, n + 1)
      BY <2>2, <2>3 DEF FlatTo
    <2> QED
      BY <2>4
  <1> HIDE DEF S
  <1>3. \A n \in Nat : n \in S
    BY <1>1, <1>2, Induction
  <1> QED
    BY <1>3 DEF S

SameTo(s, t, n) == \A i \in 1..n : s[i] = t[i]

LEMMA FlatAlike ==
    ASSUME NEW s, NEW t, NEW m \in Nat, NEW n \in Nat, m <= n, SameTo(s, t, m),
           NEW f, FlatTo(f, s, m), NEW g, FlatTo(g, t, n)
    PROVE  SameTo(f, g, m)
  <1> DEFINE S == {i \in Nat : i \in 1..m => f[i] = g[i]}
  <1>1. 0 \in S
    OBVIOUS
  <1>2. ASSUME NEW i \in Nat, i \in S PROVE i + 1 \in S
    <2> SUFFICES ASSUME i + 1 \in 1..m PROVE f[i + 1] = g[i + 1]
      OBVIOUS
    <2>1. i + 1 \in 1..m /\ i + 1 \in 1..n /\ s[i + 1] = t[i + 1] /\ (i + 1 # 1 => i \in 1..m) /\ (i + 1) - 1 = i
      BY DEF SameTo
    <2> DEFINE k == i + 1
    <2>2. k \in 1..m /\ k \in 1..n /\ s[k] = t[k] /\ (k # 1 => f[k - 1] = g[k - 1])
      BY <1>2, <2>1
    <2> HIDE DEF k
    <2>3. f[k] = IF k = 1 THEN s[k] ELSE f[k - 1] \o s[k]
      BY <2>2 DEF FlatTo
    <2>4. g[k] = IF k = 1 THEN t[k] ELSE g[k - 1] \o t[k]
      BY <2>2 DEF FlatTo
    <2>5. f[k] = g[k]
      BY <2>2, <2>3, <2>4
    <2> QED
      BY <2>5 DEF k
  <1> HIDE DEF S
  <1>3. \A i \in Nat : i \in S
    BY <1>1, <1>2, Induction
  <1> QED
    BY <1>3 DEF S, SameTo

LEMMA Flattened ==
    ASSUME NEW S, NEW seqs \in Seq(S), seqs # <<>>
    PROVE  \E f : FlatTo(f, seqs, Len(seqs)) /\ FlattenSeq(seqs) = f[Len(seqs)]
  <1> DEFINE n == Len(seqs)
             c == CHOOSE f : FlatTo(f, seqs, n)
  <1>1. n \in Nat /\ n # 0
    BY LenProperties, EmptySeq
  <1>2. FlatTo(c, seqs, n)
    BY <1>1, FlatExists
  <1>3. FlattenSeq(seqs) = c[n]
    BY <1>1 DEF FlattenSeq, FlatTo
  <1> QED
    BY <1>2, <1>3

\* One sequence more is put behind the others.
LEMMA FlatMore ==
    ASSUME NEW B, NEW seqs \in Seq(Seq(B)), NEW b \in Seq(B)
    PROVE  /\ FlattenSeq(<<>>) = <<>>
           /\ FlattenSeq(Append(seqs, b)) = FlattenSeq(seqs) \o b
  <1>1. FlattenSeq(<<>>) = <<>>
    BY DEF FlattenSeq
  <1> DEFINE t == Append(seqs, b)
             m == Len(seqs)
  <1>2. IsAppended(Seq(B), t, seqs, b)
    BY Appended
  <1>3. m \in Nat /\ t \in Seq(Seq(B)) /\ t # <<>> /\ Len(t) = m + 1 /\ t[m + 1] = b
        /\ \A i \in 1..m : t[i] = seqs[i]
    BY <1>2, LenProperties DEF IsAppended
  <1> HIDE DEF t, m
  <1>4. PICK g : FlatTo(g, t, m + 1) /\ FlattenSeq(t) = g[m + 1]
    BY <1>3, Flattened
  <1>5. g[m + 1] = IF m + 1 = 1 THEN b ELSE g[m] \o b
    <2>1. m + 1 \in 1..(m + 1) /\ (m + 1) - 1 = m
      BY <1>3
    <2> DEFINE k == m + 1
    <2>2. k \in 1..k /\ FlatTo(g, t, k) /\ t[k] = b
      BY <1>3, <1>4, <2>1
    <2> HIDE DEF k
    <2>3. g[k] = IF k = 1 THEN b ELSE g[k - 1] \o b
      BY <2>2 DEF FlatTo
    <2> QED
      BY <2>1, <2>3 DEF k
  <1>6. CASE m = 0
    <2>1. seqs = <<>>
      BY <1>6, EmptySeq, LenProperties DEF m
    <2>2. FlattenSeq(t) = b
      BY <1>4, <1>5, <1>6
    <2> QED
      BY <1>1, <2>1, <2>2, ConcatEmptySeq DEF t
  <1>7. CASE m # 0
    <2>1. seqs # <<>>
      BY <1>7 DEF m
    <2>2. PICK f : FlatTo(f, seqs, m) /\ FlattenSeq(seqs) = f[m]
      BY <2>1, Flattened DEF m
    <2>3. m \in 1..m /\ m + 1 # 1
      BY <1>3, <1>7
    <2>4. \A i \in 1..m : seqs[i] = t[i]
      BY <1>3
    <2>5. f[m] = g[m]
      <3> DEFINE k == m + 1
      <3>1. /\ m \in Nat /\ k \in Nat /\ m <= k /\ FlatTo(g, t, k) /\ FlatTo(f, seqs, m)
            /\ SameTo(seqs, t, m)
        BY <1>3, <1>4, <2>2, <2>4 DEF SameTo
      <3> HIDE DEF k
      <3>2. SameTo(f, g, m)
        BY <3>1, FlatAlike
      <3> QED
        BY <2>3, <3>2 DEF SameTo
    <2> QED
      BY <1>1, <1>4, <1>5, <2>2, <2>3, <2>5 DEF t
  <1> QED
    BY <1>3, <1>6, <1>7

-----------------------------------------------------------------------------
\* Tools do not meet: a step of one that runs is a step of its own.

LEMMA OnlyItself ==
    ASSUME [Next]_vars
    PROVE  /\ tool' = tool
           /\ tool = "dd" => DdNext \/ UNCHANGED <<streamVars, ddVars>>
           /\ tool = "tee" => TeeNext \/ UNCHANGED <<streamVars, teeVars>>
           /\ tool = "base64" => Base64Next \/ UNCHANGED <<streamVars, base64Vars>>
           /\ tool = "execInPipe" => ExecNext \/ UNCHANGED <<streamVars, execVars>>
           /\ tool = "cat" => CatNext \/ UNCHANGED <<streamVars, catVars>>
           /\ tool = "dos2unix" => DosNext \/ UNCHANGED <<streamVars, dosVars>>
           /\ tool = "monicall" => MoniNext \/ UNCHANGED moniVars
           /\ tool = "list" => ListNext \/ UNCHANGED listVars
           /\ tool = "text" => TextNext \/ UNCHANGED textVars
           /\ tool = "input" => InputNext \/ UNCHANGED inputVars
  <1>1. CASE UNCHANGED vars
    BY <1>1 DEF vars, boxVars
  <1>2. CASE Next
    <2>1. tool' = tool
      BY <1>2 DEF Next, vars
    <2>2. tool = "dd" => DdNext \/ UNCHANGED vars
      BY <1>2 DEF Next
    <2>3. tool = "tee" => TeeNext \/ UNCHANGED vars
      BY <1>2 DEF Next
    <2>4. tool = "base64" => Base64Next \/ UNCHANGED vars
      BY <1>2 DEF Next
    <2>5. tool = "execInPipe" => ExecNext \/ UNCHANGED vars
      BY <1>2 DEF Next
    <2>6. tool = "cat" => CatNext \/ UNCHANGED vars
      BY <1>2 DEF Next
    <2>7. tool = "dos2unix" => DosNext \/ UNCHANGED vars
      BY <1>2 DEF Next
    <2>8. tool = "monicall" => MoniNext \/ UNCHANGED vars
      BY <1>2 DEF Next
    <2>9. tool = "list" => ListNext \/ UNCHANGED vars
      BY <1>2 DEF Next
    <2>10. tool = "text" => TextNext \/ UNCHANGED vars
      BY <1>2 DEF Next
    <2>11. tool = "input" => InputNext \/ UNCHANGED vars
      BY <1>2 DEF Next
    <2> QED
      BY <2>1, <2>2, <2>3, <2>4, <2>5, <2>6, <2>7, <2>8, <2>9, <2>10, <2>11 DEF vars, boxVars
  <1> QED
    BY <1>1, <1>2

-----------------------------------------------------------------------------
\* execInPipe: the buffer is what was read of the child, and the child is over
\* only when it has written all of its output, or could not be started.

ExecInv ==
    /\ source \in Seq(Byte) /\ produced \in 0..Len(source) /\ taken \in 0..produced
    /\ bufSize \in Nat \ {0}
    /\ epc = "start" => child = "none" /\ taken = 0 /\ produced = 0 /\ buffer = <<>>
    /\ epc # "returned" => result = NULL
    /\ epc \in {"read", "wait"} => buffer = SubSeq(source, 1, taken) /\ Len(buffer) < bufSize
    /\ child \in {"over", "reaped"} => produced \in {0, Len(source)}
    /\ epc = "wait" => child = "over" /\ produced = taken
    /\ ExecDone

LEMMA ExecStarts == Init /\ tool = "execInPipe" => ExecInv
  <1> SUFFICES ASSUME Init, tool = "execInPipe" PROVE ExecInv
    OBVIOUS
  <1>1. InitExecInPipe
    BY DEF Init, InitDd, InitTee, InitCat, InitBase64, InitDos2unix, InitShell, InitMonicall,
           InitChecksum, InitBox
  <1>2. source \in Seq(Byte) /\ bufSize \in Nat \ {0} /\ ExecInit /\ taken = 0
    BY <1>1, OutputsAssumption DEF InitExecInPipe, ExecInit, Init
  <1>3. Len(source) \in Nat
    BY <1>2, LenProperties
  <1> QED
    BY <1>2, <1>3 DEF ExecInit, ExecInv, ExecDone

LEMMA ExecGoesOn == ExecInv /\ (ExecNext \/ UNCHANGED <<streamVars, execVars>>) => ExecInv'
  <1> SUFFICES ASSUME ExecInv, ExecNext \/ UNCHANGED <<streamVars, execVars>> PROVE ExecInv'
    OBVIOUS
  <1>0. /\ Len(source) \in Nat /\ source \in Seq(Byte) /\ bufSize \in Nat \ {0}
        /\ produced \in 0..Len(source) /\ taken \in 0..produced /\ taken \in 0..Len(source)
    BY LenProperties DEF ExecInv
  <1>1. CASE ExecNoChild
    BY <1>1, <1>0 DEF ExecInv, ExecDone, ExecKeep, ExecNoChild
  <1>2. CASE ExecStart
    <2>1. SubSeq(source, 1, 0) = <<>> /\ Len(<<>>) = 0
      BY SubSeqEmpty
    <2> QED
      BY <1>2, <1>0, <2>1 DEF ExecInv, ExecDone, ExecKeep, ExecStart
  <1>3. CASE ChildWrites
    BY <1>3, <1>0 DEF ExecInv, ExecDone, ExecKeep, ChildWrites
  <1>4. CASE ChildEnds
    BY <1>4, <1>0 DEF ExecInv, ExecDone, ExecKeep, ChildEnds
  <1>5. CASE ExecRead
    <2>1. Len(buffer) \in Nat /\ Len(buffer) = taken /\ epc = "read"
      <3>1. IsPart(Byte, SubSeq(source, 1, taken), source, 1, taken)
        BY <1>0, Part
      <3> QED
        BY <1>0, <1>5, <3>1 DEF ExecInv, ExecRead, IsPart
    <2>2. \A n \in 1..Min({produced - taken, bufSize - Len(buffer) - 1}) :
            n \in Nat \ {0} /\ n <= produced - taken /\ n <= bufSize - taken - 1
      <3> DEFINE a == produced - taken
                 b == bufSize - Len(buffer) - 1
                 k == Min({a, b})
      <3>1. a \in Int /\ b \in Int /\ b = bufSize - taken - 1
        BY <1>0, <2>1
      <3> HIDE DEF a, b
      <3>2. k \in Int /\ k <= a /\ k <= b
        BY <3>1, LeastOfTwo
      <3> HIDE DEF k
      <3>3. \A n \in 1..k : n \in Nat \ {0} /\ n <= a /\ n <= b
        BY <3>1, <3>2
      <3> QED
        BY <3>1, <3>3 DEF a, b, k
    <2>3. PICK n \in Nat \ {0} : /\ n <= produced - taken /\ n <= bufSize - taken - 1
                                /\ buffer' = buffer \o Coming(n) /\ taken' = taken + n
      BY <1>5, <2>2 DEF ExecRead
    <2>4. taken' \in taken..Len(source) /\ taken' \in 0..produced /\ taken' < bufSize
      BY <2>3, <1>0
    <2>5. buffer' = SubSeq(source, 1, taken')
      <3>1. SubSeq(source, 1, taken) \o SubSeq(source, taken + 1, taken') = SubSeq(source, 1, taken')
        BY <1>0, <2>4, Longer
      <3> QED
        BY <1>5, <2>1, <2>3, <3>1 DEF ExecInv, Coming
    <2>6. Len(buffer') = taken'
      <3>1. IsPart(Byte, SubSeq(source, 1, taken'), source, 1, taken')
        BY <1>0, <2>4, Part
      <3> QED
        BY <1>0, <2>4, <2>5, <3>1 DEF IsPart
    <2> QED
      BY <1>5, <1>0, <2>1, <2>4, <2>5, <2>6 DEF ExecInv, ExecDone, ExecKeep, ExecRead
  <1>6. CASE ExecGrow
    BY <1>6, <1>0 DEF ExecInv, ExecDone, ExecKeep, ExecGrow
  <1>7. CASE ExecGivesUp
    BY <1>7, <1>0 DEF ExecInv, ExecDone, ExecKeep, ExecGivesUp
  <1>8. CASE ExecEof
    BY <1>8, <1>0 DEF ExecInv, ExecDone, ExecKeep, ExecEof
  <1>9. CASE ExecWait
    BY <1>9, <1>0 DEF ExecInv, ExecDone, ExecKeep, ExecWait
  <1>10. CASE UNCHANGED <<streamVars, execVars>>
    BY <1>10 DEF ExecInv, ExecDone, streamVars, execVars
  <1> QED
    BY <1>1, <1>2, <1>3, <1>4, <1>5, <1>6, <1>7, <1>8, <1>9, <1>10 DEF ExecNext

-----------------------------------------------------------------------------
\* tee: an output that is open and took all it was given holds what was read,
\* the last piece of it only when its turn is over.

Opened(s) == IF appends THEN olds[s] ELSE <<>>
GivenTo(i) == IF tpc = "write" /\ i >= turn THEN taken - Len(chunk) ELSE taken
Holding(s, n) ==
    /\ sinks[s].bytes = Opened(s) \o SubSeq(source, 1, n)
    /\ sinks[s].pos = Len(sinks[s].bytes)

TeeType ==
    /\ source \in Seq(Byte) /\ taken \in 0..Len(source)
    /\ tpc \in {"open", "read", "write", "exit"} /\ appends \in BOOLEAN
    /\ olds \in [DOMAIN sinks -> Seq(Byte)]
    /\ sinks \in [DOMAIN sinks -> [bytes : Seq(Byte), pos : Nat]]
    /\ names \in Seq(DOMAIN sinks) /\ fds \in Seq(DOMAIN sinks) /\ fds # <<>>
    /\ tpc = "write" => /\ turn \in 1..Len(fds) /\ chunk # <<>>
                        /\ Len(chunk) \in 1..taken
                        /\ chunk = SubSeq(source, taken - Len(chunk) + 1, taken)

Apart ==
    /\ \A i, j \in 1..Len(fds) : fds[i] = fds[j] => i = j
    /\ \A i, j \in 1..Len(names) : names[i] = names[j] => i = j
    /\ \A i \in 1..Len(fds), j \in 1..Len(names) : fds[i] # names[j]

TeeInv ==
    /\ TeeType /\ Apart
    /\ tpc = "open" =>
        taken = 0 /\ \A j \in 1..Len(names) : sinks[names[j]].bytes = olds[names[j]]
    /\ \A i \in 1..Len(fds) : fds[i] \notin broken => Holding(fds[i], GivenTo(i))

LEMMA TeeStarts == Init /\ tool = "tee" => TeeInv
  <1> SUFFICES ASSUME Init, tool = "tee" PROVE TeeInv
    OBVIOUS
  <1>1. InitTee /\ taken = 0
    BY DEF Init, InitDd, InitCat, InitBase64, InitDos2unix, InitExecInPipe, InitShell,
           InitMonicall, InitChecksum, InitBox
  <1>2. PICK r \in TeeRuns :
            /\ source = r.source
            /\ sinks = [s \in DOMAIN r.olds \cup {"stdout"} |->
                           Sink(IF s = "stdout" THEN <<>> ELSE r.olds[s])]
            /\ TeeInit(r.appends, r.names)
    BY <1>1 DEF InitTee
  <1>3. /\ r.source \in Seq(Byte) /\ r.olds \in [DOMAIN r.olds -> Seq(Byte)]
        /\ r.appends \in BOOLEAN /\ "stdout" \notin DOMAIN r.olds
        /\ r.names \in Seq(DOMAIN r.olds) /\ IsInjective(r.names)
    BY TeeRunsAssumption
  <1> DEFINE D == DOMAIN r.olds
  <1>4. DOMAIN sinks = D \cup {"stdout"}
    BY <1>2
  <1>5. \A s \in D : sinks[s] = Sink(r.olds[s])
    BY <1>2, <1>3
  <1>6. sinks["stdout"] = Sink(<<>>)
    BY <1>2
  <1>7. <<>> \in Seq(Byte) /\ Len(<<>>) = 0 /\ SubSeq(source, 1, 0) = <<>> /\ <<>> \o <<>> = <<>>
    BY SubSeqEmpty, EmptySeq, ConcatEmptySeq
  <1>8. \A s \in DOMAIN sinks : sinks[s] \in [bytes : Seq(Byte), pos : Nat]
    <2>1. \A b \in Seq(Byte) : Sink(b) \in [bytes : Seq(Byte), pos : Nat]
      BY DEF Sink
    <2>2. \A s \in D : r.olds[s] \in Seq(Byte)
      BY <1>3
    <2> QED
      BY <1>4, <1>5, <1>6, <1>7, <2>1, <2>2
  <1>9. olds = [s \in DOMAIN sinks |-> sinks[s].bytes]
    BY <1>2 DEF TeeInit
  <1>10. sinks = [s \in DOMAIN sinks |-> sinks[s]]
    BY <1>2
  <1>11. sinks \in [DOMAIN sinks -> [bytes : Seq(Byte), pos : Nat]] /\ olds \in [DOMAIN sinks -> Seq(Byte)]
    BY <1>8, <1>9, <1>10
  <1>12. names \in Seq(DOMAIN sinks) /\ names \in Seq(D)
    BY <1>2, <1>3, <1>4, SeqMonotonic DEF TeeInit
  <1>13. /\ fds = <<"stdout">> /\ fds \in Seq(DOMAIN sinks) /\ fds # <<>> /\ Len(fds) = 1
         /\ fds[1] = "stdout"
    BY <1>2, <1>4 DEF TeeInit
  <1>14. Len(source) \in Nat
    BY <1>2, <1>3, LenProperties
  <1>15. TeeType
    BY <1>1, <1>2, <1>3, <1>11, <1>12, <1>13, <1>14 DEF TeeType, TeeInit
  <1>16. Apart
    <2>1. \A j \in 1..Len(names) : names[j] \in D
      BY <1>12, ElementOfSeq
    <2>2. DOMAIN names = 1..Len(names) /\ IsInjective(names)
      BY <1>2, <1>3, <1>12, LenProperties DEF TeeInit
    <2>3. \A i, j \in 1..Len(names) : names[i] = names[j] => i = j
      BY <2>2 DEF IsInjective
    <2> QED
      BY <1>3, <1>13, <2>1, <2>3 DEF Apart
  <1>17. \A j \in 1..Len(names) : sinks[names[j]].bytes = olds[names[j]]
    <2>1. \A j \in 1..Len(names) : names[j] \in DOMAIN sinks
      BY <1>12, ElementOfSeq
    <2> QED
      BY <1>9, <2>1
  <1>18. Holding("stdout", 0)
    <2>1. sinks["stdout"].bytes = <<>> /\ sinks["stdout"].pos = 0
      BY <1>6 DEF Sink
    <2>2. olds["stdout"] = <<>>
      BY <1>4, <1>9, <2>1
    <2> QED
      BY <1>7, <2>1, <2>2 DEF Holding, Opened
  <1>19. \A i \in 1..Len(fds) : fds[i] = "stdout" /\ GivenTo(i) = 0
    BY <1>1, <1>2, <1>13 DEF GivenTo, TeeInit
  <1> QED
    BY <1>1, <1>15, <1>16, <1>17, <1>18, <1>19 DEF TeeInv
\* What holds of an output goes on while nobody writes to it.
LEMMA HoldingKept ==
    ASSUME TeeInv, UNCHANGED <<source, appends, olds>>,
           NEW i \in 1..Len(fds), fds'[i] = fds[i], fds[i] \notin broken,
           sinks'[fds[i]] = sinks[fds[i]], GivenTo(i)' = GivenTo(i)
    PROVE  Holding(fds[i], GivenTo(i))'
  <1>1. Holding(fds[i], GivenTo(i))
    BY DEF TeeInv
  <1> DEFINE s == fds[i]
             n == GivenTo(i)
  <1>2. s' = s /\ n' = n
    OBVIOUS
  <1> QED
    BY <1>1, <1>2 DEF Holding, Opened

LEMMA TeeOpens == TeeInv /\ TeeOpen => TeeInv'
  <1> SUFFICES ASSUME TeeInv, TeeOpen PROVE TeeInv'
    OBVIOUS
  <1>a. PICK D, s, l, m : D = DOMAIN sinks /\ s = names[1] /\ l = Len(fds) /\ m = Len(names)
    OBVIOUS
  <1>b. PICK kept : kept = IF appends THEN sinks[s].bytes ELSE <<>>
    OBVIOUS
  <1>1. /\ source \in Seq(Byte) /\ taken = 0 /\ appends \in BOOLEAN /\ olds \in [D -> Seq(Byte)]
        /\ sinks \in [D -> [bytes : Seq(Byte), pos : Nat]]
        /\ names \in Seq(D) /\ fds \in Seq(D) /\ Apart /\ tpc = "open" /\ tpc' = tpc
        /\ taken' = taken /\ names # <<>>
    BY <1>a DEF TeeInv, TeeType, TeeOpen
  <1>2. /\ l \in Nat /\ m \in Nat \ {0} /\ s = Head(names)
        /\ \A i \in 1..l : fds[i] \in D
        /\ \A j \in 1..m : names[j] \in D
    <2>1. Len(names) \in Nat /\ Len(names) # 0 /\ Len(fds) \in Nat
      BY <1>1, LenProperties, EmptySeq
    <2>2. names[1] = Head(names)
      BY <1>1
    <2> QED
      BY <1>a, <1>1, <2>1, <2>2, ElementOfSeq
  <1>3. s \in D /\ sinks[s].bytes \in Seq(Byte) /\ sinks[s].bytes = olds[s]
    <2>1. 1 \in 1..m
      BY <1>2
    <2> QED
      BY <1>a, <1>1, <1>2, <2>1 DEF TeeInv
  <1>4. kept \in Seq(Byte) /\ Len(kept) \in Nat /\ kept = Opened(s)
    BY <1>b, <1>3, LenProperties, EmptySeq DEF Opened
  <1>5. /\ fds' = Append(fds, s) /\ names' = Tail(names)
        /\ sinks' = [sinks EXCEPT ![s] = [bytes |-> kept, pos |-> Len(kept)]]
        /\ UNCHANGED <<source, appends, olds, broken>>
    BY <1>a, <1>b, <1>2 DEF TeeOpen
  <1>6. /\ DOMAIN sinks' = D /\ sinks'[s] = [bytes |-> kept, pos |-> Len(kept)]
        /\ \A x \in D \ {s} : sinks'[x] = sinks[x]
        /\ sinks' \in [D -> [bytes : Seq(Byte), pos : Nat]]
    BY <1>1, <1>3, <1>4, <1>5
  <1>7. /\ fds' \in Seq(D) /\ Len(fds') = l + 1 /\ fds'[l + 1] = s /\ fds' # <<>>
        /\ \A i \in 1..l : fds'[i] = fds[i]
    <2>1. /\ Append(fds, s) \in Seq(D) /\ Append(fds, s) # <<>>
          /\ Len(Append(fds, s)) = Len(fds) + 1
          /\ \A i \in 1..Len(fds) : Append(fds, s)[i] = fds[i]
          /\ Append(fds, s)[Len(fds) + 1] = s
      <3>1. fds \in Seq(D) /\ s \in D
        BY <1>1, <1>3
      <3> QED
        BY <3>1, Appended DEF IsAppended
    <2>2. l = Len(fds) /\ fds' = Append(fds, s)
      BY <1>a, <1>5
    <2> QED
      BY ONLY <2>1, <2>2, Zenon
  <1>8. /\ names' \in Seq(D) /\ Len(names') = m - 1
        /\ \A j \in 1..(m - 1) : names'[j] = names[j + 1]
    BY <1>a, <1>1, <1>2, <1>5, HeadTailProperties
  <1>9. TeeType'
    <2>2. /\ source' \in Seq(Byte) /\ taken' = 0 /\ Len(source') \in Nat
          /\ tpc' = "open" /\ appends' \in BOOLEAN
      BY <1>1, <1>5, LenProperties
    <2>3. olds' \in [DOMAIN sinks' -> Seq(Byte)]
      BY <1>1, <1>5, <1>6
    <2>4. sinks' \in [DOMAIN sinks' -> [bytes : Seq(Byte), pos : Nat]]
      BY <1>6
    <2>5. names' \in Seq(DOMAIN sinks') /\ fds' \in Seq(DOMAIN sinks') /\ fds' # <<>>
      BY <1>6, <1>7, <1>8
    <2> QED
      BY <2>2, <2>3, <2>4, <2>5 DEF TeeType
  <1>10. Apart'
    <2>0. /\ \A i, j \in 1..l : fds[i] = fds[j] => i = j
          /\ \A i, j \in 1..m : names[i] = names[j] => i = j
          /\ \A i \in 1..l, j \in 1..m : fds[i] # names[j]
      BY <1>a, <1>1 DEF Apart
    <2>1. /\ \A i \in 1..(l + 1) : i \in 1..l \/ i = l + 1
          /\ \A j \in 1..(m - 1) : j + 1 \in 1..m /\ j + 1 # 1
          /\ 1 \in 1..m
      BY <1>2
    <2>2. \A i \in 1..l : fds[i] # s
      BY <1>a, <2>0, <2>1
    <2>3. \A i, j \in 1..(l + 1) : fds'[i] = fds'[j] => i = j
      BY <1>7, <2>0, <2>1, <2>2
    <2>4. \A i, j \in 1..(m - 1) : names'[i] = names'[j] => i = j
      <3> SUFFICES ASSUME NEW i \in 1..(m - 1), NEW j \in 1..(m - 1), names'[i] = names'[j]
                   PROVE  i = j
        OBVIOUS
      <3>1. i + 1 = j + 1
        BY <1>8, <2>0, <2>1
      <3> QED
        BY <1>2, <3>1
    <2>5. \A i \in 1..(l + 1), j \in 1..(m - 1) : fds'[i] # names'[j]
      <3> SUFFICES ASSUME NEW i \in 1..(l + 1), NEW j \in 1..(m - 1) PROVE fds'[i] # names'[j]
        OBVIOUS
      <3>1. names'[j] = names[j + 1] /\ j + 1 \in 1..m /\ j + 1 # 1
        BY <1>8, <2>1
      <3>2. CASE i \in 1..l
        BY <1>7, <2>0, <3>1, <3>2
      <3>3. CASE i = l + 1
        <4>1. names[j + 1] # names[1]
          BY <2>0, <2>1, <3>1
        <4> QED
          BY <1>a, <1>7, <3>1, <3>3, <4>1
      <3> QED
        BY <2>1, <3>2, <3>3
    <2> QED
      BY <1>7, <1>8, <2>3, <2>4, <2>5 DEF Apart
  <1>11. \A j \in 1..Len(names') : sinks'[names'[j]].bytes = olds'[names'[j]]
    <2>0. /\ \A j \in 1..m : sinks[names[j]].bytes = olds[names[j]]
          /\ \A i, j \in 1..m : names[i] = names[j] => i = j
      BY <1>a, <1>1 DEF TeeInv, Apart
    <2>1. 1 \in 1..m /\ \A j \in 1..(m - 1) : j + 1 \in 1..m /\ j + 1 # 1
      BY <1>2
    <2>2. \A j \in 1..(m - 1) : names[j + 1] \in D \ {s}
      BY <1>a, <1>2, <2>0, <2>1
    <2> QED
      <3>1. ASSUME NEW j \in 1..(m - 1) PROVE sinks'[names'[j]].bytes = olds'[names'[j]]
        <4>1. names'[j] = names[j + 1] /\ j + 1 \in 1..m /\ names[j + 1] \in D \ {s}
          BY <1>8, <2>1, <2>2
        <4> QED
          BY <1>5, <1>6, <2>0, <4>1, ZenonT(60)
      <3> QED
        BY <1>8, <3>1
  <1>12. ASSUME NEW i \in 1..(l + 1), fds'[i] \notin broken'
         PROVE  Holding(fds[i], GivenTo(i))'
    <2>1. GivenTo(i) = 0 /\ GivenTo(i)' = 0
      BY <1>1 DEF GivenTo
    <2>2. CASE i \in 1..l
      <3>1. 1 \in 1..m
        BY <1>2
      <3>2. fds[i] # s
        BY <1>a, <1>1, <2>2, <3>1 DEF Apart
      <3>3. fds'[i] = fds[i] /\ sinks'[fds[i]] = sinks[fds[i]] /\ fds[i] \notin broken
        BY <1>a, <1>2, <1>5, <1>6, <1>7, <1>12, <2>2, <3>2
      <3> QED
        BY <1>a, <1>5, <2>1, <2>2, <3>3, HoldingKept
    <2>3. CASE i = l + 1
      <3>1. SubSeq(source, 1, 0) = <<>> /\ kept \o <<>> = kept
        BY <1>4, SubSeqEmpty, ConcatEmptySeq
      <3>2. fds'[i] = s /\ Opened(s)' = kept
        BY <1>4, <1>5, <1>7, <2>3 DEF Opened
      <3>3. /\ sinks'[s].bytes = Opened(s)' \o SubSeq(source', 1, 0)
            /\ sinks'[s].pos = Len(sinks'[s].bytes)
        BY <1>5, <1>6, <3>1, <3>2
      <3> QED
        BY <2>1, <3>2, <3>3 DEF Holding
    <2>4. i \in 1..l \/ i = l + 1
      BY <1>2
    <2> QED
      BY <2>2, <2>3, <2>4
  <1> QED
    BY <1>1, <1>7, <1>9, <1>10, <1>11, <1>12 DEF TeeInv
LEMMA TeeReads == TeeInv /\ TeeRead => TeeInv'
  <1> SUFFICES ASSUME TeeInv, TeeRead PROVE TeeInv'
    OBVIOUS
  <1>1. /\ source \in Seq(Byte) /\ taken \in 0..Len(source) /\ Len(source) \in Nat
        /\ fds \in Seq(DOMAIN sinks) /\ tpc \in {"open", "read"} /\ TeeType /\ Apart
    BY LenProperties DEF TeeInv, TeeType, TeeRead
  <1>2. \A n \in 1..Min({TeeBuffer, Left}) : n \in Nat \ {0} /\ n <= Len(source) - taken
    <2> DEFINE a == TeeBuffer
               b == Left
    <2>1. a \in Int /\ b \in Int /\ b = Len(source) - taken
      BY <1>1, TeeRunsAssumption DEF Left
    <2> HIDE DEF a, b
    <2>2. \A n \in 1..Min({a, b}) : n \in Nat \ {0} /\ n <= b
      BY <2>1, UpToBoth
    <2> QED
      BY <2>1, <2>2 DEF a, b
  <1>3. PICK n \in Nat \ {0} : n <= Len(source) - taken /\ chunk' = Coming(n) /\ taken' = taken + n
    BY <1>2 DEF TeeRead
  <1>4. /\ tpc' = "write" /\ turn' = 1
        /\ UNCHANGED <<source, sinks, appends, names, fds, olds, broken>>
    BY DEF TeeRead
  <1>5. /\ taken' \in 0..Len(source) /\ chunk' = SubSeq(source, taken + 1, taken')
        /\ chunk' \in Seq(Byte) /\ Len(chunk') = n
    <2>1. taken + 1 \in 1..(Len(source) + 1) /\ taken + n \in taken..Len(source)
      BY <1>1, <1>3
    <2>2. IsPart(Byte, SubSeq(source, taken + 1, taken + n), source, taken + 1, taken + n)
      <3> DEFINE a == taken + 1
                 b == taken + n
      <3>1. a \in 1..(Len(source) + 1) /\ b \in (a - 1)..Len(source)
        BY <1>1, <2>1
      <3> HIDE DEF a, b
      <3>2. IsPart(Byte, SubSeq(source, a, b), source, a, b)
        BY <1>1, <3>1, Part
      <3> QED
        BY <3>2 DEF a, b
    <2> QED
      BY <1>1, <1>3, <2>1, <2>2 DEF IsPart, Coming
  <1>6. taken' - Len(chunk') = taken /\ Len(chunk') \in 1..taken' /\ chunk' # <<>>
    <2>1. taken' - n = taken /\ n \in 1..taken' /\ n # 0
      BY <1>1, <1>3
    <2>2. Len(<<>>) = 0
      OBVIOUS
    <2>3. Len(chunk') = n
      BY <1>5
    <2> QED
      BY <2>1, <2>2, <2>3
  <1>7. turn' \in 1..Len(fds')
    BY <1>1, <1>4, LenProperties, EmptySeq DEF TeeType
  <1>8. TeeType'
    <2>1. chunk' = SubSeq(source', taken' - Len(chunk') + 1, taken')
      BY <1>4, <1>5, <1>6
    <2> QED
      BY <1>1, <1>4, <1>5, <1>6, <1>7, <2>1 DEF TeeType
  <1>9. Apart'
    BY <1>1, <1>4 DEF Apart
  <1>10. ASSUME NEW i \in 1..Len(fds), fds[i] \notin broken PROVE Holding(fds[i], GivenTo(i))'
    <2>1. GivenTo(i)' = GivenTo(i)
      <3>1. GivenTo(i) = taken
        BY <1>1 DEF GivenTo
      <3>2. i >= turn'
        BY <1>4
      <3> QED
        BY <1>4, <1>6, <3>1, <3>2 DEF GivenTo
    <2> QED
      BY <1>4, <1>10, <2>1, HoldingKept
  <1> QED
    BY <1>4, <1>8, <1>9, <1>10 DEF TeeInv

\* What an output was given when the turn goes on.
LEMMA TurnGivesIt ==
    ASSUME TeeInv, TeeTurn, tpc = "write", NEW i \in 1..Len(fds)
    PROVE  /\ i # turn => GivenTo(i)' = GivenTo(i)
           /\ i = turn => GivenTo(i)' = taken /\ GivenTo(i) = taken - Len(chunk)
  <1>1. /\ turn \in 1..Len(fds) /\ turn' = turn + 1 /\ Len(fds) \in Nat
        /\ tpc' = (IF turn = Len(fds) THEN "read" ELSE "write")
        /\ taken' = taken /\ chunk' = chunk
    BY LenProperties DEF TeeInv, TeeType, TeeTurn
  <1>2. i \in Nat /\ turn \in Nat /\ i <= Len(fds)
    BY <1>1
  <1>3. CASE i > turn
    <2>1. tpc' = "write" /\ i >= turn' /\ i >= turn
      BY <1>1, <1>2, <1>3
    <2> QED
      BY <1>1, <1>2, <1>3, <2>1 DEF GivenTo
  <1>4. CASE i = turn
    <2>1. ~(i >= turn') /\ i >= turn
      BY <1>1, <1>2, <1>4
    <2> QED
      BY <1>1, <1>4, <2>1 DEF GivenTo
  <1>5. CASE i < turn
    <2>1. ~(i >= turn') /\ ~(i >= turn) /\ i # turn
      BY <1>1, <1>2, <1>5
    <2> QED
      BY <1>1, <2>1 DEF GivenTo
  <1> QED
    BY <1>2, <1>3, <1>4, <1>5

\* The outputs are the same ones, with their types, when the turn goes on.
LEMMA TurnKeepsTypes ==
    ASSUME TeeInv, TeeTurn, tpc = "write", DOMAIN sinks' = DOMAIN sinks,
           sinks' \in [DOMAIN sinks -> [bytes : Seq(Byte), pos : Nat]]
    PROVE  TeeType' /\ Apart'
  <1>1. /\ turn \in 1..Len(fds) /\ turn' = turn + 1 /\ Len(fds) \in Nat
        /\ tpc' = (IF turn = Len(fds) THEN "read" ELSE "write")
        /\ UNCHANGED <<source, taken, appends, names, fds, chunk, olds>>
        /\ TeeType /\ Apart
    BY LenProperties DEF TeeInv, TeeType, TeeTurn
  <1>2. tpc' = "write" => turn' \in 1..Len(fds)
    BY <1>1
  <1> QED
    BY <1>1, <1>2 DEF TeeType, Apart

LEMMA TeeWrites == TeeInv /\ (TeeWrite \/ TeeWriteFails) => TeeInv'
  <1> SUFFICES ASSUME TeeInv, TeeWrite \/ TeeWriteFails PROVE TeeInv'
    OBVIOUS
  <1>1. TeeTurn /\ tpc = "write" /\ TeeType /\ Apart
    BY DEF TeeWrite, TeeWriteFails, TeeInv
  <1>2. PICK s : s = fds[turn]
    OBVIOUS
  <1>3. /\ s \in DOMAIN sinks /\ sinks[s].bytes \in Seq(Byte) /\ sinks[s].pos \in Nat
        /\ turn \in 1..Len(fds) /\ Len(fds) \in Nat
        /\ sinks \in [DOMAIN sinks -> [bytes : Seq(Byte), pos : Nat]]
        /\ \A i \in 1..Len(fds) : fds[i] \in DOMAIN sinks
    BY <1>1, <1>2, LenProperties, ElementOfSeq DEF TeeType
  <1>4. /\ UNCHANGED <<source, taken, appends, names, fds, chunk, olds>>
        /\ tpc' \in {"read", "write"}
    BY <1>1 DEF TeeTurn
  <1>5. source \in Seq(Byte) /\ Len(source) \in Nat /\ taken \in 0..Len(source)
    BY <1>1, LenProperties DEF TeeType
  <1>6. chunk = SubSeq(source, taken - Len(chunk) + 1, taken) /\ Len(chunk) \in 1..taken
    BY <1>1 DEF TeeType
  <1>7. chunk \in Seq(Byte)
    <2> DEFINE a == taken - Len(chunk) + 1
    <2>1. a \in 1..(Len(source) + 1) /\ taken \in (a - 1)..Len(source)
      BY <1>5, <1>6
    <2> HIDE DEF a
    <2>2. IsPart(Byte, SubSeq(source, a, taken), source, a, taken)
      BY <1>5, <2>1, Part
    <2> QED
      BY <1>6, <2>2 DEF IsPart, a
  <1>8. ASSUME DOMAIN sinks' = DOMAIN sinks,
               sinks' \in [DOMAIN sinks -> [bytes : Seq(Byte), pos : Nat]],
               \A x \in DOMAIN sinks \ {s} : sinks'[x] = sinks[x],
               broken \subseteq broken', s \notin broken' => Holding(s, taken)'
        PROVE  TeeInv'
    <2>1. TeeType' /\ Apart'
      BY <1>1, <1>8, TurnKeepsTypes
    <2>2. ASSUME NEW i \in 1..Len(fds), fds[i] \notin broken' PROVE Holding(fds[i], GivenTo(i))'
      <3>1. CASE i = turn
        <4>1. GivenTo(i)' = taken /\ fds[i] = s
          BY <1>1, <1>2, <3>1, TurnGivesIt
        <4> QED
          BY <1>4, <1>8, <2>2, <4>1 DEF Holding, Opened
      <3>2. CASE i # turn
        <4>1. fds[i] # s
          BY <1>1, <1>2, <1>3, <3>2 DEF Apart
        <4>2. sinks'[fds[i]] = sinks[fds[i]]
          BY <1>3, <1>8, <4>1
        <4>3. GivenTo(i)' = GivenTo(i)
          BY <1>1, <3>2, TurnGivesIt
        <4>4. fds[i] \notin broken
          BY <1>8, <2>2
        <4> QED
          BY <1>4, <4>2, <4>3, <4>4, HoldingKept
      <3> QED
        BY <3>1, <3>2
    <2> QED
      BY <1>4, <2>1, <2>2 DEF TeeInv
  <1>9. CASE TeeWriteFails
    <2>1. sinks' = sinks /\ broken' = broken \cup {s}
      BY <1>2, <1>9 DEF TeeWriteFails
    <2> QED
      BY <1>3, <1>8, <2>1
  <1>10. CASE TeeWrite
    <2>1. PICK n \in 1..Len(chunk) :
            /\ Write(s, SubSeq(chunk, 1, n))
            /\ broken' = IF n < Len(chunk) THEN broken \cup {s} ELSE broken
      BY <1>2, <1>10 DEF TeeWrite
    <2>2. PICK put : put = SubSeq(chunk, 1, n)
      OBVIOUS
    <2>3. n \in 1..Len(chunk) /\ Len(chunk) \in Nat
      BY <1>7, LenProperties
    <2>4. put \in Seq(Byte) /\ Len(put) \in Nat
      <3>1. 1 \in 1..(Len(chunk) + 1) /\ n \in (1 - 1)..Len(chunk)
        BY <2>3
      <3>2. IsPart(Byte, SubSeq(chunk, 1, n), chunk, 1, n)
        BY <1>7, <3>1, Part
      <3> QED
        BY <2>2, <3>2, LenProperties DEF IsPart
    <2>5. PICK w : w = Written(sinks[s].bytes, sinks[s].pos, put)
      OBVIOUS
    <2>6. w \in Seq(Byte)
      BY <1>3, <2>4, <2>5, WrittenType
    <2>7. sinks' = [sinks EXCEPT ![s] = [bytes |-> w, pos |-> sinks[s].pos + Len(put)]]
      BY <2>1, <2>2, <2>5 DEF Write
    <2>8. /\ DOMAIN sinks' = DOMAIN sinks
          /\ sinks' \in [DOMAIN sinks -> [bytes : Seq(Byte), pos : Nat]]
          /\ \A x \in DOMAIN sinks \ {s} : sinks'[x] = sinks[x]
          /\ sinks'[s] = [bytes |-> w, pos |-> sinks[s].pos + Len(put)]
      BY <1>3, <2>4, <2>6, <2>7
    <2>9. broken \subseteq broken'
      BY <2>1
    <2>10. ASSUME s \notin broken' PROVE Holding(s, taken)'
      <3>1. n = Len(chunk) /\ s \notin broken
        BY <2>1, <2>3, <2>10
      <3>2. put = chunk
        BY <1>7, <2>2, <3>1, SubSeqFull
      <3>3. GivenTo(turn) = taken - Len(chunk)
        BY <1>1, <1>3, TurnGivesIt
      <3>4. /\ sinks[s].bytes = Opened(s) \o SubSeq(source, 1, taken - Len(chunk))
            /\ sinks[s].pos = Len(sinks[s].bytes)
        BY <1>2, <1>3, <3>1, <3>3 DEF TeeInv, Holding
      <3>5. w = sinks[s].bytes \o chunk
        BY <1>3, <1>7, <2>5, <3>2, <3>4, WrittenAtEnd
      <3>6. Opened(s) \in Seq(Byte)
        BY <1>1, <1>3 DEF TeeType, Opened
      <3>7. SubSeq(source, 1, taken - Len(chunk)) \o chunk = SubSeq(source, 1, taken)
        <4> DEFINE a == taken - Len(chunk)
        <4>1. a \in 0..Len(source) /\ taken \in a..Len(source)
          BY <1>5, <1>6
        <4>2. chunk = SubSeq(source, a + 1, taken)
          BY <1>6
        <4> HIDE DEF a
        <4>3. SubSeq(source, 1, a) \o SubSeq(source, a + 1, taken) = SubSeq(source, 1, taken)
          BY <1>5, <4>1, Longer
        <4> QED
          BY <4>2, <4>3 DEF a
      <3>8. SubSeq(source, 1, taken - Len(chunk)) \in Seq(Byte)
        <4> DEFINE a == taken - Len(chunk)
        <4>1. 1 \in 1..(Len(source) + 1) /\ a \in (1 - 1)..Len(source)
          BY <1>5, <1>6
        <4> HIDE DEF a
        <4>2. IsPart(Byte, SubSeq(source, 1, a), source, 1, a)
          BY <1>5, <4>1, Part
        <4> QED
          BY <4>2 DEF a, IsPart
      <3>9. w = Opened(s) \o SubSeq(source, 1, taken)
        <4>1. PICK a, b, c : /\ a = Opened(s) /\ b = SubSeq(source, 1, taken - Len(chunk))
                             /\ c = chunk
          OBVIOUS
        <4>2. a \in Seq(Byte) /\ b \in Seq(Byte) /\ c \in Seq(Byte)
          BY <1>7, <3>6, <3>8, <4>1
        <4>3. w = (a \o b) \o c /\ b \o c = SubSeq(source, 1, taken)
          BY <3>4, <3>5, <3>7, <4>1
        <4>4. (a \o b) \o c = a \o (b \o c)
          BY <4>2, ConcatAssociative, SMTT(60)
        <4> QED
          BY <4>1, <4>3, <4>4
      <3>10. Len(w) = sinks[s].pos + Len(put)
        BY <1>3, <1>7, <3>2, <3>4, <3>5, ConcatProperties
      <3>11. Opened(s)' = Opened(s)
        BY <1>4 DEF Opened
      <3>12. sinks'[s].bytes = w /\ sinks'[s].pos = Len(w)
        BY <2>8, <3>10
      <3>13. SubSeq(source', 1, taken') = SubSeq(source, 1, taken)
        BY <1>4
      <3>14. /\ sinks'[s].bytes = Opened(s)' \o SubSeq(source', 1, taken')
             /\ sinks'[s].pos = Len(sinks'[s].bytes)
        BY <3>9, <3>11, <3>12, <3>13
      <3> QED
        BY <3>14 DEF Holding, Opened
    <2> QED
      BY <1>8, <2>8, <2>9, <2>10
  <1> QED
    BY <1>9, <1>10

LEMMA TeeGoesOn == TeeInv /\ (TeeNext \/ UNCHANGED <<streamVars, teeVars>>) => TeeInv'
  <1> SUFFICES ASSUME TeeInv, TeeNext \/ UNCHANGED <<streamVars, teeVars>> PROVE TeeInv'
    OBVIOUS
  <1>1. CASE TeeOpenFails
    <2>1. /\ names \in Seq(DOMAIN sinks) /\ names # <<>> /\ names' = Tail(names)
          /\ UNCHANGED <<streamVars, appends, fds, tpc, chunk, turn, olds, broken>>
          /\ UNCHANGED <<source, taken, sinks>>
          /\ TeeType /\ Apart /\ tpc = "open"
      BY <1>1 DEF TeeInv, TeeType, TeeOpenFails, streamVars
    <2>2. /\ names' \in Seq(DOMAIN sinks) /\ Len(names) \in Nat \ {0} /\ Len(names') = Len(names) - 1
          /\ \A j \in 1..(Len(names) - 1) : names'[j] = names[j + 1]
      BY <2>1, HeadTailProperties, LenProperties, EmptySeq
    <2>3. \A j \in 1..Len(names') : j + 1 \in 1..Len(names) /\ names'[j] = names[j + 1]
      BY <2>2
    <2>4. TeeType'
      BY <2>1, <2>2 DEF TeeType
    <2>5. Apart'
      <3>1. /\ \A i, j \in 1..Len(fds) : fds[i] = fds[j] => i = j
            /\ \A i, j \in 1..Len(names) : names[i] = names[j] => i = j
            /\ \A i \in 1..Len(fds), j \in 1..Len(names) : fds[i] # names[j]
        BY <2>1 DEF Apart
      <3>2. \A i, j \in 1..Len(names') : names'[i] = names'[j] => i = j
        <4> SUFFICES ASSUME NEW i \in 1..Len(names'), NEW j \in 1..Len(names'),
                            names'[i] = names'[j]
                     PROVE  i = j
          OBVIOUS
        <4>1. i + 1 = j + 1
          BY <2>3, <3>1
        <4> QED
          BY <4>1
      <3>3. \A i \in 1..Len(fds), j \in 1..Len(names') : fds[i] # names'[j]
        BY <2>3, <3>1
      <3> QED
        BY <2>1, <3>1, <3>2, <3>3 DEF Apart
    <2>6. \A j \in 1..Len(names') : sinks'[names'[j]].bytes = olds'[names'[j]]
      <3>1. \A j \in 1..Len(names) : sinks[names[j]].bytes = olds[names[j]]
        BY <2>1 DEF TeeInv
      <3> QED
        BY <2>1, <2>3, <3>1
    <2>7. ASSUME NEW i \in 1..Len(fds), fds[i] \notin broken PROVE Holding(fds[i], GivenTo(i))'
      <3>1. GivenTo(i)' = GivenTo(i)
        BY <2>1 DEF GivenTo
      <3> QED
        BY <2>1, <2>7, <3>1, HoldingKept
    <2> QED
      BY <2>1, <2>4, <2>5, <2>6, <2>7 DEF TeeInv
  <1>2. CASE TeeEnds
    <2>1. /\ UNCHANGED <<source, taken, sinks, appends, names, fds, olds, broken>>
          /\ tpc' = "exit" /\ tpc \in {"open", "read"} /\ TeeType /\ Apart
      BY <1>2 DEF TeeInv, TeeEnds
    <2>2. ASSUME NEW i \in 1..Len(fds), fds[i] \notin broken PROVE Holding(fds[i], GivenTo(i))'
      <3>1. GivenTo(i)' = GivenTo(i)
        BY <2>1 DEF GivenTo
      <3> QED
        BY <2>1, <2>2, <3>1, HoldingKept
    <2>3. TeeType' /\ Apart'
      BY <2>1 DEF TeeType, Apart
    <2> QED
      BY <2>1, <2>2, <2>3 DEF TeeInv
  <1>3. CASE UNCHANGED <<streamVars, teeVars>>
    BY <1>3, ZenonT(60) DEF TeeInv, TeeType, Apart, Holding, Opened, GivenTo, streamVars, teeVars
  <1> QED
    BY <1>1, <1>2, <1>3, TeeOpens, TeeReads, TeeWrites DEF TeeNext

LEMMA TeeShows == TeeInv => TeeImage
  <1> SUFFICES ASSUME TeeInv, tpc \in {"read", "exit"}, NEW s \in ToSet(fds) \ broken
               PROVE  sinks[s].bytes = Opened(s) \o SubSeq(source, 1, taken)
    BY DEF TeeImage, Opened
  <1>1. fds \in Seq(DOMAIN sinks)
    BY DEF TeeInv, TeeType
  <1>2. PICK i \in 1..Len(fds) : s = fds[i]
    BY <1>1, LenProperties DEF ToSet
  <1>3. GivenTo(i) = taken
    BY DEF GivenTo
  <1> QED
    BY <1>2, <1>3 DEF TeeInv, Holding
-----------------------------------------------------------------------------
\* dd: where each block starts in the input, from the first cut to the n-th.

StartsTo(f, cs, from, n) ==
    f = [i \in 1..n |-> IF i = 1 THEN from ELSE f[i - 1] + cs[i - 1]]

LEMMA StartsExist ==
    ASSUME NEW cs, NEW from
    PROVE  \A n \in Nat : \E f : StartsTo(f, cs, from, n)
  <1> DEFINE S == {n \in Nat : \E f : StartsTo(f, cs, from, n)}
  <1>1. 0 \in S
    <2> DEFINE f == [i \in 1..0 |-> from]
    <2>1. StartsTo(f, cs, from, 0)
      BY 1..0 = {} DEF StartsTo
    <2> QED
      BY <2>1
  <1>2. ASSUME NEW n \in Nat, n \in S PROVE n + 1 \in S
    <2>1. PICK f : f = [i \in 1..n |-> IF i = 1 THEN from ELSE f[i - 1] + cs[i - 1]]
      BY <1>2 DEF StartsTo
    <2> DEFINE g == [i \in 1..(n + 1) |-> IF i \in 1..n THEN f[i]
                                          ELSE IF i = 1 THEN from ELSE f[i - 1] + cs[i - 1]]
    <2>2. ASSUME NEW i \in 1..(n + 1)
          PROVE  g[i] = IF i = 1 THEN from ELSE g[i - 1] + cs[i - 1]
      <3>1. i # 1 => i - 1 \in 1..n /\ i - 1 \in 1..(n + 1)
        OBVIOUS
      <3>2. i # 1 => g[i - 1] = f[i - 1]
        BY <3>1
      <3>3. CASE i \in 1..n
        <4>1. g[i] = f[i] /\ f[i] = IF i = 1 THEN from ELSE f[i - 1] + cs[i - 1]
          BY <2>1, <3>3
        <4> QED
          BY <3>2, <4>1
      <3>4. CASE i \notin 1..n
        BY <3>2, <3>4
      <3> QED
        BY <3>3, <3>4
    <2>3. g = [i \in 1..(n + 1) |-> g[i]]
      OBVIOUS
    <2> HIDE DEF g
    <2>4. StartsTo(g, cs, from, n + 1)
      BY <2>2, <2>3 DEF StartsTo
    <2> QED
      BY <2>4
  <1> HIDE DEF S
  <1>3. \A n \in Nat : n \in S
    BY <1>1, <1>2, Induction
  <1> QED
    BY <1>3 DEF S

\* The cuts that come later do not move the blocks before them.
LEMMA StartsAlike ==
    ASSUME NEW cs, NEW ds, NEW from, NEW m \in Nat, NEW n \in Nat, m <= n, SameTo(cs, ds, m - 1),
           NEW f, StartsTo(f, cs, from, m), NEW g, StartsTo(g, ds, from, n)
    PROVE  SameTo(f, g, m)
  <1> DEFINE S == {i \in Nat : i \in 1..m => f[i] = g[i]}
  <1>1. 0 \in S
    OBVIOUS
  <1>2. ASSUME NEW i \in Nat, i \in S PROVE i + 1 \in S
    <2> SUFFICES ASSUME i + 1 \in 1..m PROVE f[i + 1] = g[i + 1]
      OBVIOUS
    <2>1. /\ i + 1 \in 1..m /\ i + 1 \in 1..n /\ (i + 1) - 1 = i
          /\ i + 1 # 1 => i \in 1..m /\ cs[i] = ds[i]
      BY DEF SameTo
    <2> DEFINE k == i + 1
    <2>2. /\ k \in 1..m /\ k \in 1..n
          /\ k # 1 => f[k - 1] = g[k - 1] /\ cs[k - 1] = ds[k - 1]
      BY <1>2, <2>1
    <2> HIDE DEF k
    <2>3. f[k] = IF k = 1 THEN from ELSE f[k - 1] + cs[k - 1]
      BY <2>2 DEF StartsTo
    <2>4. g[k] = IF k = 1 THEN from ELSE g[k - 1] + ds[k - 1]
      BY <2>2 DEF StartsTo
    <2>5. f[k] = g[k]
      BY <2>2, <2>3, <2>4
    <2> QED
      BY <2>5 DEF k
  <1> HIDE DEF S
  <1>3. \A i \in Nat : i \in S
    BY <1>1, <1>2, Induction
  <1> QED
    BY <1>3 DEF S, SameTo

From == Min({conv.skip * conv.ibs, Len(source)})

Starts(cs, from) == CHOOSE f : StartsTo(f, cs, from, Len(cs) + 1)

FilledBy(o, bytes) ==
    IF o.sync THEN bytes \o [k \in 1..(o.ibs - Len(bytes)) |-> 0] ELSE bytes

LEMMA StartsAre ==
    ASSUME NEW cs \in Seq(Nat \ {0}), NEW from
    PROVE  StartsTo(Starts(cs, from), cs, from, Len(cs) + 1)
  <1> DEFINE n == Len(cs) + 1
  <1>1. n \in Nat
    BY LenProperties
  <1> HIDE DEF n
  <1>2. \E f : StartsTo(f, cs, from, n)
    BY <1>1, StartsExist
  <1> QED
    BY <1>2 DEF Starts, n

\* A read makes one block more, of the bytes that it took.
LEMMA BlocksMore ==
    ASSUME cuts \in Seq(Nat \ {0}), NEW n \in Nat \ {0}, cuts' = Append(cuts, n),
           UNCHANGED <<source, conv>>, Starts(cuts, From)[Len(cuts) + 1] = taken,
           taken \in Nat, Blocks \in Seq(Seq(Byte)), Filled(Coming(n)) \in Seq(Byte)
    PROVE  /\ Blocks' = Append(Blocks, Filled(Coming(n)))
           /\ Starts(cuts, From)'[Len(cuts') + 1] = taken + n
  <1>1. PICK f : f = Starts(cuts, From)
    OBVIOUS
  <1>2. PICK g : g = Starts(cuts, From)'
    OBVIOUS
  <1>3. PICK m : m = Len(cuts)
    OBVIOUS
  <1>4. IsAppended(Nat \ {0}, cuts', cuts, n)
    <2>1. cuts \in Seq(Nat \ {0}) /\ n \in Nat \ {0}
      OBVIOUS
    <2> QED
      BY <2>1, Appended
  <1>5. /\ m \in Nat /\ cuts' \in Seq(Nat \ {0}) /\ Len(cuts') = m + 1 /\ cuts'[m + 1] = n
        /\ \A i \in 1..m : cuts'[i] = cuts[i]
        /\ DOMAIN cuts = 1..m /\ DOMAIN cuts' = 1..(m + 1)
    BY <1>3, <1>4, LenProperties DEF IsAppended
  <1>6. From' = From
    BY DEF From
  <1>7. StartsTo(f, cuts, From, m + 1) /\ StartsTo(g, cuts', From, m + 2)
    <2>1. StartsTo(f, cuts, From, Len(cuts) + 1)
      BY <1>1, StartsAre
    <2>2. g = Starts(cuts', From)
      BY <1>2, <1>6 DEF Starts
    <2>3. StartsTo(g, cuts', From, Len(cuts') + 1)
      BY <1>5, <2>2, StartsAre
    <2>4. Len(cuts') + 1 = m + 2
      BY <1>5
    <2> QED
      BY <1>3, <2>1, <2>3, <2>4
  <1>8. \A i \in 1..(m + 1) : f[i] = g[i]
    <2> DEFINE k == m + 1
               l == m + 2
    <2>1. k \in Nat /\ l \in Nat /\ k <= l /\ k - 1 = m
      BY <1>5
    <2>2. SameTo(cuts, cuts', k - 1)
      BY <1>5, <2>1 DEF SameTo
    <2>3. StartsTo(f, cuts, From, k) /\ StartsTo(g, cuts', From, l)
      BY <1>7
    <2> HIDE DEF k, l
    <2>4. SameTo(f, g, k)
      BY <2>1, <2>2, <2>3, StartsAlike
    <2> QED
      BY <2>4 DEF k, SameTo
  <1>9. f[m + 1] = taken /\ g[m + 1] = taken /\ g[m + 2] = taken + n
    <2>1. m + 1 \in 1..(m + 1) /\ m + 2 \in 1..(m + 2) /\ m + 2 # 1 /\ (m + 2) - 1 = m + 1
      BY <1>5
    <2>2. f[m + 1] = taken
      BY <1>1, <1>3
    <2>3. g[m + 2] = g[m + 1] + cuts'[m + 1]
      <3> DEFINE k == m + 2
      <3>1. k \in 1..k /\ k # 1 /\ StartsTo(g, cuts', From, k) /\ k - 1 = m + 1
        BY <1>7, <2>1
      <3> HIDE DEF k
      <3>2. g[k] = g[k - 1] + cuts'[k - 1]
        BY <3>1 DEF StartsTo
      <3> QED
        BY <3>1, <3>2 DEF k
    <2> QED
      BY <1>5, <1>8, <2>1, <2>2, <2>3
  <1>10. Blocks = [i \in 1..m |-> Filled(SubSeq(source, f[i] + 1, f[i] + cuts[i]))]
    BY <1>1, <1>3, <1>5 DEF Blocks, Starts, StartsTo, From
  <1>11. Blocks' = [i \in 1..(m + 1) |-> Filled(SubSeq(source, g[i] + 1, g[i] + cuts'[i]))]
    <2>1. Blocks' = [i \in DOMAIN cuts' |->
                        FilledBy(conv', SubSeq(source', Starts(cuts, From)'[i] + 1,
                                               Starts(cuts, From)'[i] + cuts'[i]))]
      BY DEF Blocks, Starts, StartsTo, From, Filled, FilledBy
    <2>2. \A b : FilledBy(conv, b) = Filled(b)
      BY DEF Filled, FilledBy
    <2>3. Blocks' = [i \in 1..(m + 1) |->
                        FilledBy(conv, SubSeq(source, g[i] + 1, g[i] + cuts'[i]))]
      BY <1>2, <1>5, <2>1
    <2> QED
      BY <2>2, <2>3
  <1>12. IsAppended(Seq(Byte), Append(Blocks, Filled(Coming(n))), Blocks, Filled(Coming(n)))
    BY Appended
  <1>13. Len(Blocks) = m
    BY <1>5, <1>10
  <1>14. Blocks' = Append(Blocks, Filled(Coming(n)))
    <2>1. PICK s : s = Append(Blocks, Filled(Coming(n)))
      OBVIOUS
    <2>2. /\ s \in Seq(Seq(Byte)) /\ Len(s) = m + 1 /\ s[m + 1] = Filled(Coming(n))
          /\ \A i \in 1..m : s[i] = Blocks[i]
      BY <1>12, <1>13, <2>1 DEF IsAppended
    <2>3. s = [i \in 1..(m + 1) |-> s[i]]
      BY <2>2, LenProperties
    <2>4. ASSUME NEW i \in 1..(m + 1)
          PROVE  s[i] = Filled(SubSeq(source, g[i] + 1, g[i] + cuts'[i]))
      <3>1. CASE i \in 1..m
        <4>1. f[i] = g[i] /\ cuts'[i] = cuts[i] /\ s[i] = Blocks[i]
          BY <1>5, <1>8, <2>2, <3>1
        <4>2. Blocks[i] = Filled(SubSeq(source, f[i] + 1, f[i] + cuts[i]))
          BY <1>10, <3>1
        <4> QED
          BY <4>1, <4>2
      <3>2. CASE i \notin 1..m
        <4>1. i = m + 1
          BY <1>5, <3>2
        <4> QED
          BY <1>5, <1>9, <2>2, <4>1 DEF Coming
      <3> QED
        BY <3>1, <3>2
    <2> QED
      BY <1>11, <2>1, <2>3, <2>4
  <1> QED
    BY <1>2, <1>5, <1>9, <1>14
LEMMA FilledType ==
    ASSUME conv \in DdOptions, NEW bytes \in Seq(Byte), bytes # <<>>, Len(bytes) <= conv.ibs
    PROVE  Filled(bytes) \in Seq(Byte) /\ Len(Filled(bytes)) \in Nat \ {0}
  <1>1. conv.ibs \in Nat /\ Len(bytes) \in Nat \ {0}
    BY LenProperties, EmptySeq DEF DdOptions
  <1> DEFINE zeros == [k \in 1..(conv.ibs - Len(bytes)) |-> 0]
  <1>2. zeros \in Seq(Byte)
    <2> DEFINE n == conv.ibs - Len(bytes)
    <2>1. n \in Nat
      BY <1>1
    <2> HIDE DEF n
    <2>2. [k \in 1..n |-> 0] \in [1..n -> Byte]
      BY DEF Byte
    <2>3. [k \in 1..n |-> 0] \in Seq(Byte)
      BY <2>1, <2>2, FunctionIsSeq
    <2> QED
      BY <2>3 DEF n
  <1> HIDE DEF zeros
  <1>3. bytes \o zeros \in Seq(Byte) /\ Len(bytes \o zeros) = Len(bytes) + Len(zeros)
    BY <1>2, ConcatProperties
  <1>4. Len(zeros) \in Nat
    BY <1>2, LenProperties
  <1>5. Filled(bytes) = IF conv.sync THEN bytes \o zeros ELSE bytes
    BY DEF Filled, zeros
  <1>6. Len(bytes \o zeros) \in Nat \ {0}
    BY <1>1, <1>3, <1>4
  <1> QED
    BY <1>1, <1>3, <1>5, <1>6

\* The byte at a place of a file, which reads as zero where nothing was written.
ByteAt(b, k) == IF k \in DOMAIN b THEN b[k] ELSE 0

LEMMA WrittenAt ==
    ASSUME NEW old \in Seq(Byte), NEW from \in Nat, NEW bytes \in Seq(Byte), NEW k \in Nat \ {0}
    PROVE  ByteAt(Written(old, from, bytes), k) =
               IF k - from \in 1..Len(bytes) THEN bytes[k - from] ELSE ByteAt(old, k)
  <1>1. PICK n, l, w : n = Len(old) /\ l = Len(bytes) /\ w = Written(old, from, bytes)
    OBVIOUS
  <1>2. /\ n \in Nat /\ l \in Nat /\ DOMAIN old = 1..n /\ DOMAIN bytes = 1..l
        /\ from + l \in Nat
    BY <1>1, LenProperties
  <1>3. PICK m : m = Max({n, from + l})
    OBVIOUS
  <1>4. m \in Nat /\ m >= n /\ m >= from + l
    <2> DEFINE e == from + l
    <2>1. n \in Int /\ e \in Int /\ m = Max({n, e})
      BY <1>2, <1>3
    <2> HIDE DEF e
    <2>2. m \in {n, e} /\ m >= n /\ m >= e
      BY <2>1, GreatestOfTwo
    <2> QED
      BY <1>2, <2>2 DEF e
  <1>5. w = [i \in 1..m |-> IF i - from \in 1..l THEN bytes[i - from]
                           ELSE IF i \in 1..n THEN old[i] ELSE 0]
    BY <1>1, <1>2, <1>3 DEF Written
  <1>6. CASE k \in 1..m
    <2>1. w[k] = IF k - from \in 1..l THEN bytes[k - from] ELSE IF k \in 1..n THEN old[k] ELSE 0
      BY <1>5, <1>6
    <2>2. DOMAIN w = 1..m
      BY <1>5
    <2> QED
      BY <1>1, <1>2, <1>6, <2>1, <2>2 DEF ByteAt
  <1>7. CASE k \notin 1..m
    <2>1. k - from \notin 1..l /\ k \notin 1..n
      BY <1>2, <1>4, <1>7
    <2>2. DOMAIN w = 1..m
      BY <1>5
    <2> QED
      BY <1>1, <1>2, <1>7, <2>1, <2>2 DEF ByteAt
  <1> QED
    BY <1>6, <1>7

\* What dd holds and counts, and that it has taken the blocks of its cuts.
DdType ==
    /\ source \in Seq(Byte) /\ conv \in DdOptions /\ prior \in Seq(Byte)
    /\ taken \in 0..Len(source) /\ cuts \in Seq(Nat \ {0}) /\ copied \in Nat
    /\ sinks \in [{"out"} -> [bytes : Seq(Byte), pos : Nat]]
    /\ block \in Seq(Byte) /\ written \in 0..Len(block)
    /\ dpc \in {"open", "read", "write", "exit"}
    /\ From \in Nat

DdCounts ==
    /\ dpc = "open" => /\ cuts = <<>> /\ copied = 0 /\ sinks["out"].bytes = prior
                       /\ conv.pipeOut => prior = <<>>
    /\ dpc = "read" => copied = Len(cuts) /\ (conv.count # 0 => copied <= conv.count)
    /\ dpc = "write" => /\ copied + 1 = Len(cuts) /\ (conv.count # 0 => copied < conv.count)
                        /\ written < Len(block)
    /\ (dpc = "read" /\ cuts # <<>>) \/ (dpc = "write" /\ written > 0) =>
           conv.sparse \/ Len(sinks["out"].bytes) >= sinks["out"].pos

DdAll == FlattenSeq(Blocks)
DdRest == IF dpc = "write" THEN Len(block) - written ELSE 0
DdPut == Len(DdAll) - DdRest
DdBase == conv.seek * conv.obs
DdOld == IF conv.notrunc THEN prior ELSE <<>>

\* A place of the output shows what dd has put there, or what was there.
ShownAt(k) ==
    ByteAt(sinks["out"].bytes, k) =
        IF k - DdBase \in 1..DdPut THEN DdAll[k - DdBase] ELSE ByteAt(DdOld, k)

DdShows ==
    /\ Blocks \in Seq(Seq(Byte)) /\ DdAll \in Seq(Byte)
    /\ Starts(cuts, From)[Len(cuts) + 1] = taken
    /\ dpc = "write" => \E ahead \in Seq(Byte) : DdAll = ahead \o block
    /\ sinks["out"].pos = DdBase + DdPut
    /\ ~(conv.sparse /\ conv.notrunc) => \A k \in Nat \ {0} : ShownAt(k)

DdInv == DdType /\ DdCounts /\ DdDone /\ (dpc \in {"read", "write"} => DdShows)

LEMMA DdStarts == Init /\ tool = "dd" => DdInv
  <1> SUFFICES ASSUME Init, tool = "dd" PROVE DdInv
    OBVIOUS
  <1>1. InitDd /\ taken = 0
    BY DEF Init, InitTee, InitCat, InitBase64, InitDos2unix, InitExecInPipe, InitShell,
           InitMonicall, InitChecksum, InitBox
  <1>2. PICK r \in DdRuns :
            /\ r.conv.pipeOut => r.old = <<>>
            /\ source = r.source /\ sinks = [out |-> Sink(r.old)]
            /\ DdInit(r.conv, r.old)
    BY <1>1 DEF InitDd
  <1>3. r.source \in Seq(Byte) /\ r.old \in Seq(Byte) /\ r.conv \in DdOptions
    BY DdRunsAssumption
  <1>4. conv = r.conv /\ dpc = "open" /\ block = <<>> /\ written = 0 /\ copied = 0 /\ cuts = <<>>
        /\ prior = r.old
    BY <1>2 DEF DdInit
  <1>5. sinks["out"] = [bytes |-> r.old, pos |-> 0] /\ DOMAIN sinks = {"out"}
        /\ sinks = [s \in {"out"} |-> sinks[s]]
    BY <1>2 DEF Sink
  <1>6. sinks \in [{"out"} -> [bytes : Seq(Byte), pos : Nat]]
    BY <1>3, <1>5
  <1>7. <<>> \in Seq(Byte) /\ <<>> \in Seq(Nat \ {0}) /\ Len(<<>>) = 0 /\ Len(source) \in Nat
    BY <1>2, <1>3, EmptySeq, LenProperties
  <1>8. From \in Nat
    <2> DEFINE a == conv.skip * conv.ibs
    <2>1. a \in Nat
      <3>1. conv.skip \in Nat /\ conv.ibs \in Nat
        BY <1>3, <1>4 DEF DdOptions
      <3> QED
        BY <3>1
    <2> DEFINE b == Len(source)
    <2>2. b \in Nat
      BY <1>7
    <2> HIDE DEF a, b
    <2>3. Min({a, b}) \in {a, b}
      <3>1. a \in Int /\ b \in Int
        BY <2>1, <2>2
      <3> QED
        BY <3>1, LeastOfTwo
    <2>4. Min({a, b}) \in Nat
      BY <2>1, <2>2, <2>3
    <2> QED
      BY <2>4 DEF From, a, b
  <1>9. DdType
    BY <1>1, <1>2, <1>3, <1>4, <1>6, <1>7, <1>8 DEF DdType
  <1>10. DdCounts
    BY <1>2, <1>4, <1>5 DEF DdCounts
  <1> QED
    BY <1>4, <1>9, <1>10 DEF DdInv, DdDone
\* At the beginning there are no blocks.
LEMMA NoBlocks ==
    ASSUME cuts = <<>>
    PROVE  /\ Blocks = <<>> /\ DdAll = <<>> /\ Len(DdAll) = 0
           /\ Starts(cuts, From)[Len(cuts) + 1] = From
  <1>1. DOMAIN cuts = {} /\ Len(cuts) = 0 /\ cuts \in Seq(Nat \ {0})
    BY EmptySeq
  <1>2. Blocks = <<>>
    <2>1. [i \in {} |-> FilledBy(conv, SubSeq(source, Starts(cuts, From)[i] + 1,
                                             Starts(cuts, From)[i] + cuts[i]))] = <<>>
      OBVIOUS
    <2>2. Blocks = [i \in DOMAIN cuts |->
                      FilledBy(conv, SubSeq(source, Starts(cuts, From)[i] + 1,
                                            Starts(cuts, From)[i] + cuts[i]))]
      BY DEF Blocks, Starts, StartsTo, From, Filled, FilledBy
    <2> QED
      BY <1>1, <2>1, <2>2
  <1>3. DdAll = <<>> /\ Len(DdAll) = 0
    BY <1>2 DEF DdAll, FlattenSeq
  <1>4. Starts(cuts, From)[Len(cuts) + 1] = From
    <2>1. StartsTo(Starts(cuts, From), cuts, From, Len(cuts) + 1)
      BY <1>1, StartsAre
    <2>2. StartsTo(Starts(cuts, From), cuts, From, 1)
      BY <1>1, <2>1
    <2>3. Starts(cuts, From)[1] = From
      BY <2>2 DEF StartsTo
    <2> QED
      BY <1>1, <2>3
  <1> QED
    BY <1>2, <1>3, <1>4

\* The blocks are the same while the input, the options and the cuts are.
LEMMA SameBlocks ==
    ASSUME UNCHANGED <<source, conv, cuts>>
    PROVE  /\ Blocks' = Blocks /\ DdAll' = DdAll /\ From' = From
           /\ Starts(cuts, From)'[Len(cuts') + 1] = Starts(cuts, From)[Len(cuts) + 1]
           /\ DdBase' = DdBase
  <1>1. From' = From
    BY DEF From
  <1>2. Starts(cuts, From)' = Starts(cuts, From)
    BY <1>1 DEF Starts
  <1>3. Blocks' = Blocks
    BY DEF Blocks, Filled
  <1> QED
    BY <1>1, <1>2, <1>3 DEF DdAll, DdBase

LEMMA DdOpens == DdInv /\ DdOpen => DdInv'
  <1> SUFFICES ASSUME DdInv, DdOpen PROVE DdInv'
    OBVIOUS
  <1>1. /\ DdType /\ DdCounts /\ dpc = "open" /\ dpc' = "read" /\ cuts = <<>> /\ copied = 0
        /\ UNCHANGED <<source, status, conv, block, written, copied, cuts, prior>>
        /\ taken' = From
        /\ sinks' = [Truncated EXCEPT !["out"].pos = conv.seek * conv.obs]
    BY DEF DdInv, DdCounts, DdOpen, From
  <1>2. /\ sinks \in [{"out"} -> [bytes : Seq(Byte), pos : Nat]]
        /\ prior \in Seq(Byte) /\ source \in Seq(Byte) /\ conv \in DdOptions /\ From \in Nat
        /\ sinks["out"].bytes = prior /\ (conv.pipeOut => prior = <<>>)
    BY <1>1 DEF DdType, DdCounts
  <1>3. DdBase \in Nat
    <2>1. conv.seek \in Nat /\ conv.obs \in Nat
      BY <1>2 DEF DdOptions
    <2> QED
      BY <2>1 DEF DdBase
  <1>4. DdOld \in Seq(Byte) /\ DdOld' = DdOld
    BY <1>1, <1>2, EmptySeq DEF DdOld
  <1>5. /\ sinks'["out"] = [bytes |-> DdOld, pos |-> DdBase]
        /\ sinks' \in [{"out"} -> [bytes : Seq(Byte), pos : Nat]]
    <2>1. PICK old, base : old = DdOld /\ base = conv.seek * conv.obs
      OBVIOUS
    <2>2. Truncated = [sinks EXCEPT !["out"].bytes = old]
      <3>1. conv.pipeOut \in BOOLEAN /\ conv.notrunc \in BOOLEAN
        BY <1>2 DEF DdOptions
      <3>2. (IF conv.notrunc \/ conv.pipeOut THEN sinks["out"].bytes ELSE <<>>) = old
        BY <1>2, <2>1, <3>1 DEF DdOld
      <3> QED
        BY <3>2 DEF Truncated
    <2>3. sinks' = [[sinks EXCEPT !["out"].bytes = old] EXCEPT !["out"].pos = base]
      BY <1>1, <2>1, <2>2
    <2>4. base \in Nat /\ old \in Seq(Byte) /\ base = DdBase
      BY <1>3, <1>4, <2>1 DEF DdBase
    <2> QED
      BY <1>2, <2>1, <2>3, <2>4
  <1>6. taken' \in 0..Len(source')
    <2>1. From <= Len(source)
      <3> DEFINE a == conv.skip * conv.ibs
                 b == Len(source)
      <3>1. a \in Int /\ b \in Int
        <4>1. conv.skip \in Nat /\ conv.ibs \in Nat
          BY <1>2 DEF DdOptions
        <4> QED
          BY <1>2, <4>1, LenProperties
      <3> HIDE DEF a, b
      <3>2. Min({a, b}) <= b
        BY <3>1, LeastOfTwo
      <3> QED
        BY <3>2 DEF From, a, b
    <2>2. Len(source) \in Nat
      BY <1>2, LenProperties
    <2> QED
      BY <1>1, <1>2, <2>1, <2>2
  <1>7. From' = From /\ DdBase' = DdBase /\ Blocks' = Blocks /\ DdAll' = DdAll
        /\ Starts(cuts, From)'[Len(cuts') + 1] = From
    BY <1>1, SameBlocks, NoBlocks
  <1>8. DdType'
    BY <1>1, <1>2, <1>5, <1>6, <1>7 DEF DdType
  <1>9. DdCounts'
    <2>1. Len(cuts) = 0
      BY <1>1
    <2> QED
      BY <1>1, <2>1 DEF DdCounts, DdType, DdOptions
  <1>10. DdShows'
    <2>1. DdAll' = <<>> /\ Len(DdAll') = 0 /\ Blocks' = <<>> /\ DdPut' = 0
      BY <1>1, <1>7, NoBlocks DEF DdPut, DdRest
    <2>2. <<>> \in Seq(Seq(Byte)) /\ <<>> \in Seq(Byte)
      BY EmptySeq
    <2>3. ASSUME NEW k \in Nat \ {0} PROVE ShownAt(k)'
      <3>1. k - DdBase' \notin 1..DdPut'
        BY <1>3, <1>7, <2>1
      <3>2. sinks'["out"].bytes = DdOld'
        BY <1>4, <1>5
      <3> QED
        BY <3>1, <3>2 DEF ShownAt
    <2>4. sinks'["out"].pos = DdBase' + DdPut'
      BY <1>3, <1>5, <1>7, <2>1
    <2> QED
      BY <1>1, <1>7, <2>1, <2>2, <2>3, <2>4 DEF DdShows
  <1> QED
    BY <1>1, <1>8, <1>9, <1>10 DEF DdInv, DdDone
\* What is shown of some bytes is shown of them and those behind them.
LEMMA ShownBefore ==
    ASSUME NEW a \in Seq(Byte), NEW b \in Seq(Byte), NEW i \in 1..Len(a)
    PROVE  (a \o b)[i] = a[i]
  BY ConcatProperties

LEMMA ShownBehind ==
    ASSUME NEW a \in Seq(Byte), NEW b \in Seq(Byte), NEW i \in 1..Len(b)
    PROVE  (a \o b)[Len(a) + i] = b[i]
  <1>1. Len(a) \in Nat /\ Len(b) \in Nat /\ Len(a \o b) = Len(a) + Len(b)
    BY LenProperties, ConcatProperties
  <1>2. Len(a) + i \in 1..(Len(a) + Len(b)) /\ ~(Len(a) + i <= Len(a)) /\ (Len(a) + i) - Len(a) = i
    BY <1>1
  <1>3. \A k \in 1..(Len(a) + Len(b)) :
            (a \o b)[k] = IF k <= Len(a) THEN a[k] ELSE b[k - Len(a)]
    BY ConcatProperties
  <1> QED
    BY <1>2, <1>3

LEMMA DdReads == DdInv /\ DdRead => DdInv'
  <1> SUFFICES ASSUME DdInv, DdRead PROVE DdInv'
    OBVIOUS
  <1>1. DdType /\ DdCounts /\ DdShows /\ dpc = "read" /\ Wanted
    BY DEF DdInv, DdRead
  <1>2. /\ source \in Seq(Byte) /\ Len(source) \in Nat /\ taken \in 0..Len(source)
        /\ conv \in DdOptions /\ conv.ibs \in Nat /\ conv.count \in Nat /\ conv.sparse \in BOOLEAN
        /\ conv.notrunc \in BOOLEAN
        /\ cuts \in Seq(Nat \ {0}) /\ copied = Len(cuts) /\ copied \in Nat
        /\ Blocks \in Seq(Seq(Byte)) /\ DdAll \in Seq(Byte)
    BY <1>1, LenProperties DEF DdType, DdCounts, DdShows, DdOptions
  <1>3. \A n \in 1..Min({conv.ibs, Left}) :
            n \in Nat \ {0} /\ n <= conv.ibs /\ n <= Len(source) - taken
    <2> DEFINE a == conv.ibs
               b == Left
    <2>1. a \in Int /\ b \in Int /\ b = Len(source) - taken
      BY <1>2 DEF Left
    <2> HIDE DEF a, b
    <2>2. \A n \in 1..Min({a, b}) : n \in Nat \ {0} /\ n <= a /\ n <= b
      BY <2>1, UpToBoth
    <2> QED
      BY <2>1, <2>2 DEF a, b
  <1>4. PICK n \in Nat \ {0} :
            /\ n <= conv.ibs /\ n <= Len(source) - taken
            /\ taken' = taken + n /\ cuts' = Append(cuts, n)
            /\ IF Hole(Filled(Coming(n)))
                 THEN /\ sinks' = [sinks EXCEPT !["out"].pos = @ + Len(Filled(Coming(n)))]
                      /\ copied' = copied + 1
                      /\ UNCHANGED <<dpc, block, written>>
                 ELSE /\ dpc' = "write" /\ block' = Filled(Coming(n)) /\ written' = 0
                      /\ UNCHANGED <<copied, sinks>>
    BY <1>3 DEF DdRead
  <1>5. UNCHANGED <<source, status, conv, prior>>
    BY DEF DdRead
  <1>6. taken' \in 0..Len(source')
    BY <1>2, <1>4, <1>5
  <1>7. Coming(n) \in Seq(Byte) /\ Len(Coming(n)) = n
    <2> DEFINE a == taken + 1
               b == taken + n
    <2>0. n <= Len(source) - taken
      BY <1>4
    <2>1. a \in 1..(Len(source) + 1) /\ b \in (a - 1)..Len(source) /\ b - a + 1 = n
      BY <1>2, <2>0
    <2> HIDE DEF a, b
    <2>2. IsPart(Byte, SubSeq(source, a, b), source, a, b)
      BY <1>2, <2>1, Part
    <2> QED
      BY <2>1, <2>2 DEF IsPart, Coming, a, b
  <1>8. PICK bytes : bytes = Filled(Coming(n))
    OBVIOUS
  <1>9. bytes \in Seq(Byte) /\ Len(bytes) \in Nat \ {0}
    <2>1. Coming(n) # <<>>
      BY <1>7, EmptySeq
    <2>2. PICK c : c = Coming(n)
      OBVIOUS
    <2>3. c \in Seq(Byte) /\ c # <<>> /\ Len(c) <= conv.ibs
      BY <1>4, <1>7, <2>1, <2>2
    <2>4. Filled(c) \in Seq(Byte) /\ Len(Filled(c)) \in Nat \ {0}
      BY <1>2, <2>3, FilledType
    <2> QED
      BY <1>8, <2>2, <2>4
  <1>10. Blocks' = Append(Blocks, bytes) /\ Starts(cuts, From)'[Len(cuts') + 1] = taken'
    <2>1. Starts(cuts, From)[Len(cuts) + 1] = taken
      BY <1>1 DEF DdShows
    <2>2. taken \in Nat
      BY <1>2
    <2> QED
      BY <1>2, <1>4, <1>5, <1>8, <1>9, <2>1, <2>2, BlocksMore
  <1>11. PICK all, put, l : all = DdAll /\ put = DdPut /\ l = Len(bytes)
    OBVIOUS
  <1>12. /\ all \in Seq(Byte) /\ put = Len(all) /\ put \in Nat /\ l \in Nat \ {0}
         /\ DdAll' = all \o bytes /\ all \o bytes \in Seq(Byte) /\ Len(all \o bytes) = put + l
    <2>1. FlattenSeq(Append(Blocks, bytes)) = FlattenSeq(Blocks) \o bytes
      BY <1>2, <1>9, FlatMore
    <2>2. DdAll' = DdAll \o bytes
      BY <1>10, <2>1 DEF DdAll
    <2>3. all \in Seq(Byte) /\ Len(all) \in Nat /\ put = Len(all)
      BY <1>1, <1>2, <1>11, LenProperties DEF DdPut, DdRest
    <2> QED
      BY <1>9, <1>11, <2>2, <2>3, ConcatProperties
  <1>13. Blocks' \in Seq(Seq(Byte))
    <2>1. IsAppended(Seq(Byte), Append(Blocks, bytes), Blocks, bytes)
      BY <1>2, <1>9, Appended
    <2> QED
      BY <1>10, <2>1 DEF IsAppended
  <1>14. cuts' \in Seq(Nat \ {0}) /\ Len(cuts') = copied + 1 /\ cuts' # <<>>
    <2>1. IsAppended(Nat \ {0}, cuts', cuts, n)
      BY <1>2, <1>4, Appended
    <2> QED
      BY <1>2, <2>1 DEF IsAppended
  <1>15. /\ From' = From /\ DdBase' = DdBase /\ DdOld' = DdOld /\ DdBase \in Nat
         /\ From \in Nat
    <2>1. conv.seek \in Nat /\ conv.obs \in Nat
      BY <1>2 DEF DdOptions
    <2>2. conv.seek * conv.obs \in Nat
      BY <2>1
    <2> QED
      BY <1>1, <1>5, <2>2 DEF From, DdBase, DdOld, DdType
  <1>16. \A i \in 1..put : DdAll'[i] = all[i]
    BY <1>9, <1>12, ShownBefore
  <1>17. PICK out : out = sinks["out"]
    OBVIOUS
  <1>18. /\ out \in [bytes : Seq(Byte), pos : Nat] /\ out.pos = DdBase + put
         /\ sinks \in [{"out"} -> [bytes : Seq(Byte), pos : Nat]]
    BY <1>1, <1>11, <1>17 DEF DdType, DdShows
  <1>19. CASE Hole(bytes)
    <2>1. /\ sinks' = [sinks EXCEPT !["out"].pos = @ + l]
          /\ copied' = copied + 1 /\ UNCHANGED <<dpc, block, written>>
      BY <1>4, <1>8, <1>11, <1>19
    <2>2. /\ sinks' \in [{"out"} -> [bytes : Seq(Byte), pos : Nat]]
          /\ sinks'["out"].bytes = out.bytes /\ sinks'["out"].pos = out.pos + l
      <3>1. [out EXCEPT !.pos = out.pos + l] = [bytes |-> out.bytes, pos |-> out.pos + l]
        BY <1>18
      <3>2. PICK new : new = [bytes |-> out.bytes, pos |-> out.pos + l]
        OBVIOUS
      <3>3. sinks' = [sinks EXCEPT !["out"] = new]
        BY <1>17, <2>1, <3>1, <3>2
      <3>4. out.bytes \in Seq(Byte) /\ out.pos + l \in Nat
        BY <1>12, <1>18
      <3>5. /\ new \in [bytes : Seq(Byte), pos : Nat]
            /\ new.bytes = out.bytes /\ new.pos = out.pos + l
        BY <3>2, <3>4
      <3> QED
        BY <1>18, <3>3, <3>5
    <2>3. conv.sparse /\ ToSet(bytes) \subseteq {0}
      BY <1>19 DEF Hole
    <2>4. DdType'
      BY <1>1, <1>2, <1>5, <1>6, <1>14, <1>15, <2>1, <2>2 DEF DdType
    <2>5. DdCounts'
      <3>1. conv.count # 0 => copied + 1 <= conv.count
        BY <1>1, <1>2 DEF Wanted
      <3> QED
        BY <1>1, <1>5, <1>14, <2>1, <2>3, <3>1 DEF DdCounts
    <2>6. DdPut' = put + l
      BY <1>1, <1>12, <2>1 DEF DdPut, DdRest
    <2>7. ASSUME NEW k \in Nat \ {0}, ~(conv.sparse /\ conv.notrunc) PROVE ShownAt(k)'
      <3>1. ShownAt(k) /\ DdOld = <<>>
        BY <1>1, <1>2, <2>3, <2>7 DEF DdShows, DdOld
      <3>2. ByteAt(out.bytes, k) = IF k - DdBase \in 1..put THEN all[k - DdBase] ELSE 0
        <4>1. ByteAt(DdOld, k) = 0
          BY <3>1 DEF ByteAt
        <4> QED
          BY <1>11, <1>17, <3>1, <4>1 DEF ShownAt
      <3>3. ByteAt(DdOld, k)' = 0
        BY <1>15, <3>1 DEF ByteAt
      <3>4. ByteAt(out.bytes, k) =
                IF k - DdBase \in 1..(put + l) THEN DdAll'[k - DdBase] ELSE 0
        <4>1. PICK i : i = k - DdBase
          OBVIOUS
        <4>2. i \in Int
          BY <1>15, <4>1
        <4>3. CASE i \in 1..put
          BY <1>12, <1>16, <3>2, <4>1, <4>3
        <4>4. CASE i \notin 1..put /\ i \in 1..(put + l)
          <5>1. PICK j : j = i - put
            OBVIOUS
          <5>2. j \in 1..l /\ i = Len(all) + j
            BY <1>12, <4>2, <4>4, <5>1
          <5>3. (all \o bytes)[Len(all) + j] = bytes[j]
            BY <1>9, <1>11, <1>12, <5>2, ShownBehind
          <5>4. bytes[j] = 0
            <6>1. DOMAIN bytes = 1..l
              BY <1>9, <1>11, LenProperties
            <6> QED
              BY <2>3, <5>2, <6>1 DEF ToSet
          <5> QED
            BY <1>12, <3>2, <4>1, <4>4, <5>2, <5>3, <5>4
        <4>5. CASE i \notin 1..(put + l)
          <5>1. i \notin 1..put
            BY <1>12, <4>2, <4>5
          <5> QED
            BY <3>2, <4>1, <4>5, <5>1
        <4> QED
          BY <4>3, <4>4, <4>5
      <3> QED
        BY <1>15, <2>2, <2>6, <3>3, <3>4 DEF ShownAt
    <2>8. sinks'["out"].pos = DdBase' + DdPut'
      BY <1>12, <1>15, <1>18, <2>2, <2>6
    <2>9. DdShows'
      BY <1>1, <1>5, <1>10, <1>12, <1>13, <2>1, <2>7, <2>8 DEF DdShows
    <2> QED
      BY <1>1, <2>1, <2>4, <2>5, <2>9 DEF DdInv, DdDone
  <1>20. CASE ~Hole(bytes)
    <2>1. /\ dpc' = "write" /\ block' = bytes /\ written' = 0
          /\ UNCHANGED <<copied, sinks>>
      BY <1>4, <1>8, <1>20
    <2>2. DdType'
      BY <1>1, <1>2, <1>5, <1>6, <1>9, <1>14, <1>15, <1>18, <2>1 DEF DdType
    <2>3. DdCounts'
      <3>1. conv.count # 0 => copied < conv.count
        BY <1>1, <1>2 DEF Wanted
      <3> QED
        BY <1>5, <1>9, <1>14, <2>1, <3>1 DEF DdCounts
    <2>4. DdPut' = put
      <3>1. Len(block') - written' = l
        BY <1>11, <1>12, <2>1
      <3>2. Len(DdAll') = put + l
        BY <1>12
      <3> QED
        BY <1>12, <2>1, <3>1, <3>2 DEF DdPut, DdRest
    <2>5. ASSUME NEW k \in Nat \ {0}, ~(conv.sparse /\ conv.notrunc) PROVE ShownAt(k)'
      <3>1. ShownAt(k)
        BY <1>1, <2>5 DEF DdShows
      <3>2. ByteAt(out.bytes, k) = IF k - DdBase \in 1..put THEN all[k - DdBase]
                                                           ELSE ByteAt(DdOld, k)
        BY <1>11, <1>17, <3>1 DEF ShownAt
      <3>3. ByteAt(DdOld, k)' = ByteAt(DdOld, k)
        BY <1>15 DEF ByteAt
      <3>4. sinks'["out"].bytes = out.bytes
        BY <1>17, <2>1
      <3> QED
        BY <1>15, <1>16, <2>4, <3>2, <3>3, <3>4 DEF ShownAt
    <2>6. sinks'["out"].pos = DdBase' + DdPut'
      BY <1>15, <1>17, <1>18, <2>1, <2>4
    <2>7. \E ahead \in Seq(Byte) : DdAll' = ahead \o block'
      BY <1>12, <2>1
    <2>8. DdShows'
      BY <1>5, <1>10, <1>12, <1>13, <2>5, <2>6, <2>7 DEF DdShows
    <2> QED
      BY <2>1, <2>2, <2>3, <2>8 DEF DdInv, DdDone
  <1> QED
    BY <1>19, <1>20
LEMMA DdWrites == DdInv /\ DdWrite => DdInv'
  <1> SUFFICES ASSUME DdInv, DdWrite PROVE DdInv'
    OBVIOUS
  <1>1. DdType /\ DdCounts /\ DdShows /\ dpc = "write"
    BY DEF DdInv, DdWrite
  <1>2. /\ conv \in DdOptions /\ conv.obs \in Nat /\ conv.count \in Nat
        /\ cuts \in Seq(Nat \ {0}) /\ copied \in Nat /\ copied + 1 = Len(cuts)
        /\ block \in Seq(Byte) /\ Len(block) \in Nat /\ written \in Nat /\ written < Len(block)
        /\ sinks \in [{"out"} -> [bytes : Seq(Byte), pos : Nat]]
        /\ DdAll \in Seq(Byte)
    BY <1>1, LenProperties DEF DdType, DdCounts, DdShows, DdOptions
  <1>3. \A n \in 1..Min({conv.obs, Len(block) - written}) :
            n \in Nat \ {0} /\ n <= Len(block) - written
    <2> DEFINE a == conv.obs
               b == Len(block) - written
    <2>1. a \in Int /\ b \in Int
      BY <1>2
    <2> HIDE DEF a, b
    <2>2. \A n \in 1..Min({a, b}) : n \in Nat \ {0} /\ n <= b
      BY <2>1, UpToBoth
    <2> QED
      BY <2>2 DEF a, b
  <1>4. PICK n \in Nat \ {0} :
            /\ n <= Len(block) - written
            /\ Write("out", SubSeq(block, written + 1, written + n))
            /\ written' = written + n
    BY <1>3 DEF DdWrite
  <1>5. /\ UNCHANGED <<source, taken, status, conv, block, cuts, prior>>
        /\ IF written' = Len(block) THEN dpc' = "read" /\ copied' = copied + 1
                                    ELSE UNCHANGED <<dpc, copied>>
    BY DEF DdWrite
  <1>6. PICK piece, out, l : /\ piece = SubSeq(block, written + 1, written + n)
                             /\ out = sinks["out"] /\ l = Len(block)
    OBVIOUS
  <1>7. /\ piece \in Seq(Byte) /\ Len(piece) = n
        /\ \A i \in 1..n : piece[i] = block[written + i]
    <2> DEFINE a == written + 1
               b == written + n
    <2>0. n <= Len(block) - written
      BY <1>4
    <2>1. a \in 1..(Len(block) + 1) /\ b \in (a - 1)..Len(block) /\ b - a + 1 = n
          /\ \A i \in 1..n : a + i - 1 = written + i
      BY <1>2, <2>0
    <2>2. piece = SubSeq(block, a, b)
      BY <1>6
    <2> HIDE DEF a, b
    <2>3. IsPart(Byte, SubSeq(block, a, b), block, a, b)
      BY <1>2, <2>1, Part
    <2> QED
      BY <2>1, <2>2, <2>3 DEF IsPart
  <1>8. out \in [bytes : Seq(Byte), pos : Nat] /\ out.bytes \in Seq(Byte) /\ out.pos \in Nat
    BY <1>2, <1>6
  <1>9. PICK w : w = Written(out.bytes, out.pos, piece)
    OBVIOUS
  <1>10. w \in Seq(Byte) /\ Len(w) >= out.pos + n
    BY <1>7, <1>8, <1>9, WrittenType
  <1>11. /\ sinks' \in [{"out"} -> [bytes : Seq(Byte), pos : Nat]]
         /\ sinks'["out"].bytes = w /\ sinks'["out"].pos = out.pos + n
    <2>1. PICK new : new = [bytes |-> w, pos |-> out.pos + n]
      OBVIOUS
    <2>2. sinks' = [sinks EXCEPT !["out"] = new]
      BY <1>4, <1>6, <1>7, <1>9, <2>1 DEF Write
    <2>3. /\ new \in [bytes : Seq(Byte), pos : Nat]
          /\ new.bytes = w /\ new.pos = out.pos + n
      <3>1. out.pos + n \in Nat
        BY <1>8
      <3> QED
        BY <1>10, <2>1, <3>1
    <2> QED
      BY <1>2, <2>2, <2>3
  <1>12. /\ From' = From /\ DdBase' = DdBase /\ DdOld' = DdOld /\ DdAll' = DdAll
         /\ Blocks' = Blocks /\ DdBase \in Nat /\ From \in Nat
         /\ Starts(cuts, From)'[Len(cuts') + 1] = Starts(cuts, From)[Len(cuts) + 1]
    <2>1. conv.seek \in Nat /\ conv.obs \in Nat
      BY <1>2 DEF DdOptions
    <2>2. conv.seek * conv.obs \in Nat
      BY <2>1
    <2> QED
      BY <1>1, <1>5, <2>2, SameBlocks DEF DdBase, DdOld, DdType
  <1>13. PICK ahead \in Seq(Byte) : DdAll = ahead \o block
    BY <1>1 DEF DdShows
  <1>14. PICK all, put : all = DdAll /\ put = DdPut
    OBVIOUS
  <1>15. /\ all = ahead \o block /\ Len(ahead) \in Nat /\ Len(all) = Len(ahead) + l
         /\ put = Len(ahead) + written /\ put \in Nat
         /\ \A i \in 1..l : all[Len(ahead) + i] = block[i]
    <2>1. Len(ahead) \in Nat /\ Len(ahead \o block) = Len(ahead) + Len(block)
      BY <1>2, <1>13, LenProperties, ConcatProperties
    <2>2. DdPut = Len(DdAll) - (Len(block) - written)
      BY <1>1 DEF DdPut, DdRest
    <2>3. \A i \in 1..Len(block) : (ahead \o block)[Len(ahead) + i] = block[i]
      BY <1>2, <1>13, ShownBehind
    <2>4. all = ahead \o block /\ l = Len(block) /\ put = Len(all) - (l - written)
      BY <1>6, <1>13, <1>14, <2>2
    <2>5. Len(all) = Len(ahead) + l /\ \A i \in 1..l : all[Len(ahead) + i] = block[i]
      BY <2>1, <2>3, <2>4
    <2>6. put = Len(ahead) + written /\ put \in Nat
      BY <1>2, <2>1, <2>4, <2>5
    <2> QED
      BY <2>1, <2>4, <2>5, <2>6
  <1>16. DdPut' = put + n
    <2>1. written' = Len(block) => DdRest' = 0
      BY <1>5 DEF DdRest
    <2>2. written' # Len(block) => DdRest' = l - written'
      BY <1>1, <1>5, <1>6 DEF DdRest
    <2>3. DdRest' = l - written'
      BY <1>2, <1>6, <2>1, <2>2
    <2>4. DdPut' = Len(all) - (l - written')
      BY <1>12, <1>14, <2>3 DEF DdPut
    <2>5. written' = written + n /\ l \in Nat
      BY <1>2, <1>4, <1>6
    <2> QED
      BY <1>2, <1>15, <2>4, <2>5
  <1>17. written' \in 0..Len(block') /\ written' > 0
    <2>1. n <= Len(block) - written /\ written' = written + n /\ block' = block
      BY <1>4, <1>5
    <2> QED
      BY <1>2, <2>1
  <1>18. DdType'
    <2>1. dpc' \in {"read", "write"} /\ copied' \in Nat
      BY <1>1, <1>2, <1>5
    <2> QED
      BY <1>1, <1>5, <1>11, <1>12, <1>17, <2>1 DEF DdType
  <1>19. DdCounts'
    <2>1. Len(sinks'["out"].bytes) >= sinks'["out"].pos
      BY <1>10, <1>11
    <2>2. conv.count # 0 => copied < conv.count /\ copied + 1 <= conv.count
      BY <1>1, <1>2 DEF DdCounts
    <2>3. CASE written' = Len(block)
      BY <1>2, <1>5, <2>1, <2>2, <2>3 DEF DdCounts
    <2>4. CASE written' # Len(block)
      <3>1. written' < Len(block')
        BY <1>2, <1>5, <1>17, <2>4
      <3> QED
        BY <1>1, <1>2, <1>5, <2>1, <2>2, <2>4, <3>1 DEF DdCounts
    <2> QED
      BY <2>3, <2>4
  <1>20. ASSUME NEW k \in Nat \ {0}, ~(conv.sparse /\ conv.notrunc) PROVE ShownAt(k)'
    <2>1. PICK e : e = ByteAt(DdOld, k)
      OBVIOUS
    <2>2. out.pos = DdBase + put
      BY <1>1, <1>6, <1>14 DEF DdShows
    <2>3. ByteAt(out.bytes, k) = IF k - DdBase \in 1..put THEN all[k - DdBase] ELSE e
      <3>1. ShownAt(k)
        BY <1>1, <1>20 DEF DdShows
      <3> QED
        BY <1>6, <1>14, <2>1, <3>1 DEF ShownAt
    <2>4. ByteAt(w, k) = IF k - out.pos \in 1..n THEN piece[k - out.pos] ELSE ByteAt(out.bytes, k)
      BY <1>7, <1>8, <1>9, WrittenAt
    <2>5. PICK i : i = k - DdBase
      OBVIOUS
    <2>6. i \in Int /\ k - out.pos = i - put
      BY <1>12, <1>15, <2>2, <2>5
    <2>7. ByteAt(w, k) = IF i \in 1..(put + n) THEN all[i] ELSE e
      <3>1. CASE i \in 1..put
        <4>1. i - put \notin 1..n /\ i \in 1..(put + n)
          BY <1>15, <2>6, <3>1
        <4> QED
          BY <2>3, <2>4, <2>5, <2>6, <3>1, <4>1
      <3>2. CASE i \notin 1..put /\ i \in 1..(put + n)
        <4>1. PICK j : j = i - put
          OBVIOUS
        <4>2. j \in 1..n /\ i = put + j
          BY <1>15, <2>6, <3>2, <4>1
        <4>3. written + j \in 1..l
          <5>1. n <= l - written
            BY <1>4, <1>6
          <5> QED
            BY <1>2, <1>6, <4>2, <5>1
        <4>4. all[Len(ahead) + (written + j)] = block[written + j]
          BY <1>15, <4>3
        <4>5. i = Len(ahead) + (written + j)
          BY <1>2, <1>15, <4>2
        <4>6. piece[j] = block[written + j]
          BY <1>7, <4>2
        <4>7. ByteAt(w, k) = piece[j]
          BY <2>4, <2>6, <4>1, <4>2
        <4>8. ByteAt(w, k) = all[i]
          BY <4>4, <4>5, <4>6, <4>7
        <4> QED
          BY <3>2, <4>8
      <3>3. CASE i \notin 1..(put + n)
        <4>1. i - put \notin 1..n /\ i \notin 1..put
          BY <1>15, <2>6, <3>3
        <4> QED
          BY <2>3, <2>4, <2>5, <2>6, <3>3, <4>1
      <3> QED
        BY <3>1, <3>2, <3>3
    <2>8. ByteAt(DdOld, k)' = e
      BY <1>12, <2>1 DEF ByteAt
    <2> QED
      BY <1>11, <1>12, <1>14, <1>16, <2>5, <2>7, <2>8 DEF ShownAt
  <1>21. DdShows'
    <2>1. sinks'["out"].pos = DdBase' + DdPut'
      <3>1. out.pos = DdBase + put
        BY <1>1, <1>6, <1>14 DEF DdShows
      <3> QED
        BY <1>11, <1>12, <1>15, <1>16, <3>1
    <2>2. DdAll' = ahead \o block'
      BY <1>5, <1>12, <1>13
    <2> QED
      BY <1>1, <1>5, <1>12, <1>20, <2>1, <2>2 DEF DdShows
  <1>22. DdDone'
    BY <1>1, <1>5 DEF DdDone
  <1> QED
    BY <1>18, <1>19, <1>21, <1>22 DEF DdInv

\* dd stops before all is done only with a status that says so.
LEMMA DdStops ==
    ASSUME DdInv, NEW s, DdStop(s), s = 0 => dpc = "read" /\ (~Wanted \/ Left = 0)
    PROVE  DdInv'
  <1>1. /\ dpc' = "exit" /\ status' = s
        /\ UNCHANGED <<conv, block, written, copied, cuts, prior, source, taken, sinks>>
        /\ DdType /\ DdCounts
    BY DEF DdStop, DdInv
  <1>2. DdType' /\ DdCounts'
    BY <1>1 DEF DdType, DdCounts, From
  <1>3. DdDone'
    <2> SUFFICES ASSUME s = 0 PROVE DdDone'
      BY <1>1 DEF DdDone
    <2>1. /\ dpc = "read" /\ copied = Len(cuts) /\ (conv.count # 0 => copied <= conv.count)
          /\ cuts # <<>> => conv.sparse \/ Len(sinks["out"].bytes) >= sinks["out"].pos
      BY <1>1 DEF DdCounts
    <2>2. copied \in Nat /\ conv.count \in Nat
      BY <1>1 DEF DdType, DdOptions
    <2>3. copied = conv.count \/ (Left = 0 /\ (conv.count = 0 \/ copied < conv.count))
      BY <2>1, <2>2 DEF Wanted
    <2>4. Left' = Left
      BY <1>1 DEF Left
    <2> QED
      BY <1>1, <2>1, <2>3, <2>4 DEF DdDone
  <1> QED
    BY <1>1, <1>2, <1>3 DEF DdInv

LEMMA DdGoesOn == DdInv /\ (DdNext \/ UNCHANGED <<streamVars, ddVars>>) => DdInv'
  <1> SUFFICES ASSUME DdInv, DdNext \/ UNCHANGED <<streamVars, ddVars>> PROVE DdInv'
    OBVIOUS
  <1>1. CASE DdSeekFails
    <2>1. /\ sinks' = Truncated /\ dpc' = "exit" /\ status' = 1 /\ DdType
          /\ UNCHANGED <<conv, block, written, copied, cuts, prior, source, taken>>
      BY <1>1 DEF DdSeekFails, DdInv
    <2>2. sinks' \in [{"out"} -> [bytes : Seq(Byte), pos : Nat]]
      <3>1. PICK b : b = IF conv.notrunc \/ conv.pipeOut THEN sinks["out"].bytes ELSE <<>>
        OBVIOUS
      <3>2. sinks \in [{"out"} -> [bytes : Seq(Byte), pos : Nat]]
        BY <2>1 DEF DdType
      <3>3. b \in Seq(Byte)
        <4>1. sinks["out"].bytes \in Seq(Byte) /\ <<>> \in Seq(Byte)
          BY <3>2, EmptySeq
        <4> QED
          BY <3>1, <4>1
      <3>4. sinks' = [sinks EXCEPT !["out"].bytes = b]
        BY <2>1, <3>1 DEF Truncated
      <3> QED
        BY <3>2, <3>3, <3>4
    <2>3. DdType'
      BY <2>1, <2>2 DEF DdType, From
    <2> QED
      BY <2>1, <2>3 DEF DdInv, DdCounts, DdDone
  <1>2. CASE DdOpenFails
    BY <1>2, DdStops DEF DdOpenFails
  <1>3. CASE DdHoleInPipe
    BY <1>3, DdStops DEF DdHoleInPipe
  <1>4. CASE DdReadFails
    BY <1>4, DdStops DEF DdReadFails
  <1>5. CASE DdWriteFails
    BY <1>5, DdStops DEF DdWriteFails
  <1>6. CASE DdEnds
    BY <1>6, DdStops DEF DdEnds
  <1>7. CASE UNCHANGED <<streamVars, ddVars>>
    <2>1. /\ UNCHANGED <<source, taken, sinks, status>>
          /\ UNCHANGED <<conv, dpc, block, written, copied, cuts, prior>>
      BY <1>7 DEF streamVars, ddVars
    <2>2. DdType' /\ DdCounts' /\ DdDone'
      BY <2>1 DEF DdInv, DdType, DdCounts, DdDone, From, Left
    <2>3. DdShows => DdShows'
      <3>1. /\ From' = From /\ DdBase' = DdBase /\ DdOld' = DdOld /\ DdAll' = DdAll
            /\ Blocks' = Blocks /\ DdPut' = DdPut
            /\ Starts(cuts, From)'[Len(cuts') + 1] = Starts(cuts, From)[Len(cuts) + 1]
        BY <2>1, SameBlocks DEF DdOld, DdPut, DdRest
      <3>2. \A k : ShownAt(k)' = ShownAt(k)
        BY <2>1, <3>1 DEF ShownAt, ByteAt
      <3> QED
        BY <2>1, <3>1, <3>2 DEF DdShows
    <2> QED
      BY <2>1, <2>2, <2>3 DEF DdInv
  <1> QED
    BY <1>1, <1>2, <1>3, <1>4, <1>5, <1>6, <1>7, DdOpens, DdReads, DdWrites DEF DdNext

LEMMA DdImaged == DdInv => DdImage
  <1> SUFFICES ASSUME DdInv, dpc \in {"read", "write"}, ~(conv.sparse /\ conv.notrunc)
               PROVE  DdImage
    BY DEF DdImage
  <1>1. /\ sinks["out"].pos = DdBase + DdPut
        /\ \A k \in Nat \ {0} : ShownAt(k)
    BY DEF DdInv, DdShows
  <1>2. \A e : \A k \in 1..e : k \in Nat \ {0}
    OBVIOUS
  <1> QED
    BY <1>1 DEF DdImage, ShownAt, ByteAt, DdAll, DdPut, DdRest, DdBase, DdOld
-----------------------------------------------------------------------------
\* base64: decoding four characters gives the bytes they were made of.

LEMMA HighAndLow ==
    ASSUME NEW x \in Byte
    PROVE  /\ x \div 4 \in 0..63 /\ x % 4 \in 0..3 /\ x = 4 * (x \div 4) + (x % 4)
           /\ x \div 16 \in 0..15 /\ x % 16 \in 0..15 /\ x = 16 * (x \div 16) + (x % 16)
           /\ x \div 64 \in 0..3 /\ x % 64 \in 0..63 /\ x = 64 * (x \div 64) + (x % 64)
           /\ x % 256 = x
  BY DEF Byte

LEMMA PutTogether ==
    ASSUME NEW a \in 0..15, NEW b \in 0..15, NEW c \in 0..3
    PROVE  /\ ((c * 16) + b) \div 16 = c /\ ((c * 16) + b) % 16 = b
           /\ ((a * 4) + c) \div 4 = a /\ ((a * 4) + c) % 4 = c
           /\ (c * 16) + b \in 0..63 /\ (a * 4) + c \in 0..63
  OBVIOUS

\* The four characters of one to three bytes.
EncodedAs(b, q1, q2, q3, q4) ==
    /\ Encoded(b) = <<q1, q2, q3, q4>>
    /\ (q1 * 4) + (q2 \div 16) = b[1]
    /\ Len(b) = 1 => q3 = Pad /\ q4 = Pad
    /\ Len(b) > 1 => q3 # Pad /\ ((q2 % 16) * 16) + (q3 \div 4) = b[2]
    /\ Len(b) = 2 => q4 = Pad
    /\ Len(b) = 3 => q4 # Pad /\ ((q3 % 4) * 64) + q4 = b[3]

LEMMA EncodedIs ==
    ASSUME NEW b \in Seq(Byte), Len(b) \in 1..3
    PROVE  \E q1 \in 0..63, q2 \in 0..63, q3 \in 0..Pad, q4 \in 0..Pad : EncodedAs(b, q1, q2, q3, q4)
  <1>1. PICK n, x, y, z : /\ n = Len(b) /\ x = b[1]
                          /\ y = (IF 2 \in DOMAIN b THEN b[2] ELSE 0)
                          /\ z = (IF 3 \in DOMAIN b THEN b[3] ELSE 0)
    OBVIOUS
  <1>2. /\ n \in 1..3 /\ DOMAIN b = 1..n /\ \A k \in 1..n : b[k] \in Byte
    BY <1>1, LenProperties, ElementOfSeq
  <1>3. x \in Byte /\ y \in Byte /\ z \in Byte
    <2>1. 0 \in Byte
      BY DEF Byte
    <2>2. 1 \in 1..n
      BY <1>2
    <2> QED
      BY <1>1, <1>2, <2>1, <2>2
  <1>4. PICK xh, xl, yh, yl, zh, zl :
            /\ xh = x \div 4 /\ xl = x % 4 /\ yh = y \div 16 /\ yl = y % 16
            /\ zh = z \div 64 /\ zl = z % 64
    OBVIOUS
  <1>5. /\ xh \in 0..63 /\ xl \in 0..3 /\ x = (4 * xh) + xl
        /\ yh \in 0..15 /\ yl \in 0..15 /\ y = (16 * yh) + yl
        /\ zh \in 0..3 /\ zl \in 0..63 /\ z = (64 * zh) + zl
    BY <1>3, <1>4, HighAndLow, ZenonT(60)
  <1>6. PICK q1, q2, q3, q4 :
            /\ q1 = xh /\ q2 = (xl * 16) + yh
            /\ q3 = IF n > 1 THEN (yl * 4) + zh ELSE Pad
            /\ q4 = IF n > 2 THEN zl ELSE Pad
    OBVIOUS
  <1>7. /\ q2 \div 16 = xl /\ q2 % 16 = yh /\ q2 \in 0..63
        /\ n > 1 => q3 \div 4 = yl /\ q3 % 4 = zh /\ q3 \in 0..63
    BY <1>5, <1>6, PutTogether, ZenonT(60)
  <1>8. q1 \in 0..63 /\ q3 \in 0..Pad /\ q4 \in 0..Pad
    BY <1>5, <1>6, <1>7 DEF Pad
  <1>9. (n > 1 => b[2] = y) /\ (n > 2 => b[3] = z) /\ (n = 3 => n > 2) /\ (n = 2 => ~(n > 2))
        /\ (n = 1 => ~(n > 1) /\ ~(n > 2))
    BY <1>1, <1>2
  <1>10. Encoded(b) = <<q1, q2, q3, q4>>
    <2>1. Encoded(b) = <<x \div 4, ((x % 4) * 16) + (y \div 16),
                         IF n > 1 THEN ((b[2] % 16) * 4) + (z \div 64) ELSE Pad,
                         IF n > 2 THEN b[3] % 64 ELSE Pad>>
      BY <1>1 DEF Encoded
    <2>2. q3 = IF n > 1 THEN ((b[2] % 16) * 4) + (z \div 64) ELSE Pad
      BY <1>4, <1>6, <1>9
    <2>3. q4 = IF n > 2 THEN b[3] % 64 ELSE Pad
      BY <1>4, <1>6, <1>9
    <2> QED
      BY <1>4, <1>6, <2>1, <2>2, <2>3
  <1>11. (q1 * 4) + (q2 \div 16) = x
    BY <1>5, <1>6, <1>7
  <1>12. n > 1 => q3 # Pad /\ ((q2 % 16) * 16) + (q3 \div 4) = y
    BY <1>5, <1>7 DEF Pad
  <1>13. n = 3 => q4 # Pad /\ ((q3 % 4) * 64) + q4 = z
    <2> SUFFICES ASSUME n = 3 PROVE q4 # Pad /\ ((q3 % 4) * 64) + q4 = z
      OBVIOUS
    <2>1. q4 = zl /\ q3 % 4 = zh
      BY <1>6, <1>7, <1>9
    <2> QED
      BY <1>5, <2>1 DEF Pad
  <1>14. /\ n = 1 => q3 = Pad /\ q4 = Pad
         /\ n = 2 => q4 = Pad
    BY <1>6, <1>9
  <1>15. EncodedAs(b, q1, q2, q3, q4)
    BY <1>1, <1>9, <1>10, <1>11, <1>12, <1>13, <1>14 DEF EncodedAs
  <1> QED
    BY <1>7, <1>8, <1>15

LEMMA PaddingIs ==
    ASSUME NEW q1, NEW q2 \in 0..63, NEW q3 \in 0..Pad, NEW q4 \in 0..Pad, q4 # Pad => q3 # Pad
    PROVE  Padding(<<q1, q2, q3, q4>>) = IF q4 # Pad THEN 0 ELSE IF q3 # Pad THEN 1 ELSE 2
  <1> DEFINE S == {i \in 1..4 : \A j \in i..4 : <<q1, q2, q3, q4>>[j] = Pad}
  <1>1. q2 # Pad
    BY DEF Pad
  <1>2. CASE q4 # Pad
    <2>1. \A i \in 1..4 : 4 \in i..4
      OBVIOUS
    <2>2. S = {}
      BY <1>2, <2>1
    <2> QED
      BY <1>2, <2>2, FS_EmptySet DEF Padding
  <1>3. CASE q4 = Pad /\ q3 # Pad
    <2>1. \A i \in 1..3 : 3 \in i..4
      OBVIOUS
    <2>2. \A j \in 4..4 : j = 4
      OBVIOUS
    <2>3. S = {4}
      BY <1>3, <2>1, <2>2
    <2>4. Cardinality({4}) = 1
      BY FS_Singleton
    <2> QED
      BY <1>3, <2>3, <2>4 DEF Padding
  <1>4. CASE q4 = Pad /\ q3 = Pad
    <2>1. \A i \in 1..2 : 2 \in i..4
      OBVIOUS
    <2>2. \A i \in 3..4 : \A j \in i..4 : j = 3 \/ j = 4
      OBVIOUS
    <2>3. \A i \in 1..4 : i \in 1..2 \/ i \in 3..4
      OBVIOUS
    <2>4. \A i \in S : i \in 3..4
      BY <1>1, <2>1, <2>3
    <2>5. \A i \in 3..4 : i \in S
      BY <1>4, <2>2
    <2>6. S = 3..4
      <3> HIDE DEF S
      <3>1. S \subseteq 3..4 /\ 3..4 \subseteq S
        BY <2>4, <2>5
      <3> QED
        BY <3>1
    <2>7. Cardinality(3..4) = 2
      <3>1. PICK a, b : a = 3 /\ b = 4
        OBVIOUS
      <3>2. a \in Int /\ b \in Int /\ ~(a > b) /\ b - a + 1 = 2
        BY <3>1
      <3>3. Cardinality(a..b) = IF a > b THEN 0 ELSE b - a + 1
        BY <3>2, FS_Interval
      <3> QED
        BY <3>1, <3>2, <3>3
    <2> QED
      BY <1>4, <2>6, <2>7 DEF Padding
  <1> QED
    BY <1>2, <1>3, <1>4

LEMMA DecodedIs ==
    ASSUME NEW b \in Seq(Byte), Len(b) \in 1..3
    PROVE  Decoded(Encoded(b)) = b
  <1>1. PICK q1 \in 0..63, q2 \in 0..63, q3 \in 0..Pad, q4 \in 0..Pad : EncodedAs(b, q1, q2, q3, q4)
    BY EncodedIs
  <1>2. PICK n : n = Len(b)
    OBVIOUS
  <1>3. n \in 1..3 /\ \A k \in 1..n : b[k] \in Byte
    BY <1>2, ElementOfSeq
  <1>4. /\ (q1 * 4) + (q2 \div 16) = b[1]
        /\ n = 1 => q3 = Pad /\ q4 = Pad
        /\ n > 1 => q3 # Pad /\ ((q2 % 16) * 16) + (q3 \div 4) = b[2]
        /\ n = 2 => q4 = Pad
        /\ n = 3 => q4 # Pad /\ ((q3 % 4) * 64) + q4 = b[3]
    BY <1>1, <1>2 DEF EncodedAs
  <1>5. PICK q : q = <<q1, q2, q3, q4>>
    OBVIOUS
  <1>6. q[1] = q1 /\ q[2] = q2 /\ q[3] = q3 /\ q[4] = q4
    BY <1>5
  <1>7. 3 - Padding(q) = n
    <2>1. Padding(<<q1, q2, q3, q4>>) = IF q4 # Pad THEN 0 ELSE IF q3 # Pad THEN 1 ELSE 2
      <3>1. q4 # Pad => q3 # Pad
        BY <1>3, <1>4
      <3> QED
        BY <3>1, PaddingIs
    <2> QED
      BY <1>3, <1>4, <1>5, <2>1
  <1>8a. PICK x, y, z :
            /\ x = (IF q[2] = Pad THEN 255 ELSE (Code(q[1]) * 4 + q[2] \div 16) % 256)
            /\ y = (IF q[3] = Pad THEN 255 ELSE ((Code(q[2]) % 16) * 16 + q[3] \div 4) % 256)
            /\ z = ((Code(q[3]) % 4) * 64 + Code(q[4])) % 256
    OBVIOUS
  <1>8. /\ x = (IF q2 = Pad THEN 255 ELSE ((Code(q1) * 4) + (q2 \div 16)) % 256)
        /\ y = (IF q3 = Pad THEN 255 ELSE (((Code(q2) % 16) * 16) + (q3 \div 4)) % 256)
        /\ z = (((Code(q3) % 4) * 64) + Code(q4)) % 256
    BY <1>6, <1>8a
  <1>9. Decoded(q) = SubSeq(<<x, y, z>>, 1, n)
    <2>1. PICK s : s = Triple(q)
      OBVIOUS
    <2>2. Decoded(q) = SubSeq(s, 1, 3 - Padding(q))
      BY <2>1, Zenon DEF Decoded
    <2>3. s = <<x, y, z>>
      BY <1>8a, <2>1 DEF Triple
    <2> QED
      BY <1>7, <2>2, <2>3
  <1>10. q1 # Pad /\ q2 # Pad /\ Code(q1) = q1 /\ Code(q2) = q2
    BY DEF Pad, Code
  <1>11. \A v \in Byte : v % 256 = v
    BY HighAndLow
  <1>b. Byte \subseteq Int
    BY DEF Byte
  <1>x. x = b[1]
    <2>1. b[1] \in Byte
      BY <1>3
    <2>2. x = b[1] % 256
      BY <1>4, <1>8, <1>10
    <2> QED
      BY <1>11, <2>1, <2>2
  <1>y. n > 1 => y = b[2]
    <2> SUFFICES ASSUME n > 1 PROVE y = b[2]
      OBVIOUS
    <2>1. b[2] \in Byte
      BY <1>3
    <2>2. y = b[2] % 256
      BY <1>4, <1>8, <1>10
    <2> QED
      BY <1>11, <2>1, <2>2
  <1>z. n > 2 => z = b[3]
    <2> SUFFICES ASSUME n > 2 PROVE z = b[3]
      OBVIOUS
    <2>1. b[3] \in Byte /\ n = 3
      BY <1>3
    <2>2. Code(q3) = q3 /\ Code(q4) = q4
      BY <1>4, <2>1 DEF Code
    <2>3. z = b[3] % 256
      BY <1>4, <1>8, <2>1, <2>2
    <2> QED
      BY <1>11, <2>1, <2>3
  <1>xyz. x \in Int /\ y \in Int /\ z \in Int
    <2>1. x \in Int
      <3>1. b[1] \in Byte
        BY <1>3
      <3> QED
        BY <1>b, <1>x, <3>1
    <2>2. y \in Int
      <3>1. \A u \in Int : u % 256 \in Int
        OBVIOUS
      <3>2. ((Code(q2) % 16) * 16) + (q3 \div 4) \in Int
        BY <1>10 DEF Pad
      <3> QED
        BY <1>8, <3>1, <3>2
    <2>3. z \in Int
      <3>1. \A u \in Int : u % 256 \in Int /\ u % 4 \in Int /\ u * 64 \in Int
        OBVIOUS
      <3>2. Code(q3) \in Int /\ Code(q4) \in Int
        BY DEF Code, Pad
      <3> QED
        BY <1>8, <3>1, <3>2
    <2> QED
      BY <2>1, <2>2, <2>3
  <1>12. SubSeq(<<x, y, z>>, 1, n) = b
    <2>1. PICK s : s = <<x, y, z>>
      OBVIOUS
    <2>2. s \in Seq(Int) /\ Len(s) = 3 /\ s[1] = x /\ s[2] = y /\ s[3] = z
      BY <1>xyz, <2>1
    <2>3. 1 \in 1..(Len(s) + 1) /\ n \in (1 - 1)..Len(s)
      BY <1>3, <2>2
    <2>4. IsPart(Int, SubSeq(s, 1, n), s, 1, n)
      BY <2>2, <2>3, Part
    <2>5. PICK u : u = SubSeq(s, 1, n)
      OBVIOUS
    <2>6. u \in Seq(Int) /\ Len(u) = n /\ \A i \in 1..n : u[i] = s[i]
      <3>1. n - 1 + 1 = n /\ \A i \in 1..n : 1 + i - 1 = i
        BY <1>3
      <3> QED
        BY <2>4, <2>5, <3>1 DEF IsPart
    <2>7. b \in Seq(Int)
      <3>1. Byte \subseteq Int
        BY DEF Byte
      <3> QED
        BY <3>1, SeqMonotonic
    <2>8. \A i \in 1..n : i = 1 \/ (i = 2 /\ n > 1) \/ (i = 3 /\ n > 2)
      BY <1>3
    <2>9. \A i \in 1..n : u[i] = b[i]
      BY <1>x, <1>y, <1>z, <2>2, <2>6, <2>8
    <2>10. u = b
      BY <1>2, <2>6, <2>7, <2>9, SeqEqual
    <2> QED
      BY <2>1, <2>5, <2>10
  <1> QED
    BY <1>1, <1>5, <1>9, <1>12 DEF EncodedAs

\* The groups of three bytes of a message, the last of which may be shorter,
\* and the characters that stand for them.
Groups(m) == (Len(m) + 2) \div 3

UpTo(m, g) == IF 3 * g <= Len(m) THEN 3 * g ELSE Len(m)

Group(m, g) == SubSeq(m, (3 * (g - 1)) + 1, UpTo(m, g))

Codes(m) == [i \in 1..(4 * Groups(m)) |-> Encoded(Group(m, ((i - 1) \div 4) + 1))[((i - 1) % 4) + 1]]

LEMMA GroupIs ==
    ASSUME NEW m \in Seq(Byte), NEW g \in Nat, g < Groups(m)
    PROVE  /\ Group(m, g + 1) \in Seq(Byte) /\ Len(Group(m, g + 1)) \in 1..3
           /\ Len(Group(m, g + 1)) = UpTo(m, g + 1) - (3 * g)
           /\ Group(m, g + 1) = SubSeq(m, (3 * g) + 1, UpTo(m, g + 1))
           /\ 3 * g < Len(m) /\ UpTo(m, g) = 3 * g
           /\ UpTo(m, g + 1) \in (3 * g)..Len(m)
  <1>1. PICK n, a, b : n = Len(m) /\ a = (3 * g) + 1 /\ b = UpTo(m, g + 1)
    OBVIOUS
  <1>2. n \in Nat
    BY <1>1, LenProperties
  <1>3. g < (n + 2) \div 3
    BY <1>1 DEF Groups
  <1>4. 3 * g < n
    BY <1>2, <1>3
  <1>5. b = IF 3 * (g + 1) <= n THEN 3 * (g + 1) ELSE n
    BY <1>1 DEF UpTo
  <1>6. a \in 1..(n + 1) /\ b \in (a - 1)..n /\ (b - a) + 1 \in 1..3 /\ (b - a) + 1 = b - (3 * g)
    BY <1>1, <1>2, <1>4, <1>5, SMTT(60)
  <1>7. IsPart(Byte, SubSeq(m, a, b), m, a, b)
    BY <1>1, <1>6, Part
  <1>8. Group(m, g + 1) = SubSeq(m, a, b)
    <2>1. (g + 1) - 1 = g
      OBVIOUS
    <2> QED
      BY <1>1, <2>1 DEF Group
  <1>9. UpTo(m, g) = 3 * g
    BY <1>1, <1>2, <1>4 DEF UpTo
  <1>10. Group(m, g + 1) \in Seq(Byte) /\ Len(Group(m, g + 1)) = (b - a) + 1
    BY <1>7, <1>8 DEF IsPart
  <1>11. Len(Group(m, g + 1)) \in 1..3 /\ Len(Group(m, g + 1)) = UpTo(m, g + 1) - (3 * g)
    BY <1>1, <1>6, <1>10
  <1>12. 3 * g < Len(m) /\ UpTo(m, g + 1) \in (3 * g)..Len(m)
    BY <1>1, <1>2, <1>4, <1>6
  <1>13. Group(m, g + 1) = SubSeq(m, (3 * g) + 1, UpTo(m, g + 1))
    BY <1>1, <1>8
  <1> QED
    BY <1>9, <1>10, <1>11, <1>12, <1>13

LEMMA CodesAre ==
    ASSUME NEW m \in Seq(Byte)
    PROVE  /\ Groups(m) \in Nat /\ Codes(m) \in Seq(0..Pad) /\ Len(Codes(m)) = 4 * Groups(m)
           /\ \A g \in Nat : g < Groups(m) =>
                \A k \in 1..4 : Codes(m)[(4 * g) + k] = Encoded(Group(m, g + 1))[k]
  <1>1. PICK n : n = Groups(m)
    OBVIOUS
  <1>2. n \in Nat
    <2>1. PICK l : l = Len(m)
      OBVIOUS
    <2>2. l \in Nat
      BY <2>1, LenProperties
    <2> QED
      BY <1>1, <2>1, <2>2 DEF Groups
  <1>3. PICK c : c = Codes(m)
    OBVIOUS
  <1>4. c = [i \in 1..(4 * n) |-> Encoded(Group(m, ((i - 1) \div 4) + 1))[((i - 1) % 4) + 1]]
    BY <1>1, <1>3 DEF Codes
  <1>5. ASSUME NEW g \in Nat, g < n, NEW k \in 1..4
        PROVE  c[(4 * g) + k] = Encoded(Group(m, g + 1))[k]
    <2>1. PICK i : i = (4 * g) + k
      OBVIOUS
    <2>2. i \in 1..(4 * n) /\ ((i - 1) \div 4) = g /\ ((i - 1) % 4) + 1 = k
      BY <1>2, <1>5, <2>1
    <2>3. c[i] = Encoded(Group(m, ((i - 1) \div 4) + 1))[((i - 1) % 4) + 1]
      BY <1>4, <2>2
    <2> QED
      BY <2>1, <2>2, <2>3
  <1>6. ASSUME NEW i \in 1..(4 * n) PROVE c[i] \in 0..Pad
    <2>1. PICK g, k : g = (i - 1) \div 4 /\ k = ((i - 1) % 4) + 1
      OBVIOUS
    <2>2. g \in Nat /\ g < n /\ k \in 1..4
      BY <1>2, <2>1
    <2>3. PICK b : b = Group(m, g + 1)
      OBVIOUS
    <2>4. b \in Seq(Byte) /\ Len(b) \in 1..3
      BY <1>1, <2>2, <2>3, GroupIs
    <2>5. PICK q1 \in 0..63, q2 \in 0..63, q3 \in 0..Pad, q4 \in 0..Pad : EncodedAs(b, q1, q2, q3, q4)
      BY <2>4, EncodedIs
    <2>6. Encoded(b) = <<q1, q2, q3, q4>>
      BY <2>5 DEF EncodedAs
    <2>7. q1 \in 0..Pad /\ q2 \in 0..Pad
      BY DEF Pad
    <2>8. k = 1 \/ k = 2 \/ k = 3 \/ k = 4
      BY <2>2
    <2>9. <<q1, q2, q3, q4>>[k] \in 0..Pad
      BY <2>5, <2>7, <2>8
    <2>10. c[i] = Encoded(b)[k]
      BY <1>4, <2>1, <2>3
    <2> QED
      BY <2>6, <2>9, <2>10
  <1>7. c \in Seq(0..Pad) /\ Len(c) = 4 * n
    <2>1. PICK l : l = 4 * n
      OBVIOUS
    <2>2. l \in Nat /\ c = [i \in 1..l |-> c[i]] /\ \A i \in 1..l : c[i] \in 0..Pad
      BY <1>2, <1>4, <1>6, <2>1
    <2>3. c \in [1..l -> 0..Pad]
      BY <2>2
    <2>4. c \in Seq(0..Pad) /\ Len(c) = l
      BY <2>2, <2>3, FunctionIsSeq
    <2> QED
      BY <2>1, <2>4
  <1> QED
    BY <1>1, <1>2, <1>3, <1>5, <1>7

\* A text of which the n characters that are no blanks are counted by c, and
\* one whose characters are the first of d.
Counted(c, s, n, blanks) ==
    /\ c \in [0..Len(s) -> Int] /\ c[0] = 0 /\ c[Len(s)] = n
    /\ \A k \in 1..Len(s) : \/ s[k] \in 0..Pad /\ c[k] = c[k - 1] + 1
                            \/ s[k] \in blanks /\ c[k] = c[k - 1]

Told(c, s, d) ==
    \A k \in 1..Len(s) : s[k] \in 0..Pad => c[k] \in 1..Len(d) /\ d[c[k]] = s[k]

Spelled(s, n, d) ==
    s \in Seq(0..Noise) /\ \E c : Counted(c, s, n, {Space}) /\ Told(c, s, d)

LEMMA SpelledNothing == ASSUME NEW d PROVE Spelled(<<>>, 0, d)
  <1> DEFINE c == [k \in 0..0 |-> 0]
  <1>1. Len(<<>>) = 0 /\ <<>> \in Seq(0..Noise) /\ 1..0 = {}
    BY EmptySeq
  <1>2. c \in [0..0 -> Int] /\ c[0] = 0
    OBVIOUS
  <1> HIDE DEF c
  <1>3. Counted(c, <<>>, 0, {Space}) /\ Told(c, <<>>, d)
    BY <1>1, <1>2 DEF Counted, Told
  <1> QED
    BY <1>1, <1>3 DEF Spelled

\* One character more: the next of d, or a blank.
LEMMA SpelledMore ==
    ASSUME NEW s, NEW n, NEW d, Spelled(s, n, d), NEW e, NEW j \in 0..1,
           \/ j = 1 /\ e \in 0..Pad /\ n + 1 \in 1..Len(d) /\ d[n + 1] = e
           \/ j = 0 /\ e = Space
    PROVE  Spelled(Append(s, e), n + j, d)
  <1>1. PICK c, l, t : /\ Counted(c, s, n, {Space}) /\ Told(c, s, d)
                       /\ l = Len(s) /\ t = Append(s, e)
    BY DEF Spelled
  <1>2. s \in Seq(0..Noise) /\ e \in 0..Noise
    BY DEF Spelled, Pad, Space, Noise
  <1>3. l \in Nat /\ t \in Seq(0..Noise) /\ Len(t) = l + 1 /\ t[l + 1] = e /\ \A i \in 1..l : t[i] = s[i]
    <2>1. IsAppended(0..Noise, t, s, e)
      BY <1>1, <1>2, Appended
    <2>2. Len(s) \in Nat
      BY <1>2, LenProperties
    <2> QED
      BY <1>1, <2>1, <2>2 DEF IsAppended
  <1>4. /\ c \in [0..l -> Int] /\ c[0] = 0 /\ c[l] = n
        /\ \A k \in 1..l : \/ s[k] \in 0..Pad /\ c[k] = c[k - 1] + 1
                           \/ s[k] \in {Space} /\ c[k] = c[k - 1]
        /\ \A k \in 1..l : s[k] \in 0..Pad => c[k] \in 1..Len(d) /\ d[c[k]] = s[k]
    BY <1>1 DEF Counted, Told
  <1>5. n \in Int
    <2>1. l \in 0..l
      BY <1>3
    <2> QED
      BY <1>4, <2>1
  <1> DEFINE b == [k \in 0..(l + 1) |-> IF k = l + 1 THEN n + j ELSE c[k]]
  <1>6. b \in [0..(l + 1) -> Int] /\ b[l + 1] = n + j /\ \A k \in 0..l : b[k] = c[k]
    <2>1. l + 1 \in 0..(l + 1) /\ \A k \in 0..l : k \in 0..(l + 1) /\ k # l + 1
      BY <1>3
    <2>2. \A k \in 0..(l + 1) : k # l + 1 => k \in 0..l
      BY <1>3
    <2>3. n + j \in Int /\ \A k \in 0..l : c[k] \in Int
      BY <1>4, <1>5
    <2> QED
      BY <2>1, <2>2, <2>3
  <1> HIDE DEF b
  <1>7. b[0] = 0
    <2>1. 0 \in 0..l
      BY <1>3
    <2> QED
      BY <1>4, <1>6, <2>1
  <1>8. ASSUME NEW k \in 1..(l + 1)
        PROVE  /\ \/ t[k] \in 0..Pad /\ b[k] = b[k - 1] + 1
                  \/ t[k] \in {Space} /\ b[k] = b[k - 1]
               /\ t[k] \in 0..Pad => b[k] \in 1..Len(d) /\ d[b[k]] = t[k]
    <2>1. CASE k \in 1..l
      <3>1. k \in 0..l /\ k - 1 \in 0..l
        BY <1>3, <2>1
      <3>2. t[k] = s[k] /\ b[k] = c[k] /\ b[k - 1] = c[k - 1]
        BY <1>3, <1>6, <2>1, <3>1
      <3> QED
        BY <1>4, <2>1, <3>2
    <2>2. CASE k = l + 1
      <3>1. k - 1 = l /\ l \in 0..l
        BY <1>3, <2>2
      <3>2. t[k] = e /\ b[k] = n + j /\ b[k - 1] = n
        BY <1>3, <1>4, <1>6, <2>2, <3>1
      <3>3. CASE j = 1 /\ e \in 0..Pad /\ n + 1 \in 1..Len(d) /\ d[n + 1] = e
        BY <3>2, <3>3
      <3>4. CASE j = 0 /\ e = Space
        <4>1. e \notin 0..Pad /\ n + j = n
          BY <1>5, <3>4 DEF Space, Pad
        <4> QED
          BY <3>2, <3>4, <4>1
      <3> QED
        BY <3>3, <3>4
    <2> QED
      BY <1>3, <2>1, <2>2
  <1>9. Counted(b, t, n + j, {Space})
    BY <1>3, <1>6, <1>7, <1>8 DEF Counted
  <1>10. Told(b, t, d)
    BY <1>3, <1>8 DEF Told
  <1> QED
    BY <1>1, <1>3, <1>9, <1>10 DEF Spelled

\* What a text may meet on its way.
LEMMA Inserted ==
    ASSUME NEW s, NEW n, NEW d, Spelled(s, n, d), NEW i \in 1..(Len(s) + 1), NEW e \in {Space, Noise}
    PROVE  /\ InsertAt(s, i, e) \in Seq(0..Noise)
           /\ \E c : Counted(c, InsertAt(s, i, e), n, {Space, Noise}) /\ Told(c, InsertAt(s, i, e), d)
  <1>1. PICK c, l, t : /\ Counted(c, s, n, {Space}) /\ Told(c, s, d)
                       /\ l = Len(s) /\ t = InsertAt(s, i, e)
    BY DEF Spelled
  <1>2. s \in Seq(0..Noise) /\ e \in 0..Noise /\ e \notin 0..Pad
    BY DEF Spelled, Pad, Space, Noise
  <1>3. l \in Nat /\ i \in 1..(l + 1)
    BY <1>1, <1>2, LenProperties
  <1>4. /\ t \in Seq(0..Noise) /\ Len(t) = l + 1 /\ t[i] = e
        /\ \A k \in 1..(i - 1) : t[k] = s[k]
        /\ \A k \in (i + 1)..(l + 1) : t[k] = s[k - 1]
    <2>1. PICK a, b, x : a = SubSeq(s, 1, i - 1) /\ b = SubSeq(s, i, l) /\ x = <<e>>
      OBVIOUS
    <2>2. /\ a \in Seq(0..Noise) /\ Len(a) = i - 1 /\ \A k \in 1..(i - 1) : a[k] = s[k]
      <3>1. 1 \in 1..(Len(s) + 1) /\ i - 1 \in (1 - 1)..Len(s) /\ (i - 1) - 1 + 1 = i - 1
            /\ \A k \in 1..(i - 1) : 1 + k - 1 = k
        BY <1>1, <1>3
      <3>2. IsPart(0..Noise, SubSeq(s, 1, i - 1), s, 1, i - 1)
        BY <1>2, <3>1, Part
      <3> QED
        BY <2>1, <3>1, <3>2 DEF IsPart
    <2>3. /\ b \in Seq(0..Noise) /\ Len(b) = (l - i) + 1
          /\ \A k \in 1..((l - i) + 1) : b[k] = s[(i + k) - 1]
      <3>1. i \in 1..(Len(s) + 1) /\ l \in (i - 1)..Len(s)
        BY <1>1, <1>3
      <3>2. IsPart(0..Noise, SubSeq(s, i, l), s, i, l)
        BY <1>2, <3>1, Part
      <3> QED
        BY <2>1, <3>2 DEF IsPart
    <2>4. x \in Seq(0..Noise) /\ Len(x) = 1 /\ x[1] = e
      BY <1>2, <2>1
    <2>5. PICK u : u = a \o x
      OBVIOUS
    <2>6. /\ u \in Seq(0..Noise) /\ Len(u) = i
          /\ \A k \in 1..i : u[k] = IF k <= i - 1 THEN a[k] ELSE x[k - (i - 1)]
      <3>1. /\ a \o x \in Seq(0..Noise) /\ Len(a \o x) = Len(a) + Len(x)
            /\ \A k \in 1..(Len(a) + Len(x)) : (a \o x)[k] = IF k <= Len(a) THEN a[k] ELSE x[k - Len(a)]
        BY <2>2, <2>4, ConcatProperties
      <3>2. Len(a) + Len(x) = i
        BY <1>3, <2>2, <2>4
      <3> QED
        BY <2>2, <2>5, <3>1, <3>2
    <2>7. t = u \o b
      BY <1>1, <2>1, <2>5 DEF InsertAt
    <2>8. /\ t \in Seq(0..Noise) /\ Len(t) = l + 1
          /\ \A k \in 1..(l + 1) : t[k] = IF k <= i THEN u[k] ELSE b[k - i]
      <3>1. /\ u \o b \in Seq(0..Noise) /\ Len(u \o b) = Len(u) + Len(b)
            /\ \A k \in 1..(Len(u) + Len(b)) : (u \o b)[k] = IF k <= Len(u) THEN u[k] ELSE b[k - Len(u)]
        BY <2>3, <2>6, ConcatProperties
      <3>2. Len(u) + Len(b) = l + 1
        BY <1>3, <2>3, <2>6
      <3> QED
        BY <2>6, <2>7, <3>1, <3>2
    <2>9. t[i] = e
      <3>1. i \in 1..(l + 1) /\ i \in 1..i /\ i <= i /\ ~(i <= i - 1) /\ i - (i - 1) = 1
        BY <1>3
      <3> QED
        BY <2>4, <2>6, <2>8, <3>1
    <2>10. ASSUME NEW k \in 1..(i - 1) PROVE t[k] = s[k]
      <3>1. k \in 1..(l + 1) /\ k <= i /\ k \in 1..i /\ k <= i - 1
        BY <1>3
      <3> QED
        BY <2>2, <2>6, <2>8, <3>1
    <2>11. ASSUME NEW k \in (i + 1)..(l + 1) PROVE t[k] = s[k - 1]
      <3>1. k \in 1..(l + 1) /\ ~(k <= i) /\ k - i \in 1..((l - i) + 1) /\ (i + (k - i)) - 1 = k - 1
        BY <1>3
      <3> QED
        BY <2>3, <2>8, <3>1
    <2> QED
      BY <2>8, <2>9, <2>10, <2>11
  <1>5. /\ c \in [0..l -> Int] /\ c[0] = 0 /\ c[l] = n
        /\ \A k \in 1..l : \/ s[k] \in 0..Pad /\ c[k] = c[k - 1] + 1
                           \/ s[k] \in {Space} /\ c[k] = c[k - 1]
        /\ \A k \in 1..l : s[k] \in 0..Pad => c[k] \in 1..Len(d) /\ d[c[k]] = s[k]
    BY <1>1 DEF Counted, Told
  <1> DEFINE b == [k \in 0..(l + 1) |-> IF k < i THEN c[k] ELSE c[k - 1]]
  <1>6. /\ b \in [0..(l + 1) -> Int]
        /\ \A k \in 0..(i - 1) : b[k] = c[k]
        /\ \A k \in i..(l + 1) : b[k] = c[k - 1]
    <2>1. \A k \in 0..(l + 1) : IF k < i THEN k \in 0..l ELSE k - 1 \in 0..l
      BY <1>3
    <2>2. \A k \in 0..l : c[k] \in Int
      BY <1>5
    <2>3. \A k \in 0..(i - 1) : k \in 0..(l + 1) /\ k < i
      BY <1>3
    <2>4. \A k \in i..(l + 1) : k \in 0..(l + 1) /\ ~(k < i)
      BY <1>3
    <2> QED
      BY <2>1, <2>2, <2>3, <2>4
  <1> HIDE DEF b
  <1>7. b[0] = 0 /\ b[l + 1] = n
    <2>1. 0 \in 0..(i - 1) /\ l + 1 \in i..(l + 1) /\ (l + 1) - 1 = l
      BY <1>3
    <2> QED
      BY <1>5, <1>6, <2>1
  <1>8. ASSUME NEW k \in 1..(l + 1)
        PROVE  /\ \/ t[k] \in 0..Pad /\ b[k] = b[k - 1] + 1
                  \/ t[k] \in {Space, Noise} /\ b[k] = b[k - 1]
               /\ t[k] \in 0..Pad => b[k] \in 1..Len(d) /\ d[b[k]] = t[k]
    <2>1. CASE k \in 1..(i - 1)
      <3>1. k \in 0..(i - 1) /\ k - 1 \in 0..(i - 1) /\ k \in 1..l
        BY <1>3, <2>1
      <3>2. t[k] = s[k] /\ b[k] = c[k] /\ b[k - 1] = c[k - 1]
        BY <1>4, <1>6, <2>1, <3>1
      <3> QED
        BY <1>5, <3>1, <3>2
    <2>2. CASE k = i
      <3>1. k - 1 \in 0..(i - 1) /\ k \in i..(l + 1)
        BY <1>3, <2>2
      <3>2. t[k] = e /\ b[k] = c[k - 1] /\ b[k - 1] = c[k - 1]
        BY <1>4, <1>6, <2>2, <3>1
      <3> QED
        BY <1>2, <3>2
    <2>3. CASE k \in (i + 1)..(l + 1)
      <3>1. k \in i..(l + 1) /\ k - 1 \in i..(l + 1) /\ k - 1 \in 1..l
        BY <1>3, <2>3
      <3>2. t[k] = s[k - 1] /\ b[k] = c[k - 1] /\ b[k - 1] = c[(k - 1) - 1]
        BY <1>4, <1>6, <2>3, <3>1
      <3> QED
        BY <1>5, <3>1, <3>2
    <2> QED
      BY <1>3, <2>1, <2>2, <2>3
  <1>9. Counted(b, t, n, {Space, Noise})
    BY <1>4, <1>6, <1>7, <1>8 DEF Counted
  <1>10. Told(b, t, d)
    BY <1>4, <1>8 DEF Told
  <1> QED
    BY <1>1, <1>4, <1>9, <1>10

LEMMA Removed ==
    ASSUME NEW s, NEW n, NEW d, Spelled(s, n, d), NEW i \in 1..Len(s), s[i] # Space
    PROVE  /\ RemoveAt(s, i) \in Seq(0..Noise)
           /\ \E c : Counted(c, RemoveAt(s, i), n - 1, {Space, Noise})
  <1>1. PICK c, l, t : /\ Counted(c, s, n, {Space})
                       /\ l = Len(s) /\ t = RemoveAt(s, i)
    BY DEF Spelled
  <1>2. s \in Seq(0..Noise)
    BY DEF Spelled
  <1>3. l \in Nat /\ i \in 1..l
    BY <1>1, <1>2, LenProperties
  <1>4. /\ t \in Seq(0..Noise) /\ Len(t) = l - 1
        /\ \A k \in 1..(i - 1) : t[k] = s[k]
        /\ \A k \in i..(l - 1) : t[k] = s[k + 1]
    <2>1. PICK a, b : a = SubSeq(s, 1, i - 1) /\ b = SubSeq(s, i + 1, l)
      OBVIOUS
    <2>2. /\ a \in Seq(0..Noise) /\ Len(a) = i - 1 /\ \A k \in 1..(i - 1) : a[k] = s[k]
      <3>1. 1 \in 1..(Len(s) + 1) /\ i - 1 \in (1 - 1)..Len(s) /\ (i - 1) - 1 + 1 = i - 1
            /\ \A k \in 1..(i - 1) : 1 + k - 1 = k
        BY <1>1, <1>3
      <3>2. IsPart(0..Noise, SubSeq(s, 1, i - 1), s, 1, i - 1)
        BY <1>2, <3>1, Part
      <3> QED
        BY <2>1, <3>1, <3>2 DEF IsPart
    <2>3. /\ b \in Seq(0..Noise) /\ Len(b) = l - i
          /\ \A k \in 1..(l - i) : b[k] = s[i + k]
      <3>1. /\ i + 1 \in 1..(Len(s) + 1) /\ l \in ((i + 1) - 1)..Len(s) /\ (l - (i + 1)) + 1 = l - i
            /\ \A k \in 1..(l - i) : ((i + 1) + k) - 1 = i + k
        BY <1>1, <1>3
      <3>2. IsPart(0..Noise, SubSeq(s, i + 1, l), s, i + 1, l)
        BY <1>2, <3>1, Part
      <3> QED
        BY <2>1, <3>1, <3>2 DEF IsPart
    <2>4. /\ t \in Seq(0..Noise) /\ Len(t) = l - 1
          /\ \A k \in 1..(l - 1) : t[k] = IF k <= i - 1 THEN a[k] ELSE b[k - (i - 1)]
      <3>1. /\ a \o b \in Seq(0..Noise) /\ Len(a \o b) = Len(a) + Len(b)
            /\ \A k \in 1..(Len(a) + Len(b)) : (a \o b)[k] = IF k <= Len(a) THEN a[k] ELSE b[k - Len(a)]
        BY <2>2, <2>3, ConcatProperties
      <3>2. Len(a) + Len(b) = l - 1
        BY <1>3, <2>2, <2>3
      <3>3. t = a \o b
        BY <1>1, <2>1 DEF RemoveAt
      <3> QED
        BY <2>2, <3>1, <3>2, <3>3
    <2>5. ASSUME NEW k \in 1..(i - 1) PROVE t[k] = s[k]
      <3>1. k \in 1..(l - 1) /\ k <= i - 1
        BY <1>3
      <3> QED
        BY <2>2, <2>4, <3>1
    <2>6. ASSUME NEW k \in i..(l - 1) PROVE t[k] = s[k + 1]
      <3>1. k \in 1..(l - 1) /\ ~(k <= i - 1) /\ k - (i - 1) \in 1..(l - i) /\ i + (k - (i - 1)) = k + 1
        BY <1>3
      <3> QED
        BY <2>3, <2>4, <3>1
    <2> QED
      BY <2>4, <2>5, <2>6
  <1>5. /\ c \in [0..l -> Int] /\ c[0] = 0 /\ c[l] = n
        /\ \A k \in 1..l : \/ s[k] \in 0..Pad /\ c[k] = c[k - 1] + 1
                           \/ s[k] \in {Space} /\ c[k] = c[k - 1]
    BY <1>1 DEF Counted
  <1>6. c[i] = c[i - 1] + 1 /\ c[i - 1] \in Int
    <2>1. i - 1 \in 0..l
      BY <1>3
    <2> QED
      BY <1>3, <1>5, <2>1
  <1> DEFINE b == [k \in 0..(l - 1) |-> IF k < i THEN c[k] ELSE c[k + 1] - 1]
  <1>7. /\ b \in [0..(l - 1) -> Int]
        /\ \A k \in 0..(i - 1) : b[k] = c[k]
        /\ \A k \in (i - 1)..(l - 1) : b[k] = c[k + 1] - 1
    <2>1. \A k \in 0..(l - 1) : k \in 0..l /\ k + 1 \in 0..l
      BY <1>3
    <2>2. \A k \in 0..l : c[k] \in Int
      BY <1>5
    <2>3. \A k \in 0..(i - 1) : k \in 0..(l - 1) /\ k < i
      BY <1>3
    <2>4. \A k \in (i - 1)..(l - 1) : k \in 0..(l - 1) /\ (k < i => k = i - 1 /\ k + 1 = i)
      BY <1>3
    <2>5. \A k \in 0..(l - 1) : (IF k < i THEN c[k] ELSE c[k + 1] - 1) \in Int
      BY <2>1, <2>2
    <2>6. \A k \in (i - 1)..(l - 1) : b[k] = c[k + 1] - 1
      <3>1. \A k \in (i - 1)..(l - 1) : b[k] = IF k < i THEN c[k] ELSE c[k + 1] - 1
        BY <2>4
      <3>2. c[i - 1] = c[i] - 1
        BY <1>6
      <3> QED
        BY <2>4, <3>1, <3>2
    <2> QED
      BY <2>3, <2>5, <2>6
  <1> HIDE DEF b
  <1>8. b[0] = 0 /\ b[l - 1] = n - 1
    <2>1. 0 \in 0..(i - 1) /\ l - 1 \in (i - 1)..(l - 1) /\ (l - 1) + 1 = l
      BY <1>3
    <2> QED
      BY <1>5, <1>7, <2>1
  <1>9. ASSUME NEW k \in 1..(l - 1)
        PROVE  \/ t[k] \in 0..Pad /\ b[k] = b[k - 1] + 1
               \/ t[k] \in {Space, Noise} /\ b[k] = b[k - 1]
    <2>1. CASE k \in 1..(i - 1)
      <3>1. k \in 0..(i - 1) /\ k - 1 \in 0..(i - 1) /\ k \in 1..l
        BY <1>3, <2>1
      <3>2. t[k] = s[k] /\ b[k] = c[k] /\ b[k - 1] = c[k - 1]
        BY <1>4, <1>7, <2>1, <3>1
      <3> QED
        BY <1>5, <3>1, <3>2
    <2>2. CASE k \in i..(l - 1)
      <3>1. k \in (i - 1)..(l - 1) /\ k - 1 \in (i - 1)..(l - 1) /\ k + 1 \in 1..l /\ (k + 1) - 1 = k
            /\ (k - 1) + 1 = k
        BY <1>3, <2>2
      <3>2. t[k] = s[k + 1] /\ b[k] = c[k + 1] - 1 /\ b[k - 1] = c[k] - 1
        BY <1>4, <1>7, <2>2, <3>1
      <3>3. c[k] \in Int
        <4>1. k \in 0..l
          BY <1>3, <2>2
        <4> QED
          BY <1>5, <4>1
      <3>4. \/ s[k + 1] \in 0..Pad /\ c[k + 1] = c[k] + 1
            \/ s[k + 1] \in {Space} /\ c[k + 1] = c[k]
        BY <1>5, <3>1
      <3> QED
        BY <3>2, <3>3, <3>4
    <2> QED
      BY <1>3, <2>1, <2>2
  <1>10. Counted(b, t, n - 1, {Space, Noise})
    BY <1>4, <1>7, <1>8, <1>9 DEF Counted
  <1> QED
    BY <1>1, <1>4, <1>10

\* A character and the newline that may follow it.
Broken(e) == {<<e>>, <<e, Space>>}

LEMMA SpelledBroken ==
    ASSUME NEW s, NEW n \in Nat, NEW d \in Seq(0..Pad), Spelled(s, n, d), NEW e \in 0..Pad,
           n + 1 <= Len(d), d[n + 1] = e, NEW b \in Broken(e)
    PROVE  Spelled(s \o b, n + 1, d)
  <1>1. s \in Seq(0..Noise) /\ e \in 0..Noise /\ Space \in 0..Noise
    BY DEF Spelled, Pad, Space, Noise
  <1>2. PICK t : t = Append(s, e)
    OBVIOUS
  <1>3. t = s \o <<e>>
    BY <1>1, <1>2, AppendIsConcat
  <1>4. Spelled(t, n + 1, d)
    <2>1. 1 \in 0..1 /\ n + 1 \in 1..(n + 1)
      OBVIOUS
    <2>2. n + 1 \in 1..Len(d)
      <3>1. n + 1 >= 1 /\ n + 1 \in Int
        OBVIOUS
      <3>2. PICK l, k : l = Len(d) /\ k = n + 1
        OBVIOUS
      <3>3. Len(d) \in Int
        BY LenProperties
      <3> QED
        BY <3>1, <3>2, <3>3
    <2> QED
      BY <1>2, <2>1, <2>2, SpelledMore
  <1>5. CASE b = <<e>>
    BY <1>3, <1>4, <1>5
  <1>6. CASE b = <<e, Space>>
    <2>1. <<e, Space>> = <<e>> \o <<Space>>
      OBVIOUS
    <2>2. <<e>> \in Seq(0..Noise) /\ <<Space>> \in Seq(0..Noise)
      BY <1>1
    <2>3. s \o b = t \o <<Space>>
      <3>1. (s \o <<e>>) \o <<Space>> = s \o (<<e>> \o <<Space>>)
        BY <1>1, <2>2, ConcatAssociative
      <3> QED
        BY <1>3, <1>6, <2>1, <3>1
    <2>4. t \in Seq(0..Noise)
      BY <1>4 DEF Spelled
    <2>5. s \o b = Append(t, Space)
      BY <1>1, <2>3, <2>4, AppendIsConcat
    <2>6. Spelled(Append(t, Space), (n + 1) + 0, d)
      <3>1. PICK k : k = n + 1
        OBVIOUS
      <3>2. Spelled(Append(t, Space), k + 0, d)
        BY <1>4, <3>1, SpelledMore, SMTT(60)
      <3> QED
        BY <3>1, <3>2
    <2>7. (n + 1) + 0 = n + 1
      OBVIOUS
    <2> QED
      BY <2>5, <2>6, <2>7
  <1> QED
    BY <1>5, <1>6 DEF Broken

\* The four characters of a group, with the newlines between them.
Next4(q, d, n) == \A k \in 1..4 : q[k] \in 0..Pad /\ d[n + k] = q[k]

Breaks(f, q) ==
    DOMAIN f = 1..4 /\ f = [k \in 1..4 |-> f[k]] /\ \A k \in 1..4 : f[k] \in Broken(q[k])

LEMMA SpelledGroup ==
    ASSUME NEW s, NEW n \in Nat, NEW d \in Seq(0..Pad), Spelled(s, n, d), n + 4 <= Len(d),
           NEW q, Next4(q, d, n), NEW f, Breaks(f, q)
    PROVE  Spelled(s \o FlattenSeq(f), n + 4, d)
  <1>1. s \in Seq(0..Noise) /\ Space \in 0..Noise /\ 0..Pad \subseteq 0..Noise
    BY DEF Spelled, Pad, Space, Noise
  <1>2. \A k \in 1..4 : f[k] \in Seq(0..Noise)
    <2> SUFFICES ASSUME NEW k \in 1..4 PROVE f[k] \in Seq(0..Noise)
      OBVIOUS
    <2>1. PICK e : e = q[k]
      OBVIOUS
    <2>2. e \in 0..Noise /\ (f[k] = <<e>> \/ f[k] = <<e, Space>>)
      BY <1>1, <2>1 DEF Broken, Next4, Breaks
    <2>3. <<e>> \in Seq(0..Noise) /\ <<e, Space>> \in Seq(0..Noise)
      BY <1>1, <2>2
    <2> QED
      BY <2>2, <2>3
  <1>3. f \in Seq(Seq(0..Noise)) /\ Len(f) = 4 /\ f # <<>>
    <2>1. f \in [1..4 -> Seq(0..Noise)]
      BY <1>2 DEF Breaks
    <2>2. f \in Seq(Seq(0..Noise)) /\ Len(f) = 4
      BY <2>1, FunctionIsSeq
    <2> QED
      BY <2>2
  <1>4. PICK h : FlatTo(h, f, 4) /\ FlattenSeq(f) = h[4]
    BY <1>3, Flattened
  <1>5. h[1] = f[1] /\ h[2] = h[1] \o f[2] /\ h[3] = h[2] \o f[3] /\ h[4] = h[3] \o f[4]
    <2>1. \A i \in 1..4 : h[i] = IF i = 1 THEN f[i] ELSE h[i - 1] \o f[i]
      BY <1>4 DEF FlatTo
    <2>2. /\ 1 \in 1..4 /\ 2 \in 1..4 /\ 3 \in 1..4 /\ 4 \in 1..4
          /\ 2 # 1 /\ 3 # 1 /\ 4 # 1 /\ 2 - 1 = 1 /\ 3 - 1 = 2 /\ 4 - 1 = 3
      OBVIOUS
    <2> QED
      BY <2>1, <2>2
  <1>6. ASSUME NEW a \in Seq(0..Noise), NEW k \in 1..3, Spelled(s \o a, n + k, d)
        PROVE  a \o f[k + 1] \in Seq(0..Noise) /\ Spelled(s \o (a \o f[k + 1]), n + (k + 1), d)
    <2>1. PICK t, m, i, e, b : t = s \o a /\ m = n + k /\ i = k + 1 /\ e = q[i] /\ b = f[i]
      OBVIOUS
    <2>2. i \in 1..4 /\ m \in Nat /\ m + 1 = n + i /\ n + i <= n + 4
      BY <2>1
    <2>3. e \in 0..Pad /\ d[n + i] = e /\ b \in Broken(e) /\ b \in Seq(0..Noise)
      BY <1>2, <2>1, <2>2 DEF Next4, Breaks
    <2>4. m + 1 <= Len(d)
      <3>1. Len(d) \in Int
        BY LenProperties
      <3> QED
        BY <2>2, <3>1
    <2>5. Spelled(t \o b, m + 1, d)
      BY <1>6, <2>1, <2>2, <2>3, <2>4, SpelledBroken
    <2>6. t \o b = s \o (a \o b)
      <3>1. s \in Seq(0..Noise) /\ a \in Seq(0..Noise) /\ b \in Seq(0..Noise)
        BY <1>1, <2>3
      <3>2. (s \o a) \o b = s \o (a \o b)
        BY <3>1, ConcatAssociative, SMTT(60)
      <3> QED
        BY <2>1, <3>2
    <2>7. a \o b \in Seq(0..Noise)
      BY <2>3, ConcatProperties
    <2> QED
      BY <2>1, <2>2, <2>5, <2>6, <2>7
  <1>7. h[1] \in Seq(0..Noise) /\ Spelled(s \o h[1], n + 1, d)
    <2>1. 1 \in 1..4
      OBVIOUS
    <2>2. n + 1 <= Len(d)
      <3>1. Len(d) \in Int
        BY LenProperties
      <3> QED
        BY <3>1
    <2>3. PICK e, b : e = q[1] /\ b = f[1]
      OBVIOUS
    <2>4. e \in 0..Pad /\ d[n + 1] = e /\ b \in Broken(e) /\ b \in Seq(0..Noise)
      BY <1>2, <2>1, <2>3 DEF Next4, Breaks
    <2>5. Spelled(s \o b, n + 1, d)
      BY <2>2, <2>4, SpelledBroken
    <2> QED
      BY <1>5, <2>3, <2>4, <2>5
  <1>8. h[2] \in Seq(0..Noise) /\ Spelled(s \o h[2], n + 2, d)
    <2>1. 1 \in 1..3 /\ 1 + 1 = 2
      OBVIOUS
    <2>2. h[1] \o f[1 + 1] \in Seq(0..Noise) /\ Spelled(s \o (h[1] \o f[1 + 1]), n + (1 + 1), d)
      BY <1>6, <1>7, <2>1
    <2> QED
      BY <1>5, <2>1, <2>2
  <1>9. h[3] \in Seq(0..Noise) /\ Spelled(s \o h[3], n + 3, d)
    <2>1. 2 \in 1..3 /\ 2 + 1 = 3
      OBVIOUS
    <2>2. h[2] \o f[2 + 1] \in Seq(0..Noise) /\ Spelled(s \o (h[2] \o f[2 + 1]), n + (2 + 1), d)
      BY <1>6, <1>8, <2>1
    <2> QED
      BY <1>5, <2>1, <2>2
  <1>10. h[4] \in Seq(0..Noise) /\ Spelled(s \o h[4], n + 4, d)
    <2>1. 3 \in 1..3 /\ 3 + 1 = 4
      OBVIOUS
    <2>2. h[3] \o f[3 + 1] \in Seq(0..Noise) /\ Spelled(s \o (h[3] \o f[3 + 1]), n + (3 + 1), d)
      BY <1>6, <1>9, <2>1
    <2> QED
      BY <1>5, <2>1, <2>2
  <1> QED
    BY <1>4, <1>10

\* Standard output, to which is only appended.
OutGood ==
    /\ "stdout" \in DOMAIN sinks /\ sinks["stdout"].bytes \in Seq(Byte)
    /\ sinks["stdout"].pos = Len(sinks["stdout"].bytes)

LEMMA PutOut ==
    ASSUME OutGood, NEW b \in Seq(Byte), Write("stdout", b)
    PROVE  OutGood' /\ sinks'["stdout"].bytes = sinks["stdout"].bytes \o b
  <1> DEFINE o == sinks["stdout"].bytes
  <1>1. /\ o \in Seq(Byte) /\ sinks["stdout"].pos = Len(o)
        /\ "stdout" \in DOMAIN sinks
    BY DEF OutGood
  <1>2. sinks' = [sinks EXCEPT !["stdout"] =
                    [bytes |-> Written(@.bytes, @.pos, b), pos |-> @.pos + Len(b)]]
    BY DEF Write
  <1>3. "stdout" \in DOMAIN sinks' /\ sinks'["stdout"] = [bytes |-> Written(o, Len(o), b), pos |-> Len(o) + Len(b)]
    BY <1>1, <1>2
  <1> HIDE DEF o
  <1>4. Written(o, Len(o), b) = o \o b /\ o \o b \in Seq(Byte) /\ Len(o \o b) = Len(o) + Len(b)
    BY <1>1, WrittenAtEnd, ConcatProperties
  <1> QED
    BY <1>3, <1>4 DEF OutGood, o

\* What stdio holds and what it wrote, of the bytes put out.
LEMMA Flushes ==
    ASSUME OutGood, NEW b \in Seq(Byte), NEW n \in 0..Len(b), Flush(b, n)
    PROVE  /\ OutGood' /\ held' \in Seq(Byte) /\ Len(held') = Len(b) - n
           /\ sinks'["stdout"].bytes \o held' = sinks["stdout"].bytes \o b
  <1> DEFINE o == sinks["stdout"].bytes
             w == SubSeq(b, 1, n)
             h == SubSeq(b, n + 1, Len(b))
  <1>1. Len(b) \in Nat /\ n \in Nat /\ n <= Len(b) /\ o \in Seq(Byte)
    BY LenProperties DEF OutGood
  <1>2. Write("stdout", w) /\ held' = h
    BY DEF Flush
  <1>3. w \in Seq(Byte)
    <2>1. 1 \in 1..(Len(b) + 1) /\ n \in (1 - 1)..Len(b)
      BY <1>1
    <2> QED
      BY <2>1, Part DEF IsPart
  <1>4. h \in Seq(Byte) /\ Len(h) = Len(b) - n
    <2>1. n + 1 \in 1..(Len(b) + 1) /\ Len(b) \in ((n + 1) - 1)..Len(b)
          /\ (Len(b) - (n + 1)) + 1 = Len(b) - n
      BY <1>1
    <2>2. IsPart(Byte, h, b, n + 1, Len(b))
      BY <2>1, Part
    <2> QED
      BY <2>1, <2>2 DEF IsPart
  <1>5. w \o h = b
    <2>1. n \in 0..Len(b) /\ Len(b) \in n..Len(b)
      BY <1>1
    <2>2. w \o h = SubSeq(b, 1, Len(b))
      BY <2>1, Longer
    <2> QED
      BY <2>2, SubSeqFull
  <1> HIDE DEF w, h
  <1>6. OutGood' /\ sinks'["stdout"].bytes = o \o w
    BY <1>2, <1>3, PutOut
  <1> HIDE DEF o
  <1>7. (o \o w) \o h = o \o (w \o h)
    BY <1>1, <1>3, <1>4, ConcatAssociative, SMTT(60)
  <1> QED
    BY <1>2, <1>4, <1>5, <1>6, <1>7 DEF o

\* What was written of a part of the message is the front of it.
LEMMA FrontOf ==
    ASSUME NEW m \in Seq(Byte), NEW u \in 0..Len(m), NEW a \in Seq(Byte), NEW h \in Seq(Byte),
           a \o h = SubSeq(m, 1, u)
    PROVE  IsPrefix(a, m)
  <1>1. PICK l, n, e, p : l = Len(m) /\ n = Len(a) /\ e = Len(h) /\ p = SubSeq(m, 1, u)
    OBVIOUS
  <1>2. l \in Nat /\ n \in Nat /\ e \in Nat /\ u \in 0..l
    BY <1>1, LenProperties
  <1>3. p \in Seq(Byte) /\ Len(p) = u /\ \A i \in 1..u : p[i] = m[i]
    <2>1. 1 \in 1..(l + 1) /\ u \in (1 - 1)..l /\ (u - 1) + 1 = u /\ \A i \in 1..u : (1 + i) - 1 = i
      BY <1>2
    <2>2. IsPart(Byte, SubSeq(m, 1, u), m, 1, u)
      BY <1>1, <2>1, Part
    <2> QED
      BY <1>1, <2>1, <2>2 DEF IsPart
  <1>4. Len(p) = n + e /\ \A i \in 1..n : p[i] = a[i]
    <2>1. Len(a \o h) = n + e /\ \A i \in 1..(n + e) : (a \o h)[i] = IF i <= n THEN a[i] ELSE h[i - n]
      BY <1>1, ConcatProperties
    <2>2. p = a \o h
      BY <1>1
    <2>3. \A i \in 1..n : i \in 1..(n + e) /\ i <= n
      BY <1>2
    <2> QED
      BY <2>1, <2>2, <2>3
  <1>5. n \in 0..l /\ \A i \in 1..n : a[i] = m[i]
    <2>1. n <= u
      BY <1>2, <1>3, <1>4
    <2>2. \A i \in 1..n : i \in 1..u
      BY <1>2, <2>1
    <2>3. \A i \in 1..n : a[i] = m[i]
      BY <1>3, <1>4, <2>2
    <2> QED
      BY <1>2, <2>1, <2>3
  <1>6. SubSeq(m, 1, n) = a
    <2> DEFINE q == SubSeq(m, 1, n)
    <2>1. 1 \in 1..(l + 1) /\ n \in (1 - 1)..l /\ (n - 1) + 1 = n /\ \A i \in 1..n : (1 + i) - 1 = i
      BY <1>2, <1>5
    <2>2. IsPart(Byte, SubSeq(m, 1, n), m, 1, n)
      BY <1>1, <2>1, Part
    <2>3. q \in Seq(Byte) /\ Len(q) = n /\ \A i \in 1..n : q[i] = m[i]
      BY <2>1, <2>2 DEF IsPart
    <2> HIDE DEF q
    <2>4. \A i \in 1..n : q[i] = a[i]
      BY <1>5, <2>3
    <2>5. q = a
      BY <1>1, <2>3, <2>4, SeqEqual
    <2> QED
      BY <2>5 DEF q
  <1>7. SubSeq(a, 1, n) = a
    BY <1>1, SubSeqFull
  <1>8. Len(a) <= Len(m)
    BY <1>1, <1>2, <1>5
  <1> QED
    BY <1>1, <1>6, <1>7, <1>8 DEF IsPrefix

\* The first characters of a text are told as the whole of it is.
LEMMA CutShort ==
    ASSUME NEW s, NEW n, NEW d, Spelled(s, n, d), NEW j \in 0..Len(s)
    PROVE  /\ SubSeq(s, 1, j) \in Seq(0..Noise)
           /\ \E c, k : Counted(c, SubSeq(s, 1, j), k, {Space, Noise}) /\ Told(c, SubSeq(s, 1, j), d)
  <1>1. PICK c, l, t : /\ Counted(c, s, n, {Space}) /\ Told(c, s, d)
                       /\ l = Len(s) /\ t = SubSeq(s, 1, j)
    BY DEF Spelled
  <1>2. s \in Seq(0..Noise)
    BY DEF Spelled
  <1>3. l \in Nat /\ j \in 0..l
    BY <1>1, <1>2, LenProperties
  <1>4. t \in Seq(0..Noise) /\ Len(t) = j /\ \A i \in 1..j : t[i] = s[i]
    <2>1. 1 \in 1..(l + 1) /\ j \in (1 - 1)..l /\ (j - 1) + 1 = j /\ \A i \in 1..j : (1 + i) - 1 = i
      BY <1>3
    <2>2. IsPart(0..Noise, SubSeq(s, 1, j), s, 1, j)
      BY <1>1, <1>2, <2>1, Part
    <2> QED
      BY <1>1, <2>1, <2>2 DEF IsPart
  <1>5. /\ c \in [0..l -> Int] /\ c[0] = 0
        /\ \A k \in 1..l : \/ s[k] \in 0..Pad /\ c[k] = c[k - 1] + 1
                           \/ s[k] \in {Space} /\ c[k] = c[k - 1]
        /\ \A k \in 1..l : s[k] \in 0..Pad => c[k] \in 1..Len(d) /\ d[c[k]] = s[k]
    BY <1>1 DEF Counted, Told
  <1> DEFINE b == [i \in 0..j |-> c[i]]
  <1>6. /\ 0 \in 0..j /\ j \in 0..j /\ \A i \in 0..j : i \in 0..l
        /\ \A k \in 1..j : k \in 1..l /\ k \in 0..j /\ k - 1 \in 0..j
    BY <1>3
  <1>7. b \in [0..j -> Int] /\ b[0] = 0 /\ b[j] = c[j] /\ \A i \in 0..j : b[i] = c[i]
    BY <1>5, <1>6
  <1> HIDE DEF b
  <1>8. Counted(b, t, c[j], {Space, Noise})
    <2>1. ASSUME NEW k \in 1..j
          PROVE  \/ t[k] \in 0..Pad /\ b[k] = b[k - 1] + 1
                 \/ t[k] \in {Space, Noise} /\ b[k] = b[k - 1]
      <3>1. t[k] = s[k] /\ b[k] = c[k] /\ b[k - 1] = c[k - 1]
        BY <1>4, <1>6, <1>7
      <3>2. \/ s[k] \in 0..Pad /\ c[k] = c[k - 1] + 1
            \/ s[k] \in {Space} /\ c[k] = c[k - 1]
        BY <1>5, <1>6
      <3> QED
        BY <3>1, <3>2
    <2> QED
      BY <1>4, <1>7, <2>1 DEF Counted
  <1>9. Told(b, t, d)
    <2>1. ASSUME NEW k \in 1..j, t[k] \in 0..Pad PROVE b[k] \in 1..Len(d) /\ d[b[k]] = t[k]
      <3>1. t[k] = s[k] /\ b[k] = c[k] /\ k \in 1..l
        BY <1>4, <1>6, <1>7
      <3> QED
        BY <1>5, <2>1, <3>1
    <2> QED
      BY <1>4, <2>1 DEF Told
  <1> QED
    BY <1>1, <1>4, <1>8, <1>9

\* base64: the text spells the characters of the groups that were read; of a
\* text on its way back, what was decoded and what the buffer holds are the
\* characters so far, and a text of which one was lost has no whole groups.

Base64Type ==
    /\ message \in Seq(Byte) /\ bpc \in {"encode", "sent", "decode", "exit"}
    /\ damage \in {"none", "lost", "noise", "breaks", "torn"}

NothingDecoded ==
    /\ sinks = Stdout /\ quad = <<>> /\ damage = "none" /\ held = <<>>

Encoding ==
    /\ NothingDecoded /\ source = message /\ taken \in 0..Len(message)
    /\ \E g \in Nat : g <= Groups(message) /\ chars = 4 * g /\ taken = UpTo(message, g)
    /\ Spelled(text, chars, Codes(message))

Sent == NothingDecoded /\ Spelled(text, Len(Codes(message)), Codes(message))

\* What was put out, some of which stdio may hold.
Copied(u) ==
    /\ OutGood /\ held \in Seq(Byte)
    /\ sinks["stdout"].bytes \o held = SubSeq(message, 1, u)

\* n characters came, which are g groups and r in the buffer.
DecodedTo(n, g, r) ==
    /\ n = (4 * g) + r /\ Len(quad) = r
    /\ damage # "lost" => /\ g <= Groups(message) /\ quad = SubSeq(Codes(message), (4 * g) + 1, n)
                          /\ Copied(UpTo(message, g))

Comes(c, n) ==
    /\ Counted(c, source, n, {Space, Noise})
    /\ damage = "lost" => n = Len(Codes(message)) - 1
    /\ damage \notin {"lost", "torn"} => n = Len(Codes(message))
    /\ damage # "lost" => Told(c, source, Codes(message))
    /\ \E g \in Nat, r \in 0..3 : DecodedTo(c[taken], g, r)

Decoding ==
    /\ source \in Seq(0..Noise) /\ taken \in 0..Len(source) /\ quad \in Seq(0..Pad)
    /\ \E c, n : Comes(c, n)

Base64Inv ==
    /\ Base64Type
    /\ bpc = "encode" => Encoding
    /\ bpc = "sent" => Sent
    /\ bpc = "decode" => Decoding
    /\ Base64Image /\ Base64Done

\* The first characters, and all of them, of a message.
LEMMA UpToIs ==
    ASSUME NEW m \in Seq(Byte), NEW g \in Nat
    PROVE  /\ UpTo(m, g) \in 0..Len(m)
           /\ IsPrefix(SubSeq(m, 1, UpTo(m, g)), m)
           /\ UpTo(m, Groups(m)) = Len(m)
           /\ Groups(m) \in Nat
  <1>1. PICK l, u : l = Len(m) /\ u = UpTo(m, g)
    OBVIOUS
  <1>2. l \in Nat
    BY <1>1, LenProperties
  <1>3. u = IF 3 * g <= l THEN 3 * g ELSE l
    BY <1>1 DEF UpTo
  <1>4. u \in 0..l
    BY <1>2, <1>3
  <1>5. IsPrefix(SubSeq(m, 1, u), m)
    <2>1. 1 \in 1..(Len(m) + 1) /\ u \in (1 - 1)..Len(m) /\ (u - 1) + 1 = u
      BY <1>1, <1>2, <1>4
    <2>2. PICK p : p = SubSeq(m, 1, u)
      OBVIOUS
    <2>3. IsPart(Byte, SubSeq(m, 1, u), m, 1, u)
      BY <2>1, Part
    <2>4. p \in Seq(Byte) /\ Len(p) = u
      BY <2>1, <2>2, <2>3 DEF IsPart
    <2>5. SubSeq(p, 1, Len(p)) = p
      BY <2>4, SubSeqFull
    <2>6. Len(p) <= Len(m)
      BY <1>1, <1>2, <1>4, <2>4
    <2> QED
      BY <2>2, <2>4, <2>5, <2>6 DEF IsPrefix
  <1>6. PICK n : n = Groups(m)
    OBVIOUS
  <1>7. n = (l + 2) \div 3
    BY <1>1, <1>6 DEF Groups
  <1>8. n \in Nat /\ 3 * n >= l
    BY <1>2, <1>7
  <1>9. UpTo(m, n) = l
    <2>1. UpTo(m, n) = IF 3 * n <= l THEN 3 * n ELSE l
      BY <1>1 DEF UpTo
    <2> QED
      BY <1>2, <1>8, <2>1
  <1> QED
    BY <1>1, <1>4, <1>5, <1>6, <1>8, <1>9

LEMMA Base64Starts == Init /\ tool = "base64" => Base64Inv
  <1> SUFFICES ASSUME Init, tool = "base64" PROVE Base64Inv
    OBVIOUS
  <1>1. PICK r \in Base64Runs : source = r.source /\ Base64Init(r.wrap, r.garbage)
    BY DEF Init, InitDd, InitTee, InitCat, InitBase64, InitDos2unix, InitExecInPipe, InitShell,
           InitMonicall, InitChecksum, InitBox
  <1>2. sinks = Stdout
    BY DEF Init, InitDd, InitTee, InitCat, InitBase64, InitDos2unix, InitExecInPipe, InitShell,
           InitMonicall, InitChecksum, InitBox
  <1>3. r.source \in Seq(Byte)
    BY Base64RunsAssumption
  <1>4. /\ message = source /\ source \in Seq(Byte) /\ bpc = "encode" /\ chars = 0 /\ quad = <<>>
        /\ text = <<>> /\ damage = "none" /\ taken = 0 /\ held = <<>>
    BY <1>1, <1>3 DEF Base64Init, Init
  <1>5. UpTo(message, 0) = 0 /\ Groups(message) \in Nat
    <2>1. Len(message) \in Nat
      BY <1>4, LenProperties
    <2> QED
      BY <1>4, <2>1, UpToIs DEF UpTo
  <1>6. Encoding
    <2>1. 0 \in 0..Len(message) /\ 0 \in Nat /\ 4 * 0 = 0 /\ 0 <= Groups(message)
      <3>1. Len(message) \in Nat
        BY <1>4, LenProperties
      <3> QED
        BY <1>5, <3>1
    <2>2. Spelled(text, chars, Codes(message))
      BY <1>4, SpelledNothing
    <2> QED
      BY <1>2, <1>4, <1>5, <2>1, <2>2 DEF Encoding, NothingDecoded
  <1> QED
    BY <1>4, <1>6 DEF Base64Inv, Base64Type, Base64Image, Base64Done

\* A text with none or one of its groups more.
LEMMA Base64Encodes == Base64Inv /\ EncodeGroup => Base64Inv'
  <1> SUFFICES ASSUME Base64Inv, EncodeGroup PROVE Base64Inv'
    OBVIOUS
  <1>1. /\ bpc = "encode" /\ Left > 0
        /\ text' = text \o Wrapped(Encoded(Coming(Min({3, Left}))))
        /\ taken' = taken + Min({3, Left}) /\ chars' = chars + 4
        /\ UNCHANGED <<source, sinks, status, wrap, garbage, bpc, quad, message, damage, held>>
    BY DEF EncodeGroup
  <1>2. Encoding /\ message \in Seq(Byte) /\ Base64Type
    BY <1>1 DEF Base64Inv, Base64Type
  <1>3. PICK g \in Nat : g <= Groups(message) /\ chars = 4 * g /\ taken = UpTo(message, g)
    BY <1>2 DEF Encoding
  <1>4. PICK m, l, t, d, n : /\ m = message /\ l = Len(message) /\ t = taken
                             /\ d = Codes(message) /\ n = Min({3, Left})
    OBVIOUS
  <1>5. m \in Seq(Byte) /\ l = Len(m) /\ l \in Nat /\ t \in 0..l /\ source = m /\ d = Codes(m)
    BY <1>2, <1>4, LenProperties DEF Encoding
  <1>6. Left = l - t /\ t < l
    <2>1. Left = l - t
      BY <1>4, <1>5 DEF Left
    <2> QED
      BY <1>1, <1>5, <2>1
  <1>7. t = 3 * g /\ 3 * g < l
    <2>1. t = IF 3 * g <= l THEN 3 * g ELSE l
      BY <1>3, <1>4 DEF UpTo
    <2> QED
      BY <1>5, <1>6, <2>1
  <1>8. g < Groups(m) /\ Groups(m) \in Nat
    <2>1. PICK k : k = Groups(m)
      OBVIOUS
    <2>2. k = (l + 2) \div 3
      BY <1>5, <2>1 DEF Groups
    <2> QED
      BY <1>5, <1>7, <2>1, <2>2
  <1>9. n = UpTo(m, g + 1) - (3 * g) /\ t + n = UpTo(m, g + 1)
    <2>1. UpTo(m, g + 1) = IF 3 * (g + 1) <= l THEN 3 * (g + 1) ELSE l
      BY <1>5 DEF UpTo
    <2>2. PICK k : k = Left
      OBVIOUS
    <2>3. k \in Int /\ k = l - (3 * g)
      BY <1>5, <1>6, <1>7, <2>2
    <2>4. n \in {3, k} /\ n <= 3 /\ n <= k
      <3>1. k \in Int /\ 3 \in Int
        BY <2>3
      <3>2. Min({3, k}) \in {3, k} /\ Min({3, k}) <= 3 /\ Min({3, k}) <= k
        BY <3>1, LeastOfTwo
      <3>3. n = Min({3, k})
        BY <1>4, <2>2
      <3> QED
        BY <3>2, <3>3
    <2> QED
      BY <1>5, <1>7, <2>1, <2>3, <2>4
  <1>10. PICK b : b = Group(m, g + 1)
    OBVIOUS
  <1>11. Coming(n) = b
    <2>1. b = SubSeq(m, (3 * g) + 1, UpTo(m, g + 1))
      BY <1>5, <1>8, <1>10, GroupIs
    <2> QED
      BY <1>4, <1>5, <1>7, <1>9, <2>1 DEF Coming
  <1>12. b \in Seq(Byte) /\ Len(b) \in 1..3 /\ UpTo(m, g + 1) \in 0..l
    <2>1. UpTo(m, g + 1) \in 0..Len(m)
      BY <1>5, UpToIs
    <2> QED
      BY <1>5, <1>8, <1>10, <2>1, GroupIs
  <1>13. PICK q1 \in 0..63, q2 \in 0..63, q3 \in 0..Pad, q4 \in 0..Pad : EncodedAs(b, q1, q2, q3, q4)
    BY <1>12, EncodedIs
  <1>14. PICK q : q = <<q1, q2, q3, q4>>
    OBVIOUS
  <1>15. Encoded(b) = q
    BY <1>13, <1>14 DEF EncodedAs
  <1>16. DOMAIN q = 1..4 /\ \A k \in 1..4 : q[k] \in 0..Pad
    <2>1. q1 \in 0..Pad /\ q2 \in 0..Pad
      BY DEF Pad
    <2> QED
      BY <1>14, <2>1
  <1>17. d \in Seq(0..Pad) /\ Len(d) = 4 * Groups(m) /\ \A k \in 1..4 : d[(4 * g) + k] = q[k]
    BY <1>5, <1>8, <1>10, <1>15, CodesAre
  <1>18. PICK s, c, f : /\ s = text /\ c = chars
                        /\ f = [k \in DOMAIN q |-> IF wrap > 0 /\ (chars + k) % wrap = 0
                                                   THEN <<q[k], Space>> ELSE <<q[k]>>]
    OBVIOUS
  <1>19. Wrapped(q) = FlattenSeq(f)
    BY <1>18 DEF Wrapped
  <1>20. Breaks(f, q)
    BY <1>16, <1>18 DEF Breaks, Broken
  <1>21. Next4(q, d, c)
    BY <1>3, <1>16, <1>17, <1>18 DEF Next4
  <1>22. c \in Nat /\ c + 4 <= Len(d) /\ Spelled(s, c, d)
    <2>1. c = 4 * g /\ Spelled(s, c, d)
      BY <1>2, <1>3, <1>4, <1>18 DEF Encoding
    <2>2. PICK k : k = Groups(m)
      OBVIOUS
    <2>3. Len(d) = 4 * k /\ k \in Nat /\ g < k
      BY <1>8, <1>17, <2>2
    <2> QED
      BY <2>1, <2>3
  <1>23. Spelled(s \o FlattenSeq(f), c + 4, d)
    BY <1>17, <1>20, <1>21, <1>22, SpelledGroup
  <1>24. Spelled(text, chars, Codes(message))'
    <2>1. text' = s \o FlattenSeq(f) /\ chars' = c + 4 /\ message' = m
      BY <1>1, <1>4, <1>11, <1>15, <1>18, <1>19
    <2> QED
      BY <1>5, <1>23, <2>1
  <1>25. Encoding'
    <2>1. taken' = UpTo(m, g + 1) /\ chars' = 4 * (g + 1)
      BY <1>1, <1>3, <1>4, <1>9
    <2>2. g + 1 \in Nat /\ g + 1 <= Groups(m)
      BY <1>8
    <2>3. taken' \in 0..Len(message')
      BY <1>1, <1>4, <1>12, <2>1
    <2>4. NothingDecoded'
      BY <1>1, <1>2 DEF Encoding, NothingDecoded, Stdout, Sink
    <2>5. source' = message'
      BY <1>1, <1>4, <1>5
    <2>6. message' = m
      BY <1>1, <1>4
    <2> QED
      BY <1>24, <2>1, <2>2, <2>3, <2>4, <2>5, <2>6 DEF Encoding
  <1> QED
    BY <1>1, <1>2, <1>25 DEF Base64Inv, Base64Type, Base64Image, Base64Done

LEMMA Base64Sends == Base64Inv /\ (EncodeEnds \/ Send) => Base64Inv'
  <1> SUFFICES ASSUME Base64Inv, EncodeEnds \/ Send PROVE Base64Inv'
    OBVIOUS
  <1> DEFINE d == Codes(message)
  <1>1. /\ Base64Type /\ message \in Seq(Byte) /\ d \in Seq(0..Pad) /\ Len(d) = 4 * Groups(message)
        /\ Groups(message) \in Nat
    BY CodesAre DEF Base64Inv, Base64Type
  <1>2. CASE EncodeEnds
    <2>1. /\ bpc = "encode" /\ Left = 0 /\ bpc' = "sent"
          /\ text' = IF wrap > 0 /\ chars > 0 /\ chars % wrap # 0 THEN Append(text, Space) ELSE text
          /\ UNCHANGED <<source, taken, sinks, status, wrap, garbage, chars, quad, message, damage, held>>
      BY <1>2 DEF EncodeEnds, streamVars
    <2>2. Encoding
      BY <2>1 DEF Base64Inv
    <2>3. PICK g \in Nat : g <= Groups(message) /\ chars = 4 * g /\ taken = UpTo(message, g)
      BY <2>2 DEF Encoding
    <2>4. chars = Len(d)
      <3>1. PICK l, n : l = Len(message) /\ n = Groups(message)
        OBVIOUS
      <3>2. l \in Nat /\ n \in Nat /\ n = (l + 2) \div 3
        BY <1>1, <3>1, LenProperties DEF Groups
      <3>3. taken = l
        BY <2>1, <2>2, <3>1, <3>2 DEF Encoding, Left
      <3>4. taken = IF 3 * g <= l THEN 3 * g ELSE l
        BY <2>3, <3>1 DEF UpTo
      <3>5. g = n
        <4>1. g <= n
          BY <2>3, <3>1
        <4>2. l <= 3 * g
          BY <3>2, <3>3, <3>4
        <4>3. 3 * n <= l + 2
          BY <3>2
        <4>4. 3 * n >= l
          BY <3>2
        <4> QED
          BY <3>2, <4>1, <4>2, <4>3, <4>4
      <3> QED
        BY <1>1, <2>3, <3>1, <3>5
    <2>5. Spelled(text, Len(d), d)
      BY <2>2, <2>4 DEF Encoding
    <2>6. Spelled(Append(text, Space), Len(d), d)
      <3>1. PICK n : n = Len(d)
        OBVIOUS
      <3>2. n + 0 = n /\ 0 \in 0..1
        BY <1>1, <3>1
      <3>3. Spelled(text, n, d)
        BY <2>5, <3>1
      <3> HIDE DEF d
      <3>4. Spelled(Append(text, Space), n + 0, d)
        BY <3>2, <3>3, SpelledMore
      <3> QED
        BY <3>1, <3>2, <3>4
    <2>7. Spelled(text', Len(d), d)
      BY <2>1, <2>5, <2>6
    <2>8. Sent'
      BY <2>1, <2>2, <2>7 DEF Encoding, Sent, NothingDecoded, Stdout, Sink
    <2> QED
      BY <1>1, <2>1, <2>8 DEF Base64Inv, Base64Type, Base64Image, Base64Done
  <1>3. CASE Send
    <2>1. /\ bpc = "sent" /\ taken' = 0 /\ bpc' = "decode"
          /\ UNCHANGED <<sinks, status, wrap, garbage, chars, quad, message, text, held>>
          /\ \/ source' = text /\ damage' = "none"
             \/ \E i \in DOMAIN text : text[i] # Space /\ source' = RemoveAt(text, i) /\ damage' = "lost"
             \/ \E i \in 1..(Len(text) + 1), e \in {Space, Noise} :
                    source' = InsertAt(text, i, e) /\ damage' \in {"noise", "breaks"}
             \/ \E j \in 0..(Len(text) - 1) : source' = SubSeq(text, 1, j) /\ damage' = "torn"
      BY <1>3 DEF Send
    <2>2. Sent
      BY <2>1 DEF Base64Inv
    <2> DEFINE n == Len(d)
    <2>3. Spelled(text, n, d) /\ sinks = Stdout /\ quad = <<>> /\ held = <<>>
      BY <2>2 DEF Sent, NothingDecoded
    <2>4. \/ /\ damage' = "lost" /\ source' \in Seq(0..Noise)
             /\ \E c : Counted(c, source', n - 1, {Space, Noise})
          \/ /\ damage' \in {"none", "noise", "breaks"} /\ source' \in Seq(0..Noise)
             /\ \E c : Counted(c, source', n, {Space, Noise}) /\ Told(c, source', d)
          \/ /\ damage' = "torn" /\ source' \in Seq(0..Noise)
             /\ \E c, k : Counted(c, source', k, {Space, Noise}) /\ Told(c, source', d)
      <3> HIDE DEF d, n
      <3>1. CASE source' = text /\ damage' = "none"
        <4>1. PICK c : Counted(c, text, n, {Space}) /\ Told(c, text, d)
          BY <2>3 DEF Spelled
        <4>2. Counted(c, text, n, {Space, Noise})
          BY <4>1 DEF Counted
        <4> QED
          BY <2>3, <3>1, <4>1, <4>2 DEF Spelled
      <3>2. ASSUME NEW i \in DOMAIN text, text[i] # Space, source' = RemoveAt(text, i), damage' = "lost"
            PROVE  /\ damage' = "lost" /\ source' \in Seq(0..Noise)
                   /\ \E c : Counted(c, source', n - 1, {Space, Noise})
        <4>1. i \in 1..Len(text)
          <5>1. text \in Seq(0..Noise)
            BY <2>3 DEF Spelled
          <5> QED
            BY <5>1, LenProperties
        <4> QED
          BY <2>3, <3>2, <4>1, Removed
      <3>3. ASSUME NEW i \in 1..(Len(text) + 1), NEW e \in {Space, Noise},
                   source' = InsertAt(text, i, e), damage' \in {"noise", "breaks"}
            PROVE  /\ damage' \in {"none", "noise", "breaks"} /\ source' \in Seq(0..Noise)
                   /\ \E c : Counted(c, source', n, {Space, Noise}) /\ Told(c, source', d)
        BY <2>3, <3>3, Inserted
      <3>4. ASSUME NEW j \in 0..(Len(text) - 1), source' = SubSeq(text, 1, j), damage' = "torn"
            PROVE  /\ source' \in Seq(0..Noise)
                   /\ \E c, k : Counted(c, source', k, {Space, Noise}) /\ Told(c, source', d)
        <4>1. j \in 0..Len(text)
          <5>1. text \in Seq(0..Noise)
            BY <2>3 DEF Spelled
          <5>2. Len(text) \in Nat
            BY <5>1, LenProperties
          <5> QED
            BY <5>2
        <4> QED
          BY <2>3, <3>4, <4>1, CutShort
      <3> QED
        BY <2>1, <3>1, <3>2, <3>3, <3>4
    <2>5. \E c, k : /\ Counted(c, source', k, {Space, Noise})
                    /\ damage' = "lost" => k = n - 1
                    /\ damage' \notin {"lost", "torn"} => k = n
                    /\ damage' # "lost" => Told(c, source', d)
      BY <2>4
    <2>6. PICK c, k : /\ Counted(c, source', k, {Space, Noise})
                      /\ damage' = "lost" => k = n - 1
                      /\ damage' \notin {"lost", "torn"} => k = n
                      /\ damage' # "lost" => Told(c, source', d)
      BY <2>5
    <2>7. source' \in Seq(0..Noise) /\ taken' \in 0..Len(source') /\ c[taken'] = 0
      <3>1. source' \in Seq(0..Noise)
        BY <2>4
      <3>2. Len(source') \in Nat
        BY <3>1, LenProperties
      <3> QED
        BY <2>1, <2>6, <3>1, <3>2 DEF Counted
    <2>8. message' = message /\ quad' = quad /\ sinks' = sinks /\ held' = held
      BY <2>1
    <2>9. UpTo(message, 0) = 0 /\ 0 <= Groups(message)
      <3>1. Len(message) \in Nat
        BY <1>1, LenProperties
      <3> QED
        BY <1>1, <3>1 DEF UpTo
    <2>10. SubSeq(message, 1, 0) = <<>> /\ SubSeq(d, 1, 0) = <<>>
      BY SubSeqEmpty
    <2>11. Copied(0)'
      <3>1. /\ "stdout" \in DOMAIN sinks' /\ sinks'["stdout"].bytes = <<>> /\ sinks'["stdout"].pos = 0
            /\ held' = <<>> /\ <<>> \in Seq(Byte) /\ Len(<<>>) = 0
        BY <2>3, <2>8, EmptySeq DEF Stdout, Sink
      <3>2. <<>> \o <<>> = <<>>
        BY <3>1, ConcatEmptySeq
      <3>3. SubSeq(message', 1, 0) = <<>>
        BY <2>8, <2>10
      <3> QED
        BY <3>1, <3>2, <3>3 DEF Copied, OutGood
    <2>12. DecodedTo(0, 0, 0)'
      <3>1. 0 = (4 * 0) + 0 /\ (4 * 0) + 1 = 1
        OBVIOUS
      <3>2. Len(quad') = 0
        BY <2>3, <2>8
      <3>3. quad' = SubSeq(d, (4 * 0) + 1, 0)
        BY <2>3, <2>8, <2>10, <3>1
      <3>4. Copied(UpTo(message, 0))'
        BY <2>8, <2>9, <2>11 DEF Copied, OutGood
      <3> QED
        BY <2>8, <2>9, <3>1, <3>2, <3>3, <3>4 DEF DecodedTo
    <2>13. Comes(c, k)'
      <3>1. 0 \in Nat /\ 0 \in 0..3 /\ DecodedTo(c[taken], 0, 0)'
        BY <2>7, <2>12
      <3> QED
        BY <2>6, <2>8, <3>1 DEF Comes
    <2>14. Decoding'
      <3>1. quad' \in Seq(0..Pad)
        BY <2>3, <2>8, EmptySeq
      <3> QED
        BY <2>7, <2>13, <3>1 DEF Decoding
    <2>15. Base64Image'
      <3>1. sinks'["stdout"].bytes = <<>> /\ message' = message
        BY <2>3, <2>8 DEF Stdout, Sink
      <3>2. IsPrefix(<<>>, message)
        <4>1. UpTo(message, 0) = 0 /\ IsPrefix(SubSeq(message, 1, UpTo(message, 0)), message)
          BY <1>1, <2>9, UpToIs
        <4> QED
          BY <2>10, <4>1
      <3> QED
        BY <3>1, <3>2 DEF Base64Image
    <2>16. Base64Type'
      BY <1>1, <2>1, <2>4 DEF Base64Type
    <2>17. Base64Done'
      BY <2>1 DEF Base64Done
    <2> QED
      BY <2>1, <2>14, <2>15, <2>16, <2>17 DEF Base64Inv
  <1> QED
    BY <1>2, <1>3

LEMMA Base64Shows == Base64Type /\ Decoding => Base64Image
  <1> SUFFICES ASSUME Base64Type, Decoding, damage # "lost" PROVE IsPrefix(sinks["stdout"].bytes, message)
    BY DEF Base64Image
  <1>1. PICK c, n : Comes(c, n)
    BY DEF Decoding
  <1>2. PICK g \in Nat, r \in 0..3 : DecodedTo(c[taken], g, r)
    BY <1>1 DEF Comes
  <1>3. message \in Seq(Byte) /\ UpTo(message, g) \in 0..Len(message)
    BY UpToIs DEF Base64Type
  <1>4. /\ sinks["stdout"].bytes \in Seq(Byte) /\ held \in Seq(Byte)
        /\ sinks["stdout"].bytes \o held = SubSeq(message, 1, UpTo(message, g))
    BY <1>2 DEF DecodedTo, Copied, OutGood
  <1> QED
    BY <1>3, <1>4, FrontOf

LEMMA Base64Skips == Base64Inv /\ DecodeSkip => Base64Inv'
  <1> SUFFICES ASSUME Base64Inv, DecodeSkip PROVE Base64Inv'
    OBVIOUS
  <1>1. /\ bpc = "decode" /\ Left > 0 /\ source[taken + 1] \in {Space, Noise}
        /\ taken' = taken + 1
        /\ UNCHANGED <<source, sinks, status, wrap, garbage, bpc, chars, quad, message, text, damage, held>>
    BY DEF DecodeSkip, base64Vars
  <1>2. Base64Type /\ Decoding /\ Base64Image
    BY <1>1 DEF Base64Inv
  <1>3. PICK c, n : Comes(c, n)
    BY <1>2 DEF Decoding
  <1>4. PICK g \in Nat, r \in 0..3 : DecodedTo(c[taken], g, r)
    BY <1>3 DEF Comes
  <1>5. PICK k, s : k = taken + 1 /\ s = source
    OBVIOUS
  <1>6. k \in 1..Len(s) /\ k - 1 = taken
    <2>1. Len(s) \in Nat /\ taken \in 0..Len(s)
      BY <1>2, <1>5, LenProperties DEF Decoding
    <2>2. Len(s) - taken > 0
      BY <1>1, <1>5 DEF Left
    <2> QED
      BY <1>5, <2>1, <2>2
  <1>7. c[k] = c[taken]
    <2>1. \/ s[k] \in 0..Pad /\ c[k] = c[k - 1] + 1
          \/ s[k] \in {Space, Noise} /\ c[k] = c[k - 1]
      BY <1>3, <1>5, <1>6 DEF Comes, Counted
    <2>2. s[k] \notin 0..Pad
      BY <1>1, <1>5 DEF Pad, Space, Noise
    <2> QED
      BY <1>6, <2>1, <2>2
  <1>8. DecodedTo(c[taken], g, r)'
    <2>1. taken' = k
      BY <1>1, <1>5
    <2> QED
      BY <1>1, <1>4, <1>7, <2>1 DEF DecodedTo, Copied, OutGood
  <1>9. Decoding'
    <2>1. Comes(c, n)'
      BY <1>1, <1>3, <1>8 DEF Comes
    <2>2. taken' \in 0..Len(source')
      <3>1. taken' = k /\ source' = s
        BY <1>1, <1>5
      <3> QED
        BY <1>6, <3>1
    <2> QED
      BY <1>1, <1>2, <2>1, <2>2 DEF Decoding
  <1> QED
    BY <1>1, <1>2, <1>9 DEF Base64Inv, Base64Type, Base64Image, Base64Done

\* It says 0 only when no character is left and the buffer is empty, or need
\* not be.
LEMMA Base64Stops ==
    ASSUME Base64Inv, NEW s, Base64Stop(s), bpc \in {"encode", "decode"},
           s = 0 => bpc = "decode" /\ Left = 0 /\ (quad = <<>> \/ garbage)
    PROVE  Base64Inv'
  <1>1. PICK k \in 0..Len(held) :
            /\ bpc' = "exit" /\ status' = s /\ (k = Len(held) \/ CallsFail) /\ Flush(held, k)
            /\ UNCHANGED <<source, taken, wrap, garbage, chars, quad, message, text, damage>>
    BY DEF Base64Stop
  <1>2. Base64Type
    BY DEF Base64Inv
  <1>3. ASSUME damage # "lost"
        PROVE  \E u \in 0..Len(message) : Copied(u)
    <2>1. message \in Seq(Byte)
      BY <1>2 DEF Base64Type
    <2>2. CASE bpc = "encode"
      <3>1. sinks = Stdout /\ held = <<>>
        BY <2>2 DEF Base64Inv, Encoding, NothingDecoded
      <3>2. OutGood /\ sinks["stdout"].bytes = <<>> /\ <<>> \in Seq(Byte)
        BY <3>1, EmptySeq DEF OutGood, Stdout, Sink
      <3>3. <<>> \o <<>> = <<>> /\ SubSeq(message, 1, 0) = <<>>
        BY <3>2, ConcatEmptySeq, SubSeqEmpty
      <3>4. 0 \in 0..Len(message)
        BY <2>1, LenProperties
      <3> QED
        BY <3>1, <3>2, <3>3, <3>4 DEF Copied
    <2>3. CASE bpc = "decode"
      <3>1. Decoding
        BY <2>3 DEF Base64Inv
      <3>2. PICK c, n : Comes(c, n)
        BY <3>1 DEF Decoding
      <3>3. PICK g \in Nat, r \in 0..3 : DecodedTo(c[taken], g, r)
        BY <3>2 DEF Comes
      <3>4. Copied(UpTo(message, g))
        BY <1>3, <3>3 DEF DecodedTo
      <3>5. UpTo(message, g) \in 0..Len(message)
        BY <2>1, UpToIs
      <3> QED
        BY <3>4, <3>5
    <2> QED
      BY <2>2, <2>3
  <1>a. ASSUME NEW u, Copied(u)
        PROVE  /\ sinks'["stdout"].bytes \in Seq(Byte) /\ held' \in Seq(Byte)
               /\ sinks'["stdout"].bytes \o held' = SubSeq(message, 1, u)
               /\ Len(held') = Len(held) - k
    <2>1. OutGood /\ held \in Seq(Byte) /\ sinks["stdout"].bytes \o held = SubSeq(message, 1, u)
      BY <1>a DEF Copied
    <2>2. /\ OutGood' /\ held' \in Seq(Byte) /\ Len(held') = Len(held) - k
          /\ sinks'["stdout"].bytes \o held' = sinks["stdout"].bytes \o held
      BY <1>1, <2>1, Flushes
    <2> QED
      BY <2>1, <2>2 DEF OutGood
  <1>b. Base64Image'
    <2> SUFFICES ASSUME damage # "lost" PROVE IsPrefix(sinks'["stdout"].bytes, message)
      BY <1>1 DEF Base64Image
    <2>1. PICK u \in 0..Len(message) : Copied(u)
      BY <1>3
    <2>2. /\ sinks'["stdout"].bytes \in Seq(Byte) /\ held' \in Seq(Byte)
          /\ sinks'["stdout"].bytes \o held' = SubSeq(message, 1, u)
      BY <1>a, <2>1
    <2>3. message \in Seq(Byte)
      BY <1>2 DEF Base64Type
    <2> QED
      BY <2>2, <2>3, FrontOf
  <1>4. Base64Done'
    <2> SUFFICES ASSUME s = 0, damage # "torn", garbage => damage # "lost"
                 PROVE  sinks'["stdout"].bytes \o held' = message /\ (held' # <<>> => CallsFail)
      BY <1>1 DEF Base64Done
    <2>1. Decoding /\ Left = 0 /\ (quad = <<>> \/ garbage)
      BY DEF Base64Inv
    <2>2. PICK c, n : Comes(c, n)
      BY <2>1 DEF Decoding
    <2>3. PICK g \in Nat, r \in 0..3 : DecodedTo(c[taken], g, r)
      BY <2>2 DEF Comes
    <2>4. taken = Len(source)
      <3>1. Len(source) \in Nat /\ taken \in 0..Len(source) /\ Len(source) - taken = 0
        BY <2>1, LenProperties DEF Decoding, Left
      <3> QED
        BY <3>1
    <2>5. n = (4 * g) + r /\ Len(quad) = r
      BY <2>2, <2>3, <2>4 DEF Comes, Counted, DecodedTo
    <2>6. PICK e : e = Groups(message)
      OBVIOUS
    <2>7. message \in Seq(Byte) /\ e \in Nat /\ Len(Codes(message)) = 4 * e
      BY <1>2, <2>6, CodesAre DEF Base64Type
    <2>8. CASE damage = "lost"
      <3>1. n = (4 * e) - 1
        BY <2>2, <2>7, <2>8 DEF Comes
      <3>2. r = 3
        BY <2>5, <2>7, <3>1
      <3>3. quad # <<>>
        <4>1. Len(<<>>) = 0
          BY EmptySeq
        <4>2. Len(quad) = 3
          BY <2>5, <3>2
        <4>3. quad = <<>> => Len(quad) = 0
          BY <4>1, Zenon
        <4> QED
          BY <4>2, <4>3
      <3> QED
        BY <2>1, <2>8, <3>3
    <2>9. CASE damage # "lost"
      <3>1. n = 4 * e
        BY <2>2, <2>7, <2>9 DEF Comes
      <3>2. g = e
        BY <2>5, <2>7, <3>1
      <3>3. UpTo(message, g) = Len(message)
        <4>1. UpTo(message, Groups(message)) = Len(message)
          BY <2>7, UpToIs
        <4> QED
          BY <2>6, <3>2, <4>1
      <3>4. Copied(Len(message))
        <4>1. Copied(UpTo(message, g))
          BY <2>3, <2>9 DEF DecodedTo
        <4> QED
          BY <3>3, <4>1, Zenon
      <3>5. /\ held' \in Seq(Byte) /\ Len(held') = Len(held) - k
            /\ sinks'["stdout"].bytes \o held' = SubSeq(message, 1, Len(message))
        BY <1>a, <3>4
      <3>6. held' # <<>> => CallsFail
        <4>1. Len(held) \in Nat
          BY <3>4, LenProperties DEF Copied
        <4>2. k = Len(held) => Len(held') = 0
          BY <3>5, <4>1
        <4>3. Len(held') = 0 => held' = <<>>
          BY <3>5, EmptySeq
        <4> QED
          BY <1>1, <4>2, <4>3
      <3> QED
        BY <2>7, <3>5, <3>6, SubSeqFull
    <2> QED
      BY <2>8, <2>9
  <1> QED
    BY <1>1, <1>2, <1>4, <1>b DEF Base64Inv, Base64Type

\* A character of the next group, or the last of it.
LEMMA Base64Decodes == Base64Inv /\ DecodeChar => Base64Inv'
  <1> SUFFICES ASSUME Base64Inv, DecodeChar PROVE Base64Inv'
    OBVIOUS
  <1>1. PICK k, s, m, d, full :
            /\ k = taken + 1 /\ s = source /\ m = message /\ d = Codes(message)
            /\ full = Append(quad, source[taken + 1])
    OBVIOUS
  <1>2. /\ bpc = "decode" /\ Left > 0 /\ s[k] \in 0..Pad /\ taken' = k
        /\ UNCHANGED <<source, status, wrap, garbage, bpc, chars, message, text, damage>>
        /\ Len(full) < 4 => quad' = full /\ UNCHANGED <<sinks, held>>
        /\ ~(Len(full) < 4) => /\ quad' = <<>>
                               /\ \E f \in 0..Len(held \o Decoded(full)) :
                                      Flush(held \o Decoded(full), f)
    BY <1>1 DEF DecodeChar
  <1>3. Base64Type /\ Decoding
    BY <1>2 DEF Base64Inv
  <1>4. PICK c, n : Comes(c, n)
    BY <1>3 DEF Decoding
  <1>5. PICK g \in Nat, r \in 0..3 : DecodedTo(c[taken], g, r)
    BY <1>4 DEF Comes
  <1>6. /\ k \in 1..Len(s) /\ k - 1 = taken /\ k \in 0..Len(s) /\ m \in Seq(Byte)
        /\ quad \in Seq(0..Pad) /\ s \in Seq(0..Noise)
    <2>1. s \in Seq(0..Noise) /\ m \in Seq(Byte) /\ quad \in Seq(0..Pad)
      BY <1>1, <1>3 DEF Decoding, Base64Type
    <2>2. Len(s) \in Nat /\ taken \in 0..Len(s)
      BY <1>1, <1>3, <2>1, LenProperties DEF Decoding
    <2>3. Len(s) - taken > 0
      BY <1>1, <1>2 DEF Left
    <2> QED
      BY <1>1, <2>1, <2>2, <2>3
  <1>7. PICK x, y : x = c[taken] /\ y = c[k]
    OBVIOUS
  <1>8. x = (4 * g) + r /\ Len(quad) = r
    BY <1>5, <1>7 DEF DecodedTo
  <1>9. y = x + 1
    <2>1. \/ s[k] \in 0..Pad /\ c[k] = c[k - 1] + 1
          \/ s[k] \in {Space, Noise} /\ c[k] = c[k - 1]
      BY <1>1, <1>4, <1>6 DEF Comes, Counted
    <2>2. s[k] \notin {Space, Noise}
      <3>1. PICK e : e = s[k]
        OBVIOUS
      <3>2. e \in 0..Pad
        BY <1>2, <3>1
      <3>3. e \notin {Space, Noise}
        BY <3>2 DEF Pad, Space, Noise
      <3> QED
        BY <3>1, <3>3
    <2> QED
      BY <1>6, <1>7, <2>1, <2>2
  <1>10. damage # "lost" => y \in 1..Len(d) /\ d[y] = s[k]
    BY <1>1, <1>2, <1>4, <1>6, <1>7 DEF Comes, Told
  <1>11. damage # "lost" => /\ g <= Groups(m) /\ quad = SubSeq(d, (4 * g) + 1, x)
                            /\ OutGood /\ held \in Seq(Byte)
                            /\ sinks["stdout"].bytes \o held = SubSeq(m, 1, UpTo(m, g))
    BY <1>1, <1>5, <1>7 DEF DecodedTo, Copied
  <1>12. /\ full \in Seq(0..Pad) /\ Len(full) = r + 1 /\ full[r + 1] = s[k]
         /\ \A i \in 1..r : full[i] = quad[i]
    <2>1. IsAppended(0..Pad, full, quad, s[k])
      BY <1>1, <1>2, <1>6, Appended
    <2> QED
      BY <1>8, <2>1 DEF IsAppended
  <1>13. d \in Seq(0..Pad) /\ Len(d) = 4 * Groups(m) /\ Groups(m) \in Nat
    BY <1>1, <1>6, CodesAre
  <1>14. damage # "lost" => full = SubSeq(d, (4 * g) + 1, y)
    <2> SUFFICES ASSUME damage # "lost" PROVE full = SubSeq(d, (4 * g) + 1, y)
      OBVIOUS
    <2>1. PICK a : a = (4 * g) + 1
      OBVIOUS
    <2>2. a \in 1..Len(d) /\ y \in a..Len(d) /\ y - 1 = x
      <3>1. PICK l : l = Len(d)
        OBVIOUS
      <3>2. l \in Nat /\ y \in 1..l
        BY <1>10, <1>13, <3>1, LenProperties
      <3> QED
        BY <1>8, <1>9, <2>1, <3>1, <3>2
    <2>3. SubSeq(d, a, y) = SubSeq(d, a, y - 1) \o <<d[y]>>
      BY <1>13, <2>2, SubSeqRecursiveSecond
    <2>4. full = quad \o <<s[k]>>
      BY <1>1, <1>2, <1>6, AppendIsConcat
    <2> QED
      BY <1>10, <1>11, <2>1, <2>2, <2>3, <2>4
  <1>15. ASSUME NEW h \in Nat, NEW j \in 0..3, y = (4 * h) + j, Len(quad') = j,
                quad' \in Seq(0..Pad),
                damage # "lost" => /\ h <= Groups(m) /\ quad' = SubSeq(d, (4 * h) + 1, y)
                                   /\ OutGood' /\ held' \in Seq(Byte)
                                   /\ sinks'["stdout"].bytes \o held' = SubSeq(m, 1, UpTo(m, h))
         PROVE  Decoding'
    <2>1. message' = m /\ Codes(message)' = d /\ taken' = k /\ source' = s /\ damage' = damage
      BY <1>1, <1>2
    <2>2. DecodedTo(c[taken], h, j)'
      BY <1>7, <1>15, <2>1 DEF DecodedTo, Copied
    <2>3. Comes(c, n)'
      <3>1. /\ Counted(c, s, n, {Space, Noise})
            /\ damage = "lost" => n = Len(d) - 1
            /\ damage \notin {"lost", "torn"} => n = Len(d)
            /\ damage # "lost" => Told(c, s, d)
        BY <1>1, <1>4 DEF Comes
      <3> QED
        BY <1>15, <2>1, <2>2, <3>1 DEF Comes
    <2>4. taken' \in 0..Len(source') /\ source' \in Seq(0..Noise)
      BY <1>6, <2>1
    <2> QED
      BY <1>15, <2>3, <2>4 DEF Decoding
  <1>16. ASSUME r < 3 PROVE Decoding'
    <2>1. Len(full) < 4 /\ r + 1 \in 0..3 /\ y = (4 * g) + (r + 1)
      BY <1>8, <1>9, <1>12, <1>16
    <2>2. quad' = full /\ sinks' = sinks /\ held' = held
      BY <1>2, <2>1
    <2>3. damage # "lost" => /\ g <= Groups(m) /\ quad' = SubSeq(d, (4 * g) + 1, y)
                             /\ OutGood' /\ held' \in Seq(Byte)
                             /\ sinks'["stdout"].bytes \o held' = SubSeq(m, 1, UpTo(m, g))
      BY <1>11, <1>14, <2>2 DEF OutGood
    <2>4. Len(quad') = r + 1 /\ quad' \in Seq(0..Pad)
      BY <1>12, <2>2
    <2> QED
      BY <1>15, <2>1, <2>3, <2>4
  <1>17. ASSUME r = 3 PROVE Decoding'
    <2>1. ~(Len(full) < 4) /\ 0 \in 0..3 /\ g + 1 \in Nat /\ y = (4 * (g + 1)) + 0
      BY <1>8, <1>9, <1>12, <1>17
    <2>2. /\ quad' = <<>>
          /\ \E f \in 0..Len(held \o Decoded(full)) : Flush(held \o Decoded(full), f)
      BY <1>2, <2>1
    <2>3. Len(quad') = 0 /\ quad' \in Seq(0..Pad)
      BY <2>2, EmptySeq
    <2>4. ASSUME damage # "lost"
          PROVE  /\ g + 1 <= Groups(m) /\ quad' = SubSeq(d, (4 * (g + 1)) + 1, y)
                 /\ OutGood' /\ held' \in Seq(Byte)
                 /\ sinks'["stdout"].bytes \o held' = SubSeq(m, 1, UpTo(m, g + 1))
      <3>1. g < Groups(m) /\ g + 1 <= Groups(m)
        <4>1. PICK e : e = Groups(m)
          OBVIOUS
        <4>2. e \in Nat /\ y <= 4 * e
          BY <1>10, <1>13, <2>4, <4>1
        <4> QED
          BY <2>1, <4>1, <4>2
      <3>2. quad' = SubSeq(d, (4 * (g + 1)) + 1, y)
        <4>1. (4 * (g + 1)) + 1 \in Int /\ y \in Int /\ y < (4 * (g + 1)) + 1
          BY <2>1
        <4> QED
          BY <2>2, <4>1, SubSeqEmpty
      <3>3. PICK b, u, v : b = Group(m, g + 1) /\ u = UpTo(m, g) /\ v = UpTo(m, g + 1)
        OBVIOUS
      <3>4. /\ b \in Seq(Byte) /\ Len(b) \in 1..3 /\ b = SubSeq(m, u + 1, v)
            /\ u \in 0..Len(m) /\ v \in u..Len(m) /\ Len(b) = v - u
        <4>1. Len(m) \in Nat
          BY <1>6, LenProperties
        <4>2. /\ Group(m, g + 1) \in Seq(Byte) /\ Len(Group(m, g + 1)) \in 1..3
              /\ Len(Group(m, g + 1)) = UpTo(m, g + 1) - (3 * g)
              /\ Group(m, g + 1) = SubSeq(m, (3 * g) + 1, UpTo(m, g + 1))
              /\ 3 * g < Len(m) /\ UpTo(m, g) = 3 * g
              /\ UpTo(m, g + 1) \in (3 * g)..Len(m)
          BY <1>6, <3>1, GroupIs
        <4>3. u = 3 * g
          BY <3>3, <4>2
        <4>4. u \in 0..Len(m) /\ v \in u..Len(m)
          BY <3>3, <4>1, <4>2, <4>3
        <4> QED
          BY <3>3, <4>2, <4>3, <4>4
      <3>5. full = Encoded(b)
        <4>1. PICK q1 \in 0..63, q2 \in 0..63, q3 \in 0..Pad, q4 \in 0..Pad : EncodedAs(b, q1, q2, q3, q4)
          BY <3>4, EncodedIs
        <4>2. PICK q : q = <<q1, q2, q3, q4>>
          OBVIOUS
        <4>3. Encoded(b) = q
          BY <4>1, <4>2 DEF EncodedAs
        <4>4. q \in Seq(0..Pad) /\ Len(q) = 4
          <5>1. q1 \in 0..Pad /\ q2 \in 0..Pad
            BY DEF Pad
          <5> QED
            BY <4>2, <5>1
        <4>5. \A i \in 1..4 : d[(4 * g) + i] = q[i]
          BY <1>1, <1>6, <3>1, <3>3, <4>3, CodesAre
        <4>6. PICK a : a = (4 * g) + 1
          OBVIOUS
        <4>7. PICK l : l = Len(d)
          OBVIOUS
        <4>8. /\ a \in 1..(l + 1) /\ y \in (a - 1)..l /\ (y - a) + 1 = 4
              /\ \A i \in 1..4 : (a + i) - 1 = (4 * g) + i
          <5>1. l \in Nat /\ y \in 1..l
            BY <1>10, <1>13, <2>4, <4>7, LenProperties
          <5> QED
            BY <2>1, <4>6, <5>1
        <4>9. IsPart(0..Pad, SubSeq(d, a, y), d, a, y)
          BY <1>13, <4>7, <4>8, Part
        <4>10. full = SubSeq(d, a, y)
          BY <1>14, <2>4, <4>6
        <4>11. \A i \in 1..4 : full[i] = q[i]
          BY <4>5, <4>8, <4>9, <4>10, SMTT(60) DEF IsPart
        <4>12. Len(full) = 4
          BY <1>12, <1>17
        <4> QED
          BY <1>12, <4>3, <4>4, <4>11, <4>12, SeqEqual
      <3>6. Decoded(full) = b
        BY <3>4, <3>5, DecodedIs
      <3>7. PICK o, h : o = sinks["stdout"].bytes /\ h = held
        OBVIOUS
      <3>8. OutGood /\ o \in Seq(Byte) /\ h \in Seq(Byte) /\ o \o h = SubSeq(m, 1, u)
        BY <1>11, <2>4, <3>3, <3>7 DEF OutGood
      <3>9. PICK f \in 0..Len(h \o b) : Flush(h \o b, f)
        BY <2>2, <3>6, <3>7
      <3>10. h \o b \in Seq(Byte)
        BY <3>4, <3>8, ConcatProperties
      <3>11. /\ OutGood' /\ held' \in Seq(Byte)
             /\ sinks'["stdout"].bytes \o held' = o \o (h \o b)
        BY <3>7, <3>8, <3>9, <3>10, Flushes
      <3>12. o \o (h \o b) = (o \o h) \o b
        <4>1. o \in Seq(Byte) /\ h \in Seq(Byte) /\ b \in Seq(Byte)
          BY <3>4, <3>8
        <4> QED
          BY <4>1, ConcatAssociative, SMTT(60)
      <3>13. SubSeq(m, 1, u) \o b = SubSeq(m, 1, v)
        BY <1>6, <3>4, Longer
      <3> QED
        BY <3>1, <3>2, <3>3, <3>8, <3>11, <3>12, <3>13
    <2> QED
      BY <1>15, <2>1, <2>3, <2>4
  <1>18. Decoding'
    <2>1. r < 3 \/ r = 3
      OBVIOUS
    <2> QED
      BY <1>16, <1>17, <2>1
  <1>19. Base64Type' /\ Base64Done'
    BY <1>2, <1>3 DEF Base64Type, Base64Done
  <1>20. Base64Image'
    <2>1. Base64Type' /\ Decoding' => Base64Image'
      BY Base64Shows, PTL
    <2> QED
      BY <1>18, <1>19, <2>1
  <1> QED
    BY <1>2, <1>18, <1>19, <1>20 DEF Base64Inv

LEMMA Base64GoesOn == Base64Inv /\ (Base64Next \/ UNCHANGED <<streamVars, base64Vars>>) => Base64Inv'
  <1> SUFFICES ASSUME Base64Inv, Base64Next \/ UNCHANGED <<streamVars, base64Vars>> PROVE Base64Inv'
    OBVIOUS
  <1>1. CASE DecodeRejects
    BY <1>1, Base64Stops DEF DecodeRejects
  <1>2. CASE Base64WriteFails
    BY <1>2, Base64Stops DEF Base64WriteFails
  <1>3. CASE DecodeEnds
    BY <1>3, Base64Stops DEF DecodeEnds
  <1>4. CASE UNCHANGED <<streamVars, base64Vars>>
    <2>1. /\ UNCHANGED <<source, taken, sinks, status>>
          /\ UNCHANGED <<wrap, garbage, bpc, chars, quad, message, text, damage, held>>
      BY <1>4 DEF streamVars, base64Vars
    <2>2. Base64Type' /\ Base64Image' /\ Base64Done'
      BY <2>1 DEF Base64Inv, Base64Type, Base64Image, Base64Done
    <2>3. NothingDecoded => NothingDecoded'
      BY <2>1 DEF NothingDecoded, Stdout, Sink
    <2>4. Encoding => Encoding'
      BY <2>1, <2>3 DEF Encoding
    <2>5. Sent => Sent'
      BY <2>1, <2>3 DEF Sent
    <2>6. Decoding => Decoding'
      <3>1. \A c, n : Comes(c, n) => Comes(c, n)'
        BY <2>1 DEF Comes, DecodedTo, Copied, OutGood
      <3> QED
        BY <2>1, <3>1 DEF Decoding
    <2> QED
      BY <2>1, <2>2, <2>4, <2>5, <2>6 DEF Base64Inv
  <1> QED
    BY <1>1, <1>2, <1>3, <1>4, Base64Encodes, Base64Sends, Base64Skips, Base64Decodes DEF Base64Next
-----------------------------------------------------------------------------
\* The images of the elements of a sequence, behind one another.

Images(h, s) == [i \in DOMAIN s |-> h[s[i]]]

LEMMA FlatType ==
    ASSUME NEW B, NEW seqs \in Seq(Seq(B))
    PROVE  FlattenSeq(seqs) \in Seq(B)
  <1> DEFINE T == {n \in Nat : \A q \in Seq(Seq(B)) : Len(q) = n => FlattenSeq(q) \in Seq(B)}
  <1>1. 0 \in T
    <2>1. ASSUME NEW q \in Seq(Seq(B)), Len(q) = 0 PROVE FlattenSeq(q) \in Seq(B)
      <3>1. q = <<>>
        BY <2>1, EmptySeq
      <3>2. FlattenSeq(<<>>) = <<>>
        BY DEF FlattenSeq
      <3> QED
        BY <3>1, <3>2, EmptySeq
    <2> QED
      BY <2>1
  <1>2. ASSUME NEW n \in Nat, n \in T PROVE n + 1 \in T
    <2>1. ASSUME NEW q \in Seq(Seq(B)), Len(q) = n + 1 PROVE FlattenSeq(q) \in Seq(B)
      <3>1. q # <<>>
        BY <2>1, EmptySeq
      <3>2. PICK s \in Seq(Seq(B)), e \in Seq(B) : q = Append(s, e)
        BY <3>1, SequenceEmptyOrAppend
      <3>3. Len(s) = n
        BY <2>1, <3>2, AppendProperties, LenProperties
      <3>4. FlattenSeq(s) \in Seq(B)
        BY <1>2, <3>3
      <3>5. FlattenSeq(q) = FlattenSeq(s) \o e
        BY <3>2, FlatMore
      <3> QED
        BY <3>4, <3>5, ConcatProperties
    <2> QED
      BY <2>1
  <1> HIDE DEF T
  <1>3. \A n \in Nat : n \in T
    BY <1>1, <1>2, Induction
  <1>4. Len(seqs) \in Nat
    BY LenProperties
  <1> QED
    BY <1>3, <1>4 DEF T

ImagesOf(x, B, h, s) ==
    x \in Seq(B) /\ Len(x) = Len(s) /\ \A i \in 1..Len(s) : x[i] = h[s[i]]

LEMMA ImagesAre ==
    ASSUME NEW A, NEW B, NEW h \in [A -> B], NEW s \in Seq(A)
    PROVE  ImagesOf(Images(h, s), B, h, s)
  <1>1. Len(s) \in Nat /\ DOMAIN s = 1..Len(s) /\ \A i \in 1..Len(s) : s[i] \in A
    BY LenProperties, ElementOfSeq
  <1>2. Images(h, s) \in [1..Len(s) -> B]
    BY <1>1 DEF Images
  <1>3. Images(h, s) \in Seq(B) /\ Len(Images(h, s)) = Len(s)
    BY <1>1, <1>2, FunctionIsSeq
  <1> QED
    BY <1>1, <1>3 DEF Images, ImagesOf

LEMMA Associates ==
    ASSUME NEW A, NEW s \in Seq(A), NEW t \in Seq(A), NEW u \in Seq(A)
    PROVE  (s \o t) \o u = s \o (t \o u)
  BY ConcatAssociative

LEMMA ImagesMore ==
    ASSUME NEW A, NEW B, NEW h \in [A -> B], NEW s \in Seq(A), NEW e \in A
    PROVE  Images(h, <<>>) = <<>> /\ Images(h, Append(s, e)) = Append(Images(h, s), h[e])
  <1>1. Images(h, <<>>) = <<>>
    BY DEF Images
  <1>a. PICK x : x = Images(h, Append(s, e))
    OBVIOUS
  <1> DEFINE t == Append(s, e)
             y == Append(Images(h, s), h[e])
  <1>2. t \in Seq(A) /\ Len(t) = Len(s) + 1 /\ t[Len(s) + 1] = e /\ \A i \in 1..Len(s) : t[i] = s[i]
    BY AppendProperties
  <1>3. /\ Images(h, s) \in Seq(B) /\ Len(Images(h, s)) = Len(s) /\ Len(s) \in Nat
        /\ \A i \in 1..Len(s) : Images(h, s)[i] = h[s[i]]
    BY ImagesAre, LenProperties DEF ImagesOf
  <1>b. x = Images(h, t)
    BY <1>a
  <1> HIDE DEF t
  <1>4. x \in Seq(B) /\ Len(x) = Len(s) + 1 /\ \A i \in 1..(Len(s) + 1) : x[i] = h[t[i]]
    <2>1. \A q \in Seq(A) : ImagesOf(Images(h, q), B, h, q)
      BY ImagesAre
    <2>2. ImagesOf(x, B, h, t)
      BY <1>2, <1>b, <2>1
    <2> QED
      BY <1>2, <2>2 DEF ImagesOf
  <1>5. h[e] \in B
    OBVIOUS
  <1>6. /\ y \in Seq(B) /\ Len(y) = Len(s) + 1 /\ y[Len(s) + 1] = h[e]
        /\ \A i \in 1..Len(s) : y[i] = h[s[i]]
    BY <1>3, <1>5, AppendProperties
  <1> HIDE DEF y
  <1>7. ASSUME NEW i \in 1..(Len(s) + 1) PROVE x[i] = y[i]
    <2>1. CASE i \in 1..Len(s)
      BY <1>2, <1>4, <1>6, <2>1
    <2>2. CASE i = Len(s) + 1
      BY <1>2, <1>4, <1>6, <2>2
    <2> QED
      BY <1>3, <2>1, <2>2
  <1>8. x = y
    BY <1>4, <1>6, <1>7, SeqEqual
  <1> QED
    BY <1>1, <1>8, <1>a DEF y

Gives(h, A, B) == h \in [A -> Seq(B)]

LEMMA FlatImage ==
    ASSUME NEW A, NEW B, NEW h, Gives(h, A, B), NEW q \in Seq(A), NEW e \in A
    PROVE  FlattenSeq(Images(h, Append(q, e))) = FlattenSeq(Images(h, q)) \o h[e]
  <1>1. h \in [A -> Seq(B)]
    BY DEF Gives
  <1>2. Images(h, q) \in Seq(Seq(B)) /\ h[e] \in Seq(B)
    BY <1>1, ImagesAre DEF ImagesOf
  <1>3. Images(h, Append(q, e)) = Append(Images(h, q), h[e])
    BY <1>1, ImagesMore
  <1> QED
    BY <1>2, <1>3, FlatMore

\* The images of two sequences, one behind the other.

LEMMA FlatImages ==
    ASSUME NEW A, NEW B, NEW h, Gives(h, A, B), NEW s \in Seq(A), NEW t \in Seq(A)
    PROVE  FlattenSeq(Images(h, s \o t)) = FlattenSeq(Images(h, s)) \o FlattenSeq(Images(h, t))
  <1>0. h \in [A -> Seq(B)]
    BY DEF Gives
  <1>1. \A q \in Seq(A) : Images(h, q) \in Seq(Seq(B)) /\ FlattenSeq(Images(h, q)) \in Seq(B)
    BY <1>0, ImagesAre, FlatType DEF ImagesOf
  <1>2. ASSUME NEW q \in Seq(A), NEW e \in A
        PROVE  FlattenSeq(Images(h, Append(q, e))) = FlattenSeq(Images(h, q)) \o h[e]
    BY FlatImage
  <1> DEFINE All(n) == \A q \in Seq(A) : Len(q) = n =>
                 FlattenSeq(Images(h, s \o q)) = FlattenSeq(Images(h, s)) \o FlattenSeq(Images(h, q))
             T == {n \in Nat : All(n)}
  <1>3. 0 \in T
    <2>1. ASSUME NEW q \in Seq(A), Len(q) = 0
          PROVE  FlattenSeq(Images(h, s \o q)) = FlattenSeq(Images(h, s)) \o FlattenSeq(Images(h, q))
      <3>1. q = <<>> /\ s \o q = s
        BY <2>1, EmptySeq, ConcatEmptySeq
      <3>2. Images(h, <<>>) = <<>>
        BY DEF Images
      <3>3. FlattenSeq(<<>>) = <<>>
        BY DEF FlattenSeq
      <3> QED
        BY <1>1, <3>1, <3>2, <3>3, ConcatEmptySeq
    <2> QED
      BY <2>1
  <1>4. ASSUME NEW n \in Nat, n \in T PROVE n + 1 \in T
    <2>1. ASSUME NEW q \in Seq(A), Len(q) = n + 1
          PROVE  FlattenSeq(Images(h, s \o q)) = FlattenSeq(Images(h, s)) \o FlattenSeq(Images(h, q))
      <3>1. q # <<>>
        BY <2>1, EmptySeq
      <3>2. PICK r \in Seq(A), e \in A : q = Append(r, e)
        BY <3>1, SequenceEmptyOrAppend
      <3>3. Len(r) = n
        BY <2>1, <3>2, AppendProperties, LenProperties
      <3>4. FlattenSeq(Images(h, s \o r)) = FlattenSeq(Images(h, s)) \o FlattenSeq(Images(h, r))
        BY <1>4, <3>3
      <3>5. s \o r \in Seq(A) /\ <<e>> \in Seq(A)
        BY ConcatProperties
      <3>6. s \o q = Append(s \o r, e)
        <4>1. q = r \o <<e>>
          BY <3>2, AppendIsConcat
        <4>2. (s \o r) \o <<e>> = s \o (r \o <<e>>)
          <5>1. PICK u : u = <<e>>
            OBVIOUS
          <5>2. u \in Seq(A)
            BY <3>5, <5>1
          <5>3. (s \o r) \o u = s \o (r \o u)
            BY <5>2, Associates, SMTT(60)
          <5> QED
            BY <5>1, <5>3
        <4>3. Append(s \o r, e) = (s \o r) \o <<e>>
          BY <3>5, AppendIsConcat
        <4> QED
          BY <4>1, <4>2, <4>3
      <3>7. FlattenSeq(Images(h, s \o q)) = FlattenSeq(Images(h, s \o r)) \o h[e]
        BY <1>2, <3>5, <3>6
      <3>8. FlattenSeq(Images(h, q)) = FlattenSeq(Images(h, r)) \o h[e]
        BY <1>2, <3>2
      <3>0. PICK a, b, c : a = FlattenSeq(Images(h, s)) /\ b = FlattenSeq(Images(h, r)) /\ c = h[e]
        OBVIOUS
      <3>9. a \in Seq(B) /\ b \in Seq(B) /\ c \in Seq(B)
        BY <1>0, <1>1, <3>0
      <3>10. (a \o b) \o c = a \o (b \o c)
        BY <3>9, Associates, SMTT(60)
      <3> QED
        BY <3>0, <3>4, <3>7, <3>8, <3>10
    <2> QED
      BY <2>1
  <1> HIDE DEF T
  <1>5. \A n \in Nat : n \in T
    BY <1>3, <1>4, Induction
  <1>6. Len(t) \in Nat
    BY LenProperties
  <1> QED
    BY <1>1, <1>5, <1>6 DEF T

-----------------------------------------------------------------------------
\* cat: what is put out is the text of each file, marked byte by byte.

CatFile == [device : BOOLEAN, bytes : Seq(Byte)]

\* The marks of one byte, and of a file, as functions.
MarkOf(d) == [b \in Byte |-> IF d /\ "e" \in flags
                               THEN (IF b = Newline THEN <<36, Newline>> ELSE <<b>>)
                               ELSE Shown(b)]
TextOf == [f \in CatFile |-> MarkedText(f)]

CatType ==
    /\ flags \in SUBSET {"e", "t"} /\ operands \in Seq(CatFile) /\ device \in BOOLEAN
    /\ passed \in Seq(CatFile) /\ source \in Seq(Byte) /\ taken \in 0..Len(source)
    /\ cpc = "read" => passed # <<>> /\ passed[Len(passed)].device = device
    /\ OutGood

CatInv == CatType /\ CatImage

LEMMA CatStarts == Init /\ tool = "cat" => CatInv
  <1> SUFFICES ASSUME Init, tool = "cat" PROVE CatInv
    OBVIOUS
  <1>1. PICK r \in CatRuns : CatInit(r.flags, r.operands)
    BY DEF Init, InitDd, InitTee, InitCat, InitBase64, InitDos2unix, InitExecInPipe, InitShell,
           InitMonicall, InitChecksum, InitBox
  <1>2. sinks = Stdout /\ source = <<>> /\ taken = 0
    BY DEF Init, InitDd, InitTee, InitCat, InitBase64, InitDos2unix, InitExecInPipe, InitShell,
           InitMonicall, InitChecksum, InitBox
  <1>3. r.flags \in SUBSET {"e", "t"} /\ r.operands \in Seq(CatFile)
    BY CatRunsAssumption DEF CatFile
  <1>4. OutGood /\ sinks["stdout"].bytes = <<>>
    BY <1>2, EmptySeq DEF OutGood, Stdout, Sink
  <1>5. taken \in 0..Len(source) /\ source \in Seq(Byte) /\ <<>> \in Seq(CatFile)
    BY <1>2, EmptySeq
  <1>6. CatType
    BY <1>1, <1>3, <1>4, <1>5 DEF CatInit, CatType
  <1>7. FlattenSeq([i \in DOMAIN passed |-> MarkedText(passed[i])]) = <<>>
    <2>1. [i \in DOMAIN passed |-> MarkedText(passed[i])] = <<>>
      BY <1>1 DEF CatInit
    <2>2. FlattenSeq(<<>>) = <<>>
      BY DEF FlattenSeq
    <2> QED
      BY <2>1, <2>2
  <1> QED
    BY <1>4, <1>6, <1>7 DEF CatInv, CatImage

LEMMA MarksAre ==
    ASSUME flags \in SUBSET {"e", "t"}
    PROVE  /\ \A d \in BOOLEAN : MarkOf(d) \in [Byte -> Seq(Byte)]
           /\ \A f \in CatFile : MarkedText(f) = FlattenSeq(Images(MarkOf(f.device), f.bytes))
           /\ TextOf \in [CatFile -> Seq(Byte)]
           /\ \A q \in Seq(CatFile) : [i \in DOMAIN q |-> MarkedText(q[i])] = Images(TextOf, q)
  <1>1. ASSUME NEW b \in Byte
        PROVE  <<b>> \in Seq(Byte) /\ <<36, Newline>> \in Seq(Byte) /\ Shown(b) \in Seq(Byte)
    <2>1. 36 \in Byte /\ Newline \in Byte /\ 94 \in Byte /\ 73 \in Byte
      BY DEF Byte, Newline
    <2>2. /\ <<b>> \in Seq(Byte) /\ <<36, Newline>> \in Seq(Byte) /\ <<36>> \in Seq(Byte)
          /\ <<94, 73>> \in Seq(Byte) /\ <<>> \in Seq(Byte)
      BY <2>1
    <2> DEFINE x == IF "e" \in flags /\ b = Newline THEN <<36>> ELSE <<>>
               y == IF "t" \in flags /\ b = Tab THEN <<94, 73>> ELSE <<b>>
    <2>3. x \in Seq(Byte) /\ y \in Seq(Byte) /\ Shown(b) = x \o y
      BY <2>2 DEF Shown
    <2> HIDE DEF x, y
    <2> QED
      BY <2>2, <2>3, ConcatProperties
  <1>2. ASSUME NEW d \in BOOLEAN PROVE MarkOf(d) \in [Byte -> Seq(Byte)]
    BY <1>1 DEF MarkOf
  <1>3. ASSUME NEW f \in CatFile
        PROVE  MarkedText(f) = FlattenSeq(Images(MarkOf(f.device), f.bytes)) /\ MarkedText(f) \in Seq(Byte)
    <2>1. f.device \in BOOLEAN /\ f.bytes \in Seq(Byte)
      BY DEF CatFile
    <2>2. \A i \in DOMAIN f.bytes : f.bytes[i] \in Byte
      BY <2>1, LenProperties, ElementOfSeq
    <2>3. MarkedText(f) = FlattenSeq(Images(MarkOf(f.device), f.bytes))
      BY <2>2 DEF MarkedText, Images, MarkOf
    <2>4. MarkOf(f.device) \in [Byte -> Seq(Byte)]
      BY <1>2, <2>1
    <2>5. Images(MarkOf(f.device), f.bytes) \in Seq(Seq(Byte))
      BY <2>1, <2>4, ImagesAre DEF ImagesOf
    <2> QED
      BY <2>3, <2>5, FlatType
  <1>4. TextOf \in [CatFile -> Seq(Byte)]
    BY <1>3 DEF TextOf
  <1>5. ASSUME NEW q \in Seq(CatFile)
        PROVE  [i \in DOMAIN q |-> MarkedText(q[i])] = Images(TextOf, q)
    <2>1. \A i \in DOMAIN q : q[i] \in CatFile
      BY LenProperties, ElementOfSeq
    <2> QED
      BY <2>1 DEF Images, TextOf
  <1> QED
    BY <1>2, <1>3, <1>4, <1>5

\* The files that were passed, when one is opened and when more of it is read.
LEMMA TextMore ==
    ASSUME flags \in SUBSET {"e", "t"}, NEW q \in Seq(CatFile), NEW f \in CatFile
    PROVE  FlattenSeq(Images(TextOf, Append(q, f))) = FlattenSeq(Images(TextOf, q)) \o MarkedText(f)
  <1>1. TextOf \in [CatFile -> Seq(Byte)] /\ TextOf[f] = MarkedText(f)
    BY MarksAre DEF TextOf
  <1>2. Images(TextOf, q) \in Seq(Seq(Byte))
    BY <1>1, ImagesAre DEF ImagesOf
  <1>3. Images(TextOf, Append(q, f)) = Append(Images(TextOf, q), MarkedText(f))
    BY <1>1, ImagesMore
  <1>4. MarkedText(f) \in Seq(Byte)
    BY <1>1
  <1> QED
    BY <1>2, <1>3, <1>4, FlatMore

LEMMA ToSetOfBoth ==
    ASSUME NEW A, NEW s \in Seq(A), NEW t \in Seq(A)
    PROVE  ToSet(s \o t) = ToSet(s) \cup ToSet(t)
  <1> DEFINE z == s \o t
  <1>1. /\ Len(z) = Len(s) + Len(t) /\ Len(s) \in Nat /\ Len(t) \in Nat
        /\ \A i \in 1..Len(s) + Len(t) : z[i] = IF i <= Len(s) THEN s[i] ELSE t[i - Len(s)]
        /\ DOMAIN z = 1..Len(s) + Len(t) /\ DOMAIN s = 1..Len(s) /\ DOMAIN t = 1..Len(t)
    BY ConcatProperties, LenProperties
  <1> HIDE DEF z
  <1>2. ASSUME NEW i \in DOMAIN s PROVE s[i] \in ToSet(z)
    <2>1. i \in DOMAIN z /\ z[i] = s[i]
      BY <1>1
    <2> QED
      BY <2>1 DEF ToSet
  <1>3. ASSUME NEW i \in DOMAIN t PROVE t[i] \in ToSet(z)
    <2>1. i + Len(s) \in DOMAIN z /\ z[i + Len(s)] = t[i]
      BY <1>1
    <2> QED
      BY <2>1 DEF ToSet
  <1>4. ASSUME NEW i \in DOMAIN z PROVE z[i] \in ToSet(s) \cup ToSet(t)
    <2>1. CASE i <= Len(s)
      <3>1. i \in DOMAIN s /\ z[i] = s[i]
        BY <1>1, <2>1
      <3> QED
        BY <3>1 DEF ToSet
    <2>2. CASE i > Len(s)
      <3>1. i - Len(s) \in DOMAIN t /\ z[i] = t[i - Len(s)]
        BY <1>1, <2>2
      <3> QED
        BY <3>1 DEF ToSet
    <2> QED
      BY <1>1, <2>1, <2>2
  <1>5. ToSet(z) \subseteq ToSet(s) \cup ToSet(t)
    BY <1>4 DEF ToSet
  <1>6. ToSet(s) \subseteq ToSet(z) /\ ToSet(t) \subseteq ToSet(z)
    <2>1. \A x \in ToSet(s) : x \in ToSet(z)
      BY <1>2 DEF ToSet
    <2>2. \A x \in ToSet(t) : x \in ToSet(z)
      BY <1>3 DEF ToSet
    <2> QED
      BY <2>1, <2>2
  <1>7. ToSet(z) = ToSet(s) \cup ToSet(t)
    BY <1>5, <1>6
  <1> QED
    BY <1>7 DEF z

\* More of the file that is read last, and what is put out of it.
LEMMA CatPasses ==
    ASSUME CatInv, cpc = "read", NEW c \in Seq(Byte), NEW shown \in Seq(Byte),
           Emit(shown), Passed(c), UNCHANGED <<flags, device>>,
           (device => flags # {"t"} /\ 0 \notin ToSet(c))
              => shown = FlattenSeq(Images(MarkOf(device), c))
    PROVE  /\ OutGood' /\ CatImage'
           /\ passed' \in Seq(CatFile) /\ passed' # <<>> /\ passed'[Len(passed')].device = device'
  <1> DEFINE o == sinks["stdout"].bytes
             N == Len(passed)
  <1>1. /\ flags \in SUBSET {"e", "t"} /\ passed \in Seq(CatFile) /\ passed # <<>>
        /\ passed[N].device = device /\ OutGood /\ device \in BOOLEAN
    BY DEF CatInv, CatType
  <1>2. PICK q \in Seq(CatFile), f \in CatFile : passed = Append(q, f)
    BY <1>1, SequenceEmptyOrAppend
  <1>3. N = Len(q) + 1 /\ passed[N] = f /\ Len(q) \in Nat /\ f.device = device
        /\ DOMAIN passed = 1..N /\ \A i \in 1..Len(q) : passed[i] = q[i]
    BY <1>1, <1>2, AppendProperties, LenProperties
  <1> DEFINE g == [f EXCEPT !.bytes = @ \o c]
  <1>4. f = [device |-> f.device, bytes |-> f.bytes] /\ f.bytes \in Seq(Byte) /\ f.device \in BOOLEAN
    BY <1>2 DEF CatFile
  <1>5. f.bytes \o c \in Seq(Byte)
    BY <1>4, ConcatProperties
  <1>6. g \in CatFile /\ g.device = device /\ g.bytes = f.bytes \o c
    BY <1>3, <1>4, <1>5 DEF CatFile
  <1>7. passed' = [passed EXCEPT ![N] = g]
    BY <1>3, <1>4 DEF Passed
  <1> HIDE DEF g
  <1>8. passed' = Append(q, g)
    <2>1. /\ passed' \in Seq(CatFile) /\ Len(passed') = N
          /\ \A i \in 1..N : passed'[i] = IF i = N THEN g ELSE passed[i]
      BY <1>1, <1>3, <1>6, <1>7, ExceptSeq
    <2>2. /\ Append(q, g) \in Seq(CatFile) /\ Len(Append(q, g)) = N /\ Append(q, g)[N] = g
          /\ \A i \in 1..Len(q) : Append(q, g)[i] = q[i]
      BY <1>2, <1>3, <1>6, AppendProperties
    <2>3. \A i \in 1..N : passed'[i] = Append(q, g)[i]
      BY <1>3, <2>1, <2>2
    <2> HIDE DEF N
    <2> QED
      BY <2>1, <2>2, <2>3, SeqEqual
  <1>9. passed' \in Seq(CatFile) /\ passed' # <<>> /\ passed'[Len(passed')].device = device'
    <2>1. passed'[Len(passed')] = g /\ passed' \in Seq(CatFile) /\ passed' # <<>>
      BY <1>2, <1>6, <1>8, AppendProperties
    <2> QED
      BY <1>6, <2>1
  <1>10. OutGood' /\ (~lost' => ~lost /\ sinks'["stdout"].bytes = o \o shown)
    <2>1. CASE shown = <<>> /\ UNCHANGED sinks /\ UNCHANGED lost
      <3>1. o \in Seq(Byte)
        BY <1>1 DEF OutGood
      <3> HIDE DEF o
      <3>2. o \o <<>> = o
        BY <3>1, ConcatEmptySeq
      <3> QED
        BY <1>1, <2>1, <3>2 DEF OutGood, o
    <2>2. CASE Write("stdout", shown) /\ UNCHANGED lost
      BY <1>1, <2>2, PutOut
    <2>3. CASE lost' = TRUE /\ UNCHANGED sinks
      BY <1>1, <2>3 DEF OutGood
    <2> QED
      BY <2>1, <2>2, <2>3 DEF Emit
  <1>11. ASSUME ~lost', \A i \in DOMAIN passed' : UncutText(passed[i])'
         PROVE  sinks'["stdout"].bytes = FlattenSeq([i \in DOMAIN passed |-> MarkedText(passed[i])])'
    <2>1. \A x : UncutText(x)' <=> UncutText(x)
      BY DEF UncutText
    <2>2. \A x : MarkedText(x)' = MarkedText(x)
      BY DEF MarkedText, Shown
    <2>3. UncutText(g) /\ \A i \in DOMAIN q : UncutText(q[i])
      <3>1. Len(passed') = N /\ DOMAIN passed' = 1..N /\ passed'[N] = g /\ DOMAIN q = 1..Len(q)
            /\ \A i \in 1..Len(q) : passed'[i] = q[i]
        BY <1>2, <1>3, <1>6, <1>8, AppendProperties, LenProperties
      <3>2. \A i \in 1..N : UncutText(passed'[i])
        BY <1>11, <3>1 DEF UncutText
      <3> QED
        BY <1>3, <3>1, <3>2
    <2>4. device => flags # {"t"} /\ 0 \notin ToSet(c) /\ 0 \notin ToSet(f.bytes)
      <3>1. ToSet(f.bytes \o c) = ToSet(f.bytes) \cup ToSet(c)
        BY <1>4, ToSetOfBoth
      <3>2. device => flags # {"t"} /\ 0 \notin ToSet(f.bytes \o c)
        BY <1>6, <2>3 DEF UncutText
      <3> QED
        BY <3>1, <3>2
    <2>5. \A i \in DOMAIN passed : UncutText(passed[i])
      BY <1>3, <2>3, <2>4, LenProperties DEF UncutText
    <2>6. o = FlattenSeq(Images(TextOf, q)) \o MarkedText(f)
      <3>1. o = FlattenSeq([i \in DOMAIN passed |-> MarkedText(passed[i])])
        BY <1>10, <1>11, <2>5 DEF CatInv, CatImage
      <3>2. o = FlattenSeq(Images(TextOf, passed))
        BY <1>1, <3>1, MarksAre
      <3> QED
        BY <1>1, <1>2, <3>2, TextMore
    <2>7. MarkedText(g) = MarkedText(f) \o shown
      <3>1. MarkOf(device) \in [Byte -> Seq(Byte)]
        BY <1>1, MarksAre
      <3> DEFINE h == MarkOf(device)
      <3> HIDE DEF h
      <3>2. FlattenSeq(Images(h, f.bytes \o c)) = FlattenSeq(Images(h, f.bytes)) \o FlattenSeq(Images(h, c))
        <4>1. Gives(h, Byte, Byte)
          BY <3>1 DEF h, Gives
        <4>2. ASSUME NEW x \in Seq(Byte), NEW y \in Seq(Byte)
              PROVE  FlattenSeq(Images(h, x \o y)) = FlattenSeq(Images(h, x)) \o FlattenSeq(Images(h, y))
          BY <4>1, FlatImages
        <4> QED
          BY <1>4, <4>2
      <3>3. MarkedText(g) = FlattenSeq(Images(h, g.bytes)) /\ MarkedText(f) = FlattenSeq(Images(h, f.bytes))
        BY <1>1, <1>2, <1>3, <1>6, MarksAre DEF h
      <3> QED
        BY <1>6, <2>4, <3>2, <3>3 DEF h
    <2>8. sinks'["stdout"].bytes = FlattenSeq(Images(TextOf, q)) \o MarkedText(g)
      <3> DEFINE a == FlattenSeq(Images(TextOf, q))
                 b == MarkedText(f)
      <3>1. a \in Seq(Byte) /\ b \in Seq(Byte) /\ shown \in Seq(Byte)
        <4>1. TextOf \in [CatFile -> Seq(Byte)] /\ MarkedText(f) = TextOf[f]
          BY <1>1, <1>2, MarksAre DEF TextOf
        <4>2. Images(TextOf, q) \in Seq(Seq(Byte))
          BY <1>2, <4>1, ImagesAre DEF ImagesOf
        <4>3. a \in Seq(Byte)
          BY <4>2, FlatType
        <4>4. b \in Seq(Byte)
          BY <1>2, <4>1
        <4> QED
          BY <4>3, <4>4
      <3> HIDE DEF a, b
      <3>2. (a \o b) \o shown = a \o (b \o shown)
        BY <3>1, Associates, SMTT(60)
      <3>3. sinks'["stdout"].bytes = (a \o b) \o shown
        BY <1>10, <1>11, <2>6 DEF a, b
      <3> QED
        BY <2>7, <3>2, <3>3 DEF a, b
    <2>9. FlattenSeq([i \in DOMAIN passed |-> MarkedText(passed[i])])' = FlattenSeq(Images(TextOf, Append(q, g)))
      <3>1. [i \in DOMAIN passed' |-> MarkedText(passed'[i])] = Images(TextOf, passed')
        BY <1>1, <1>9, MarksAre
      <3>2. [i \in DOMAIN passed |-> MarkedText(passed[i])]' = [i \in DOMAIN passed' |-> MarkedText(passed'[i])]
        BY DEF MarkedText, Shown
      <3> QED
        BY <1>8, <3>1, <3>2
    <2> QED
      BY <1>1, <1>2, <1>6, <2>8, <2>9, TextMore
  <1> QED
    BY <1>9, <1>10, <1>11 DEF CatImage

LEMMA FlatOne ==
    ASSUME NEW A, NEW B, NEW h, Gives(h, A, B), NEW e \in A
    PROVE  FlattenSeq(Images(h, <<e>>)) = h[e]
  <1>1. h \in [A -> Seq(B)] /\ h[e] \in Seq(B)
    BY DEF Gives
  <1>2. Images(h, <<e>>) = <<h[e]>>
    BY <1>1 DEF Images
  <1>3. <<h[e]>> = Append(<<>>, h[e]) /\ <<>> \in Seq(Seq(B))
    BY <1>1, EmptySeq
  <1>4. FlattenSeq(Append(<<>>, h[e])) = FlattenSeq(<<>>) \o h[e] /\ FlattenSeq(<<>>) = <<>>
    BY <1>1, <1>3, FlatMore
  <1>5. <<>> \o h[e] = h[e]
    BY <1>1, ConcatEmptySeq
  <1> QED
    BY <1>2, <1>3, <1>4, <1>5

\* A buffer of a device, whose text nothing cuts, shows what its bytes show.
LEMMA ShownLinesAre ==
    ASSUME flags \in SUBSET {"e", "t"}, NEW c \in Seq(Byte)
    PROVE  /\ ShownLines(c) \in Seq(Byte)
           /\ flags # {"t"} /\ 0 \notin ToSet(c) =>
                ShownLines(c) = FlattenSeq(Images(MarkOf(TRUE), c))
  <1> DEFINE nul == {i \in DOMAIN c : c[i] = 0}
             text0 == IF nul = {} THEN c ELSE SubSeq(c, 1, Min(nul) - 1)
             whole == Max({0} \cup {i \in DOMAIN text0 : text0[i] = Newline})
             marked == [i \in DOMAIN text0 |->
                           IF "e" \in flags /\ text0[i] = Newline THEN <<36, Newline>>
                           ELSE IF flags = {"t"} /\ i <= whole /\ text0[i] = Tab THEN <<94, 73>>
                           ELSE <<text0[i]>>]
  <1>1. ShownLines(c) = FlattenSeq(marked)
    BY DEF ShownLines
  <1>2. DOMAIN c = 1..Len(c) /\ Len(c) \in Nat
    BY LenProperties
  <1>3. text0 \in Seq(Byte)
    <2>1. CASE nul = {}
      BY <2>1
    <2>2. CASE nul # {}
      <3>1. nul \subseteq Nat
        BY <1>2
      <3> DEFINE n == Min(nul)
      <3>2. n \in nul
        <4>1. PICK x \in nul : \A y \in nul : ~(y < x)
          BY <2>2, <3>1, LeastNumber
        <4>2. x \in nul /\ \A y \in nul : x <= y
          BY <3>1, <4>1
        <4> HIDE DEF nul
        <4> QED
          BY <4>2 DEF Min
      <3>3. n \in 1..Len(c)
        BY <1>2, <3>2
      <3> HIDE DEF n
      <3>4. \A i \in 1..(n - 1) : i \in 1..Len(c) /\ c[i] \in Byte
        BY <1>2, <3>3, ElementOfSeq
      <3>5. SubSeq(c, 1, n - 1) \in Seq(Byte)
        BY <3>3, <3>4, SubSeqProperties
      <3> QED
        BY <2>2, <3>5 DEF n
    <2> QED
      BY <2>1, <2>2
  <1> HIDE DEF nul, text0
  <1>4. DOMAIN text0 = 1..Len(text0) /\ Len(text0) \in Nat /\ \A i \in 1..Len(text0) : text0[i] \in Byte
    BY <1>3, LenProperties, ElementOfSeq
  <1>5. ASSUME NEW b \in Byte
        PROVE  <<b>> \in Seq(Byte) /\ <<36, Newline>> \in Seq(Byte) /\ <<94, 73>> \in Seq(Byte)
    BY DEF Byte, Newline
  <1> HIDE DEF whole
  <1>6. marked \in [1..Len(text0) -> Seq(Byte)]
    BY <1>4, <1>5
  <1>7. marked \in Seq(Seq(Byte))
    BY <1>4, <1>6, FunctionIsSeq
  <1>8. ASSUME flags # {"t"}, 0 \notin ToSet(c)
        PROVE  marked = Images(MarkOf(TRUE), c)
    <2>1. nul = {}
      BY <1>8 DEF nul, ToSet
    <2>2. text0 = c
      BY <2>1 DEF text0
    <2>3. ASSUME NEW i \in DOMAIN c PROVE marked[i] = MarkOf(TRUE)[c[i]]
      <3>1. c[i] \in Byte /\ marked[i] = IF "e" \in flags /\ c[i] = Newline THEN <<36, Newline>> ELSE <<c[i]>>
        BY <1>4, <1>8, <2>2
      <3>2. MarkOf(TRUE)[c[i]] = IF "e" \in flags THEN (IF c[i] = Newline THEN <<36, Newline>> ELSE <<c[i]>>)
                                 ELSE Shown(c[i])
        BY <3>1 DEF MarkOf
      <3>3. "e" \notin flags => Shown(c[i]) = <<c[i]>>
        <4>1. "e" \notin flags => "t" \notin flags
          BY <1>8
        <4>2. <<>> \o <<c[i]>> = <<c[i]>>
          BY <3>1, <1>5, ConcatEmptySeq
        <4> QED
          BY <4>1, <4>2 DEF Shown
      <3> QED
        BY <3>1, <3>2, <3>3
    <2>4. marked = [i \in DOMAIN c |-> marked[i]]
      BY <2>2
    <2> HIDE DEF marked
    <2> QED
      BY <2>3, <2>4 DEF Images
  <1> QED
    BY <1>1, <1>7, <1>8, FlatType

LEMMA CatGoesOn == CatInv /\ (CatNext \/ UNCHANGED <<streamVars, catVars>>) => CatInv'
  <1> SUFFICES ASSUME CatInv, CatNext \/ UNCHANGED <<streamVars, catVars>> PROVE CatInv'
    OBVIOUS
  <1>1. /\ flags \in SUBSET {"e", "t"} /\ operands \in Seq(CatFile) /\ device \in BOOLEAN
        /\ passed \in Seq(CatFile) /\ source \in Seq(Byte) /\ taken \in 0..Len(source)
        /\ Len(source) \in Nat
        /\ cpc = "read" => passed # <<>> /\ passed[Len(passed)].device = device
        /\ OutGood
    BY LenProperties DEF CatInv, CatType
  <1>2. CASE UNCHANGED <<sinks, flags, device, passed, lost>> /\ operands' \in Seq(CatFile)
             /\ UNCHANGED <<source, taken>> /\ cpc' \in {cpc, "next", "exit"}
    <2>1. CatType'
      BY <1>1, <1>2 DEF CatType, OutGood
    <2>2. CatImage'
      <3>1. CatImage
        BY DEF CatInv
      <3> QED
        BY <1>2, <3>1 DEF CatImage, UncutText, MarkedText, Shown
    <2> QED
      BY <2>1, <2>2 DEF CatInv
  <1>3. CASE CatOpen
    <2> DEFINE f == [device |-> Head(operands).device, bytes |-> <<>>]
    <2>1. /\ operands' \in Seq(CatFile) /\ Head(operands) \in CatFile
      BY <1>1, <1>3, HeadTailProperties DEF CatOpen
    <2>2. Head(operands).device \in BOOLEAN /\ Head(operands).bytes \in Seq(Byte)
      BY <2>1 DEF CatFile
    <2>3. f \in CatFile
      BY <2>2, EmptySeq DEF CatFile
    <2>4. /\ passed' = Append(passed, f) /\ device' = f.device /\ UNCHANGED <<sinks, flags, lost>>
          /\ source' = Head(operands).bytes /\ taken' = 0 /\ cpc' = "read"
      BY <1>3 DEF CatOpen
    <2> HIDE DEF f
    <2>5. /\ passed' \in Seq(CatFile) /\ passed' # <<>> /\ passed'[Len(passed')] = f
          /\ Len(passed') = Len(passed) + 1 /\ \A i \in 1..Len(passed) : passed'[i] = passed[i]
      BY <1>1, <2>3, <2>4, AppendProperties
    <2>6. CatType'
      <3>1. taken' \in 0..Len(source') /\ device' \in BOOLEAN /\ OutGood'
        BY <1>1, <2>2, <2>4, LenProperties DEF f, OutGood
      <3> QED
        BY <1>1, <2>1, <2>2, <2>4, <2>5, <3>1 DEF CatType
    <2>7. CatImage'
      <3>1. MarkedText(f) = <<>>
        <4>1. f.bytes = <<>>
          BY DEF f
        <4>2. FlattenSeq(<<>>) = <<>>
          BY DEF FlattenSeq
        <4> QED
          BY <4>1, <4>2 DEF MarkedText
      <3>2. [i \in DOMAIN passed' |-> MarkedText(passed'[i])] = Images(TextOf, passed')
            /\ [i \in DOMAIN passed |-> MarkedText(passed[i])] = Images(TextOf, passed)
        BY <1>1, <2>5, MarksAre
      <3>3. [i \in DOMAIN passed |-> MarkedText(passed[i])]' = [i \in DOMAIN passed' |-> MarkedText(passed'[i])]
        BY <2>4 DEF MarkedText, Shown
      <3> DEFINE a == FlattenSeq(Images(TextOf, passed))
      <3>4. FlattenSeq(Images(TextOf, passed')) = a \o <<>>
        BY <1>1, <2>3, <2>4, <3>1, TextMore
      <3>5. ASSUME ~lost, \A i \in DOMAIN passed' : UncutText(passed[i])' PROVE sinks["stdout"].bytes = a
        <4>1. \A x : UncutText(x)' <=> UncutText(x)
          BY <2>4 DEF UncutText
        <4>2. DOMAIN passed = 1..Len(passed) /\ DOMAIN passed' = 1..(Len(passed) + 1) /\ Len(passed) \in Nat
          BY <1>1, <2>5, LenProperties
        <4>3. \A i \in DOMAIN passed : UncutText(passed[i])
          <5> SUFFICES ASSUME NEW i \in DOMAIN passed PROVE UncutText(passed[i])
            OBVIOUS
          <5>1. i \in DOMAIN passed' /\ passed'[i] = passed[i]
            BY <2>5, <4>2
          <5> QED
            BY <2>4, <3>5, <5>1 DEF UncutText
        <4> QED
          BY <3>2, <3>5, <4>3 DEF CatInv, CatImage
      <3>6. ASSUME sinks["stdout"].bytes = a PROVE a \o <<>> = a
        <4>1. a \in Seq(Byte)
          BY <1>1, <3>6 DEF OutGood
        <4> HIDE DEF a
        <4> QED
          BY <4>1, ConcatEmptySeq
      <3> HIDE DEF a
      <3>7. ASSUME ~lost', \A i \in DOMAIN passed' : UncutText(passed[i])'
            PROVE  sinks'["stdout"].bytes = FlattenSeq([i \in DOMAIN passed |-> MarkedText(passed[i])])'
        BY <2>4, <3>2, <3>3, <3>4, <3>5, <3>6, <3>7
      <3> QED
        BY <3>7 DEF CatImage
    <2> QED
      BY <2>6, <2>7 DEF CatInv
  <1>4. CASE CatRegular
    <2> DEFINE b == source[taken + 1]
    <2>1. /\ cpc = "read" /\ ~device /\ Left > 0 /\ Emit(Shown(b)) /\ Passed(Coming(1))
          /\ taken' = taken + 1 /\ UNCHANGED <<source, flags, operands, device, cpc>>
      BY <1>4 DEF CatRegular
    <2>2. taken + 1 \in 1..Len(source)
      BY <1>1, <2>1 DEF Left
    <2>3. b \in Byte
      BY <1>1, <2>2, ElementOfSeq
    <2>4. Coming(1) = <<b>>
      <3> DEFINE k == taken + 1
      <3>1. IsPart(Byte, SubSeq(source, k, k), source, k, k)
        BY <1>1, <2>2, Part
      <3>2. k - k + 1 = 1 /\ k + 1 - 1 = k
        BY <1>1
      <3> HIDE DEF k
      <3>3. /\ SubSeq(source, k, k) \in Seq(Byte) /\ Len(SubSeq(source, k, k)) = 1
            /\ SubSeq(source, k, k)[1] = source[k]
        BY <3>1, <3>2 DEF IsPart
      <3> DEFINE u == SubSeq(source, k, k)
                 v == <<source[k]>>
      <3>5. source[k] \in Byte
        BY <2>3 DEF k
      <3>6. v \in Seq(Byte) /\ Len(v) = 1 /\ \A i \in 1..1 : v[i] = source[k]
        BY <3>5
      <3>7. u \in Seq(Byte) /\ Len(u) = 1 /\ \A i \in 1..1 : u[i] = source[k]
        BY <3>3
      <3> HIDE DEF u, v
      <3>8. u = v
        BY <3>6, <3>7, SeqEqual
      <3>4. SubSeq(source, k, k) = <<source[k]>>
        BY <3>8 DEF u, v
      <3> QED
        BY <3>4 DEF Coming, k
    <2> HIDE DEF b
    <2>5. <<b>> \in Seq(Byte)
      BY <2>3
    <2>6. MarkOf(FALSE) \in [Byte -> Seq(Byte)] /\ MarkOf(FALSE)[b] = Shown(b)
      BY <1>1, <2>3, MarksAre DEF MarkOf
    <2>7. Shown(b) \in Seq(Byte) /\ Shown(b) = FlattenSeq(Images(MarkOf(FALSE), <<b>>))
      <3> DEFINE h == MarkOf(FALSE)
      <3>1. Gives(h, Byte, Byte)
        BY <2>6 DEF Gives
      <3>2. h[b] = Shown(b) /\ h[b] \in Seq(Byte)
        BY <2>3, <2>6
      <3> HIDE DEF h
      <3>3. FlattenSeq(Images(h, <<b>>)) = h[b]
        BY <2>3, <3>1, FlatOne
      <3> QED
        BY <3>2, <3>3 DEF h
    <2>8. device = FALSE
      BY <1>1, <2>1
    <2>9. /\ OutGood' /\ CatImage'
          /\ passed' \in Seq(CatFile) /\ passed' # <<>> /\ passed'[Len(passed')].device = device'
      BY <2>1, <2>4, <2>5, <2>7, <2>8, CatPasses
    <2> QED
      BY <1>1, <2>1, <2>2, <2>9 DEF CatInv, CatType
  <1>5. CASE CatDevice
    <2>1. PICK n \in 1..Min({CatBuffer, Left}) :
             Emit(ShownLines(Coming(n))) /\ taken' = taken + n /\ Passed(Coming(n))
      BY <1>5 DEF CatDevice
    <2>2. cpc = "read" /\ device = TRUE /\ UNCHANGED <<source, flags, operands, device, cpc>>
      BY <1>1, <1>5 DEF CatDevice
    <2>3. n \in Nat /\ n >= 1 /\ n <= Left
      <3>1. PICK a, b : a = CatBuffer /\ b = Left
        OBVIOUS
      <3>2. a \in Int /\ b \in Int
        BY <1>1, <3>1, CatRunsAssumption DEF Left
      <3>3. n \in 1..Min({a, b})
        BY <2>1, <3>1
      <3>4. n \in Nat \ {0} /\ n <= b
        BY <3>2, <3>3, UpToBoth
      <3> QED
        BY <3>1, <3>4
    <2>4. taken + n \in 1..Len(source) /\ taken + 1 \in 1..Len(source) /\ taken + 1 <= taken + n
      BY <1>1, <2>3 DEF Left
    <2> DEFINE c == Coming(n)
    <2>5. c \in Seq(Byte)
      <3> DEFINE a == taken + 1
                 b == taken + n
      <3>0. source \in Seq(Byte) /\ a \in 1..(Len(source) + 1) /\ b \in (a - 1)..Len(source)
        BY <1>1, <2>3, <2>4
      <3> HIDE DEF a, b
      <3>1. IsPart(Byte, SubSeq(source, a, b), source, a, b)
        BY <3>0, Part
      <3> QED
        BY <3>1 DEF Coming, IsPart, a, b
    <2> HIDE DEF c
    <2>6. ShownLines(c) \in Seq(Byte) /\
          (flags # {"t"} /\ 0 \notin ToSet(c) => ShownLines(c) = FlattenSeq(Images(MarkOf(TRUE), c)))
      BY <1>1, <2>5, ShownLinesAre
    <2>7. Emit(ShownLines(c)) /\ Passed(c)
      BY <2>1 DEF c
    <2>8. /\ OutGood' /\ CatImage'
          /\ passed' \in Seq(CatFile) /\ passed' # <<>> /\ passed'[Len(passed')].device = device'
      BY <2>2, <2>5, <2>6, <2>7, CatPasses
    <2> QED
      BY <1>1, <2>1, <2>2, <2>4, <2>8 DEF CatInv, CatType
  <1>6. CASE CatOpenFails
    <2>1. operands' \in Seq(CatFile)
      BY <1>1, <1>6, HeadTailProperties DEF CatOpenFails
    <2> QED
      BY <1>2, <1>6, <2>1 DEF CatOpenFails
  <1>7. CASE CatFileEnds
    BY <1>1, <1>2, <1>7 DEF CatFileEnds, streamVars
  <1>8. CASE CatEnds
    BY <1>1, <1>2, <1>8 DEF CatEnds, streamVars
  <1>9. CASE UNCHANGED <<streamVars, catVars>>
    BY <1>1, <1>2, <1>9 DEF streamVars, catVars
  <1> QED
    BY <1>3, <1>4, <1>5, <1>6, <1>7, <1>8, <1>9 DEF CatNext

-----------------------------------------------------------------------------
\* dos2unix: what was put out is what was read, converted; a CR that was read
\* last still owes its LF.

LEMMA OneMore ==
    ASSUME NEW A, NEW s \in Seq(A), NEW n \in Nat, n < Len(s)
    PROVE  /\ SubSeq(s, 1, n) \in Seq(A) /\ Len(SubSeq(s, 1, n)) = n /\ s[n + 1] \in A
           /\ \A i \in 1..n : SubSeq(s, 1, n)[i] = s[i]
           /\ SubSeq(s, 1, n + 1) = Append(SubSeq(s, 1, n), s[n + 1])
  <1>1. Len(s) \in Nat /\ n + 1 \in 1..Len(s) /\ s[n + 1] \in A /\ n \in 0..Len(s) /\ 1 \in 1..(Len(s) + 1)
    BY LenProperties, ElementOfSeq
  <1>2. IsPart(A, SubSeq(s, 1, n), s, 1, n) /\ IsPart(A, SubSeq(s, 1, n + 1), s, 1, n + 1)
    <2>1. IsPart(A, SubSeq(s, 1, n), s, 1, n)
      BY <1>1, Part
    <2> DEFINE m == n + 1
    <2>2. m \in 0..Len(s) /\ m \in (1 - 1)..Len(s)
      BY <1>1
    <2> HIDE DEF m
    <2>3. IsPart(A, SubSeq(s, 1, m), s, 1, m)
      BY <1>1, <2>2, Part
    <2> QED
      BY <2>1, <2>3 DEF m
  <1> DEFINE x == SubSeq(s, 1, n)
             y == SubSeq(s, 1, n + 1)
             z == Append(x, s[n + 1])
  <1>3. x \in Seq(A) /\ Len(x) = n /\ \A i \in 1..n : x[i] = s[i]
    BY <1>2 DEF IsPart
  <1>4. y \in Seq(A) /\ Len(y) = n + 1 /\ \A i \in 1..(n + 1) : y[i] = s[i]
    BY <1>2 DEF IsPart
  <1> HIDE DEF x, y
  <1>5. z \in Seq(A) /\ Len(z) = n + 1 /\ z[n + 1] = s[n + 1] /\ \A i \in 1..n : z[i] = s[i]
    BY <1>1, <1>3, AppendProperties
  <1> HIDE DEF z
  <1>6. \A i \in 1..(n + 1) : y[i] = z[i]
    BY <1>4, <1>5
  <1>7. y = z
    BY <1>4, <1>5, <1>6, SeqEqual
  <1> QED
    BY <1>1, <1>3, <1>7 DEF x, y, z

CharPieces(s) ==
    [k \in DOMAIN s |->
        IF k > 1 /\ s[k] = LF /\ s[k - 1] = CR THEN <<>>
        ELSE IF s[k] = CR THEN <<LF>> ELSE <<s[k]>>]

Piece(s, c) ==
    IF Len(s) > 0 /\ c = LF /\ s[Len(s)] = CR THEN <<>>
    ELSE IF c = CR THEN <<LF>> ELSE <<c>>

LEMMA PiecesAre ==
    ASSUME NEW s \in Seq(Byte)
    PROVE  CharPieces(s) \in Seq(Seq(Byte)) /\ Len(CharPieces(s)) = Len(s) /\ Unix(s) \in Seq(Byte)
  <1>1. DOMAIN s = 1..Len(s) /\ Len(s) \in Nat /\ \A i \in 1..Len(s) : s[i] \in Byte
    BY LenProperties, ElementOfSeq
  <1>2. ASSUME NEW b \in Byte PROVE <<b>> \in Seq(Byte) /\ <<LF>> \in Seq(Byte) /\ <<>> \in Seq(Byte)
    BY DEF Byte, LF
  <1>3. CharPieces(s) \in [1..Len(s) -> Seq(Byte)]
    BY <1>1, <1>2 DEF CharPieces
  <1>4. CharPieces(s) \in Seq(Seq(Byte)) /\ Len(CharPieces(s)) = Len(s)
    BY <1>1, <1>3, FunctionIsSeq
  <1> QED
    BY <1>4, FlatType DEF Unix, CharPieces

LEMMA UnixMore ==
    ASSUME NEW s \in Seq(Byte), NEW c \in Byte
    PROVE  Unix(Append(s, c)) = Unix(s) \o Piece(s, c) /\ Piece(s, c) \in Seq(Byte)
  <1> DEFINE t == Append(s, c)
             n == Len(s)
             p == Piece(s, c)
  <1>1. n \in Nat /\ t \in Seq(Byte) /\ Len(t) = n + 1 /\ t[n + 1] = c /\ \A i \in 1..n : t[i] = s[i]
    BY AppendProperties, LenProperties
  <1>2. DOMAIN s = 1..n /\ DOMAIN t = 1..(n + 1)
    BY <1>1, LenProperties
  <1>3. p \in Seq(Byte)
    <2>1. LF \in Byte
      BY DEF Byte, LF
    <2>2. <<>> \in Seq(Byte) /\ <<LF>> \in Seq(Byte) /\ <<c>> \in Seq(Byte)
      BY <2>1
    <2> QED
      BY <2>2 DEF Piece
  <1>4. /\ CharPieces(s) \in Seq(Seq(Byte)) /\ Len(CharPieces(s)) = n
        /\ CharPieces(t) \in Seq(Seq(Byte)) /\ Len(CharPieces(t)) = n + 1
    BY <1>1, PiecesAre
  <1> DEFINE a == Append(CharPieces(s), p)
  <1>5. /\ a \in Seq(Seq(Byte)) /\ Len(a) = n + 1 /\ a[n + 1] = p
        /\ \A i \in 1..n : a[i] = CharPieces(s)[i]
    BY <1>3, <1>4, AppendProperties
  <1> HIDE DEF t, a, n
  <1>6. ASSUME NEW i \in 1..(n + 1) PROVE CharPieces(t)[i] = a[i]
    <2>1. CASE i \in 1..n
      <3>1. t[i] = s[i] /\ (i > 1 => t[i - 1] = s[i - 1])
        BY <1>1, <2>1
      <3>2. CharPieces(t)[i] = CharPieces(s)[i]
        BY <1>2, <2>1, <3>1 DEF CharPieces
      <3> QED
        BY <1>5, <2>1, <3>2
    <2>2. CASE i = n + 1
      <3>1. t[i] = c /\ (i > 1 <=> n > 0) /\ (n > 0 => t[i - 1] = s[n])
        BY <1>1, <2>2
      <3>2. CharPieces(t)[i] = p
        BY <1>2, <3>1 DEF CharPieces, Piece, n
      <3> QED
        BY <1>5, <2>2, <3>2
    <2> QED
      BY <1>1, <2>1, <2>2
  <1>7. CharPieces(t) = a
    BY <1>4, <1>5, <1>6, SeqEqual
  <1>8. FlattenSeq(a) = FlattenSeq(CharPieces(s)) \o p
    BY <1>3, <1>4, FlatMore DEF a
  <1> HIDE DEF p
  <1> QED
    BY <1>3, <1>7, <1>8 DEF Unix, CharPieces, t, p

DosSoFar == SubSeq(source, 1, taken)

DosType ==
    /\ inputs \in Seq(Seq(Byte)) /\ source \in Seq(Byte) /\ taken \in 0..Len(source)
    /\ before \in Seq(Byte) /\ OutGood

\* With the LF that a CR, which was read last, still owes.
DosPut == sinks["stdout"].bytes \o (IF upc = "cr" THEN <<LF>> ELSE <<>>)

DosInv ==
    /\ DosType
    /\ upc \in {"read", "cr"} /\ ~torn /\ ~DoubleCr(DosSoFar) =>
         /\ DosPut = before \o Unix(DosSoFar)
         /\ upc = "cr" <=> taken > 0 /\ source[taken] = CR

LEMMA DosShows == DosInv => DosImage
  <1> SUFFICES ASSUME DosInv, upc = "read", ~torn, ~DoubleCr(SubSeq(source, 1, taken))
               PROVE  sinks["stdout"].bytes = before \o Unix(SubSeq(source, 1, taken))
    BY DEF DosImage
  <1> DEFINE o == sinks["stdout"].bytes
  <1>1. o \in Seq(Byte)
    BY DEF DosInv, DosType, OutGood
  <1>2. o \o <<>> = before \o Unix(SubSeq(source, 1, taken))
    BY DEF DosInv, DosSoFar, DosPut
  <1> HIDE DEF o
  <1>3. o \o <<>> = o
    BY <1>1, ConcatEmptySeq
  <1> QED
    BY <1>2, <1>3 DEF o

LEMMA DosStarts == Init /\ tool = "dos2unix" => DosInv
  <1> SUFFICES ASSUME Init, tool = "dos2unix" PROVE DosInv
    OBVIOUS
  <1>1. PICK operands0 \in DosRuns : DosInit(operands0)
    BY DEF Init, InitDd, InitTee, InitCat, InitBase64, InitDos2unix, InitExecInPipe, InitShell,
           InitMonicall, InitChecksum, InitBox
  <1>2. sinks = Stdout /\ source = <<>> /\ taken = 0
    BY DEF Init, InitDd, InitTee, InitCat, InitBase64, InitDos2unix, InitExecInPipe, InitShell,
           InitMonicall, InitChecksum, InitBox
  <1>3. OutGood
    BY <1>2, EmptySeq DEF OutGood, Stdout, Sink
  <1>4. taken \in 0..Len(source) /\ source \in Seq(Byte) /\ <<>> \in Seq(Byte)
    BY <1>2, EmptySeq
  <1> QED
    BY <1>1, <1>3, <1>4, DosRunsAssumption DEF DosInit, DosInv, DosType

LEMMA DoubleMore ==
    ASSUME NEW s \in Seq(Byte), NEW c \in Byte,
           DoubleCr(s) \/ (Len(s) > 0 /\ s[Len(s)] = CR /\ c = CR)
    PROVE  DoubleCr(Append(s, c))
  <1> DEFINE t == Append(s, c)
             n == Len(s)
  <1>1. n \in Nat /\ Len(t) = n + 1 /\ t[n + 1] = c /\ \A i \in 1..n : t[i] = s[i]
    BY AppendProperties, LenProperties
  <1> HIDE DEF t
  <1>2. CASE DoubleCr(s)
    <2>1. PICK k \in 2..n : s[k - 1] = CR /\ s[k] = CR
      BY <1>2 DEF DoubleCr
    <2>2. k \in 2..Len(t) /\ t[k - 1] = CR /\ t[k] = CR
      BY <1>1, <2>1
    <2> QED
      BY <2>2 DEF DoubleCr, t
  <1>3. CASE n > 0 /\ s[n] = CR /\ c = CR
    <2>1. n + 1 \in 2..Len(t) /\ t[(n + 1) - 1] = CR /\ t[n + 1] = CR
      BY <1>1, <1>3
    <2> QED
      BY <2>1 DEF DoubleCr, t
  <1> QED
    BY <1>2, <1>3

\* A character more was read.
LEMMA DosTakes ==
    ASSUME DosInv, DosTake, OutGood', upc \in {"read", "cr"}, upc' \in {"read", "cr"},
           ~torn /\ ~DoubleCr(Append(DosSoFar, source[taken + 1])) =>
              /\ DosPut' = DosPut \o Piece(DosSoFar, source[taken + 1])
              /\ upc' = "cr" <=> source[taken + 1] = CR
    PROVE  DosInv'
  <1> DEFINE s == DosSoFar
             c == source[taken + 1]
  <1>1. /\ inputs \in Seq(Seq(Byte)) /\ source \in Seq(Byte) /\ taken \in 0..Len(source)
        /\ before \in Seq(Byte) /\ Len(source) \in Nat
    BY LenProperties DEF DosInv, DosType
  <1>2. taken < Len(source) /\ taken \in Nat /\ taken' = taken + 1
        /\ UNCHANGED <<source, inputs, before, torn>>
    BY <1>1 DEF DosTake, Left
  <1>3. s \in Seq(Byte) /\ c \in Byte /\ DosSoFar' = Append(s, c)
    BY <1>1, <1>2, OneMore DEF DosSoFar
  <1>4. DosType'
    BY <1>1, <1>2 DEF DosType
  <1>5. source'[taken'] = c /\ taken' > 0
    BY <1>2
  <1>6. ~torn /\ ~DoubleCr(Append(s, c)) =>
              DosPut' = DosPut \o Piece(s, c) /\ (upc' = "cr" <=> c = CR)
    OBVIOUS
  <1>7. ~torn /\ ~DoubleCr(s) => DosPut = before \o Unix(s)
    BY DEF DosInv
  <1> HIDE DEF s, c
  <1>8. ASSUME ~torn, ~DoubleCr(Append(s, c))
        PROVE  DosPut' = before \o Unix(Append(s, c))
    <2>1. ~DoubleCr(s)
      BY <1>3, <1>8, DoubleMore
    <2> DEFINE u == Unix(s)
               q == Piece(s, c)
    <2>2. u \in Seq(Byte) /\ q \in Seq(Byte) /\ Unix(Append(s, c)) = u \o q
      BY <1>3, UnixMore, PiecesAre
    <2>3. DosPut' = (before \o u) \o q
      BY <1>6, <1>7, <1>8, <2>1
    <2> HIDE DEF u, q
    <2>4. (before \o u) \o q = before \o (u \o q)
      BY <1>1, <2>2, Associates, SMTT(60)
    <2> QED
      BY <2>2, <2>3, <2>4
  <1>9. ASSUME ~torn', ~DoubleCr(DosSoFar)'
        PROVE  DosPut' = before' \o Unix(DosSoFar)' /\ (upc' = "cr" <=> c = CR)
    <2>1. ~DoubleCr(Append(s, c)) /\ ~torn
      BY <1>2, <1>3, <1>9 DEF DoubleCr
    <2>2. Unix(DosSoFar)' = Unix(Append(s, c))
      BY <1>3 DEF Unix
    <2> QED
      BY <1>2, <1>6, <1>8, <2>1, <2>2
  <1> QED
    BY <1>4, <1>5, <1>9 DEF DosInv

LEMMA DosGoesOn == DosInv /\ (DosNext \/ UNCHANGED <<streamVars, dosVars>>) => DosInv'
  <1> SUFFICES ASSUME DosInv, DosNext \/ UNCHANGED <<streamVars, dosVars>> PROVE DosInv'
    OBVIOUS
  <1>1. /\ inputs \in Seq(Seq(Byte)) /\ source \in Seq(Byte) /\ taken \in 0..Len(source)
        /\ before \in Seq(Byte) /\ Len(source) \in Nat /\ OutGood
    BY LenProperties DEF DosInv, DosType
  <1>2. LF \in Byte /\ LF # CR /\ <<LF>> \in Seq(Byte) /\ <<>> \in Seq(Byte)
    <2>1. LF \in Byte /\ LF # CR
      BY DEF Byte, LF, CR
    <2> QED
      BY <2>1
  <1> DEFINE o == sinks["stdout"].bytes
             s == DosSoFar
             c == source[taken + 1]
  <1>3. o \in Seq(Byte) /\ o \o <<>> = o
    <2>1. o \in Seq(Byte)
      BY <1>1 DEF OutGood
    <2> HIDE DEF o
    <2> QED
      BY <2>1, ConcatEmptySeq
  <1>4. CASE DosOpen
    <2>1. /\ inputs' \in Seq(Seq(Byte)) /\ source' \in Seq(Byte) /\ taken' = 0
          /\ before' = o /\ UNCHANGED sinks /\ upc' = "read"
      BY <1>1, <1>4, HeadTailProperties DEF DosOpen
    <2>2. DosType'
      BY <1>1, <1>3, <2>1, LenProperties DEF DosType, OutGood
    <2>3. DosSoFar' = <<>>
      BY <2>1, SubSeqEmpty DEF DosSoFar
    <2>4. Unix(<<>>) = <<>>
      <3>1. FlattenSeq(<<>>) = <<>>
        BY DEF FlattenSeq
      <3> QED
        BY <3>1 DEF Unix
    <2>5. Unix(DosSoFar)' = Unix(<<>>)
      BY <2>3 DEF Unix
    <2>6. DosPut' = o \o <<>>
      BY <2>1 DEF DosPut
    <2>7. DosPut' = before' \o Unix(DosSoFar)'
      BY <2>1, <2>4, <2>5, <2>6
    <2>8. upc' # "cr" /\ ~(taken' > 0)
      BY <2>1
    <2> QED
      BY <2>2, <2>7, <2>8 DEF DosInv
  <1>5. ASSUME DosTake
        PROVE  /\ c \in Byte /\ s \in Seq(Byte) /\ Len(s) = taken /\ taken \in Nat
               /\ taken > 0 => s[taken] = source[taken]
    <2>1. taken \in Nat /\ taken < Len(source)
      BY <1>1, <1>5 DEF DosTake, Left
    <2> QED
      BY <1>1, <2>1, OneMore DEF DosSoFar
  <1>6. CASE DosChar
    <2>1. DosTake /\ upc = "read" /\ upc' \in {"read", "cr"}
      BY <1>6 DEF DosChar
    <2>2. c \in Byte /\ s \in Seq(Byte) /\ Len(s) = taken /\ taken \in Nat
          /\ (taken > 0 => s[taken] = source[taken])
      BY <1>5, <2>1
    <2>3. DosPut = o
      BY <1>3, <2>1 DEF DosPut
    <2>4. CASE c = CR
      <3>1. upc' = "cr" /\ UNCHANGED sinks
        BY <1>6, <2>4 DEF DosChar
      <3>2. Piece(s, c) = <<LF>> /\ OutGood'
        BY <1>1, <1>2, <2>4, <3>1 DEF Piece, OutGood
      <3>3. DosPut' = o \o <<LF>>
        BY <3>1 DEF DosPut
      <3> QED
        BY <2>1, <2>3, <2>4, <3>1, <3>2, <3>3, DosTakes
    <2>5. CASE c # CR
      <3>1. upc' = "read" /\ Write("stdout", <<c>>) /\ <<c>> \in Seq(Byte)
        BY <1>6, <2>2, <2>5 DEF DosChar
      <3>2. OutGood' /\ sinks'["stdout"].bytes = o \o <<c>>
        BY <1>1, <3>1, PutOut
      <3>3. DosPut' = o \o <<c>>
        <4> DEFINE p == sinks'["stdout"].bytes
        <4>1. p \in Seq(Byte) /\ p = o \o <<c>>
          BY <3>2 DEF OutGood
        <4>2. DosPut' = p \o <<>>
          BY <3>1 DEF DosPut
        <4> HIDE DEF p
        <4>3. p \o <<>> = p
          BY <4>1, ConcatEmptySeq
        <4> QED
          BY <4>1, <4>2, <4>3
      <3>4. ASSUME ~torn, ~DoubleCr(Append(s, c)) PROVE Piece(s, c) = <<c>>
        <4>1. ~DoubleCr(s)
          BY <2>2, <3>4, DoubleMore
        <4>2. taken > 0 => source[taken] # CR
          BY <2>1, <3>4, <4>1 DEF DosInv
        <4> QED
          BY <2>2, <2>5, <4>2 DEF Piece
      <3> QED
        BY <2>1, <2>3, <2>5, <3>1, <3>2, <3>3, <3>4, DosTakes
    <2> QED
      BY <2>4, <2>5
  <1>7. CASE DosBehindCr
    <2> DEFINE w == IF c = LF THEN <<LF>> ELSE <<LF, c>>
    <2>1. DosTake /\ upc = "cr" /\ upc' = "read" /\ Write("stdout", w)
      BY <1>7 DEF DosBehindCr
    <2>2. c \in Byte /\ s \in Seq(Byte) /\ Len(s) = taken /\ taken \in Nat
          /\ (taken > 0 => s[taken] = source[taken])
      BY <1>5, <2>1
    <2>3. w \in Seq(Byte)
      BY <1>2, <2>2
    <2>4. OutGood' /\ sinks'["stdout"].bytes = o \o w
      BY <1>1, <2>1, <2>3, PutOut
    <2>5. DosPut' = o \o w
      <3> DEFINE p == sinks'["stdout"].bytes
      <3>1. p \in Seq(Byte) /\ p = o \o w
        BY <2>4 DEF OutGood
      <3>2. DosPut' = p \o <<>>
        BY <2>1 DEF DosPut
      <3> HIDE DEF p
      <3>3. p \o <<>> = p
        BY <3>1, ConcatEmptySeq
      <3> QED
        BY <3>1, <3>2, <3>3
    <2>6. DosPut = o \o <<LF>>
      BY <2>1 DEF DosPut
    <2>7. ASSUME ~torn, ~DoubleCr(Append(s, c))
          PROVE  c # CR /\ <<LF>> \o Piece(s, c) = w /\ Piece(s, c) \in Seq(Byte)
      <3>1. ~DoubleCr(s)
        BY <2>2, <2>7, DoubleMore
      <3>2. taken > 0 /\ source[taken] = CR
        BY <2>1, <2>7, <3>1 DEF DosInv
      <3>3. c # CR
        BY <2>2, <2>7, <3>2, DoubleMore
      <3>4. Piece(s, c) = IF c = LF THEN <<>> ELSE <<c>>
        BY <2>2, <3>2, <3>3 DEF Piece
      <3>5. <<LF>> \o <<>> = <<LF>>
        BY <1>2, ConcatEmptySeq
      <3>6. <<LF>> \o <<c>> = <<LF, c>>
        <4>1. Append(<<LF>>, c) = <<LF>> \o <<c>>
          BY <1>2, <2>2, AppendIsConcat
        <4>2. Append(<<LF>>, c) = <<LF, c>>
          <5> DEFINE x == Append(<<LF>>, c)
                     y == <<LF, c>>
          <5>1. x \in Seq(Byte) /\ Len(x) = 2 /\ x[1] = LF /\ x[2] = c
            BY <1>2, <2>2, AppendProperties
          <5>2. y \in Seq(Byte) /\ Len(y) = 2 /\ y[1] = LF /\ y[2] = c
            BY <1>2, <2>2
          <5> HIDE DEF x, y
          <5>3. \A i \in 1..2 : x[i] = y[i]
            BY <5>1, <5>2
          <5>4. x = y
            BY <5>1, <5>2, <5>3, SeqEqual
          <5> QED
            BY <5>4 DEF x, y
        <4> QED
          BY <4>1, <4>2
      <3>7. <<c>> \in Seq(Byte)
        BY <2>2
      <3> QED
        BY <1>2, <3>3, <3>4, <3>5, <3>6, <3>7
    <2>8. ASSUME ~torn, ~DoubleCr(Append(s, c))
          PROVE  DosPut' = DosPut \o Piece(s, c)
      <3> DEFINE q == Piece(s, c)
      <3>1. q \in Seq(Byte) /\ w = <<LF>> \o q
        BY <2>7, <2>8
      <3> HIDE DEF q, o
      <3>2. (o \o <<LF>>) \o q = o \o (<<LF>> \o q)
        <4>1. PICK l : l = <<LF>>
          OBVIOUS
        <4>2. o \in Seq(Byte) /\ l \in Seq(Byte) /\ q \in Seq(Byte)
          BY <1>2, <1>3, <3>1, <4>1
        <4>3. (o \o l) \o q = o \o (l \o q)
          BY <4>2, Associates, SMTT(60)
        <4> QED
          BY <4>1, <4>3
      <3> QED
        BY <2>5, <2>6, <3>1, <3>2 DEF q
    <2> QED
      BY <2>1, <2>4, <2>7, <2>8, DosTakes
  <1>8. CASE DosErrorBehindCr \/ DosInputEnds \/ DosOpenFails \/ DosEnds
    <2>1. \/ UNCHANGED sinks
          \/ Write("stdout", <<LF>>)
      BY <1>8 DEF DosErrorBehindCr, DosInputEnds, DosOpenFails, DosEnds, streamVars
    <2>2. OutGood'
      <3>1. CASE UNCHANGED sinks
        BY <1>1, <3>1 DEF OutGood
      <3>2. CASE Write("stdout", <<LF>>)
        BY <1>1, <1>2, <3>2, PutOut
      <3> QED
        BY <2>1, <3>1, <3>2
    <2>3. UNCHANGED <<source, taken, before>> /\ inputs' \in Seq(Seq(Byte))
      BY <1>1, <1>8, HeadTailProperties
      DEF DosErrorBehindCr, DosInputEnds, DosOpenFails, DosEnds, streamVars
    <2>4. torn' \/ upc' \notin {"read", "cr"}
      BY <1>8 DEF DosErrorBehindCr, DosInputEnds, DosOpenFails, DosEnds
    <2> QED
      BY <1>1, <2>2, <2>3, <2>4 DEF DosInv, DosType
  <1>10. CASE DosWriteFails
    <2>1. PICK n \in 0..(Len(o) - 1) :
              sinks' = [sinks EXCEPT !["stdout"] = [bytes |-> SubSeq(@.bytes, 1, n), pos |-> n]]
      BY <1>10 DEF DosWriteFails
    <2>2. torn' /\ UNCHANGED <<source, taken, status, inputs, upc, before>>
      BY <1>10 DEF DosWriteFails
    <2>3. SubSeq(o, 1, n) \in Seq(Byte) /\ Len(SubSeq(o, 1, n)) = n
      <3> HIDE DEF o
      <3>1. 1 \in 1..(Len(o) + 1) /\ n \in (1 - 1)..Len(o) /\ (n - 1) + 1 = n
        <4>1. Len(o) \in Nat
          BY <1>3, LenProperties
        <4> QED
          BY <4>1
      <3>2. IsPart(Byte, SubSeq(o, 1, n), o, 1, n)
        BY <1>3, <3>1, Part
      <3> QED
        BY <3>1, <3>2 DEF IsPart
    <2>4. OutGood'
      <3>1. "stdout" \in DOMAIN sinks
        BY <1>1 DEF OutGood
      <3>2. "stdout" \in DOMAIN sinks' /\ sinks'["stdout"] = [bytes |-> SubSeq(o, 1, n), pos |-> n]
        BY <2>1, <3>1
      <3> HIDE DEF o
      <3> QED
        BY <2>3, <3>2 DEF OutGood
    <2> QED
      BY <1>1, <2>2, <2>4 DEF DosInv, DosType
  <1>9. CASE UNCHANGED <<streamVars, dosVars>>
    BY <1>9 DEF DosInv, DosType, DosPut, DosSoFar, OutGood, Unix, DoubleCr, streamVars, dosVars
  <1> QED
    BY <1>4, <1>6, <1>7, <1>8, <1>9, <1>10 DEF DosNext

-----------------------------------------------------------------------------
\* monicall: what is left of the program is the end of it, and each call that
\* was made of the rest stands in the trace when it has a catcher.

Doings == [kind : {"call", "exit", "signal"}, num : Int, ret : Int]
Events == {"call", "return"} \X Int

IsRest(p, w) ==
    /\ p \in Seq(Doings) /\ w \in Seq(Doings) /\ Len(p) <= Len(w)
    /\ \A i \in 1..Len(p) : p[i] = w[Len(w) - Len(p) + i]

MadeOf(p, w) == SubSeq(w, 1, Len(w) - Len(p))

LEMMA RestGoesOn ==
    ASSUME NEW p, NEW w, IsRest(p, w)
    PROVE  /\ MadeOf(p, w) \in Seq(Doings)
           /\ p # <<>> => /\ IsRest(Tail(p), w) /\ Head(p) \in Doings
                          /\ MadeOf(Tail(p), w) = Append(MadeOf(p, w), Head(p))
  <1> DEFINE n == Len(w) - Len(p)
  <1>1. /\ p \in Seq(Doings) /\ w \in Seq(Doings) /\ Len(p) \in Nat /\ Len(w) \in Nat
        /\ n \in 0..Len(w) /\ \A i \in 1..Len(p) : p[i] = w[n + i]
    BY LenProperties DEF IsRest
  <1>2. MadeOf(p, w) \in Seq(Doings)
    <2>1. 1 \in 1..(Len(w) + 1) /\ n \in (1 - 1)..Len(w)
      BY <1>1
    <2> HIDE DEF n
    <2>2. IsPart(Doings, SubSeq(w, 1, n), w, 1, n)
      BY <1>1, <2>1, Part
    <2> QED
      BY <2>2 DEF IsPart, MadeOf, n
  <1>3. ASSUME p # <<>>
        PROVE  /\ IsRest(Tail(p), w) /\ Head(p) \in Doings
               /\ MadeOf(Tail(p), w) = Append(MadeOf(p, w), Head(p))
    <2>1. /\ Head(p) \in Doings /\ Tail(p) \in Seq(Doings) /\ Len(Tail(p)) = Len(p) - 1
          /\ \A i \in 1..Len(Tail(p)) : Tail(p)[i] = p[i + 1]
      BY <1>1, <1>3, HeadTailProperties
    <2>2. Len(p) > 0
      BY <1>1, <1>3, EmptySeq
    <2>3. Head(p) = p[1]
      BY <1>1, <1>3
    <2> DEFINE t == Tail(p)
    <2> HIDE DEF t
    <2>4. IsRest(t, w)
      <3>1. ASSUME NEW i \in 1..Len(t) PROVE t[i] = w[Len(w) - Len(t) + i]
        <4>1. i + 1 \in 1..Len(p) /\ t[i] = p[i + 1] /\ n + (i + 1) = Len(w) - Len(t) + i
          BY <1>1, <2>1 DEF t
        <4> QED
          BY <1>1, <4>1
      <3> QED
        BY <1>1, <2>1, <3>1 DEF IsRest, t
    <2>5. n < Len(w) /\ Len(w) - Len(t) = n + 1 /\ w[n + 1] = Head(p) /\ n \in Nat
      BY <1>1, <2>1, <2>2, <2>3 DEF t
    <2> HIDE DEF n
    <2>6. SubSeq(w, 1, n + 1) = Append(SubSeq(w, 1, n), w[n + 1])
      BY <1>1, <2>5, OneMore
    <2>7. MadeOf(t, w) = Append(MadeOf(p, w), Head(p))
      BY <2>5, <2>6 DEF MadeOf, n
    <2> QED
      BY <2>1, <2>4, <2>7 DEF t
  <1> QED
    BY <1>2, <1>3

LEMMA TwoMore ==
    ASSUME NEW B, NEW s \in Seq(B), NEW a \in B, NEW b \in B
    PROVE  Append(s \o <<a>>, b) = s \o <<a, b>>
  <1>1. Append(s, a) = s \o <<a>>
    BY AppendIsConcat
  <1> DEFINE t == Append(s, a)
             n == Len(s)
             x == Append(t, b)
             c == <<a, b>>
             y == s \o c
  <1>2. n \in Nat /\ t \in Seq(B) /\ Len(t) = n + 1 /\ t[n + 1] = a /\ \A i \in 1..n : t[i] = s[i]
    BY AppendProperties, LenProperties
  <1>3. c \in Seq(B) /\ Len(c) = 2 /\ c[1] = a /\ c[2] = b
    OBVIOUS
  <1> HIDE DEF t, c
  <1>4. x \in Seq(B) /\ Len(x) = Len(t) + 1 /\ x[Len(t) + 1] = b /\ \A i \in 1..Len(t) : x[i] = t[i]
    BY <1>2, AppendProperties
  <1>5. /\ y \in Seq(B) /\ Len(y) = n + Len(c)
        /\ \A i \in 1..(n + Len(c)) : y[i] = IF i <= n THEN s[i] ELSE c[i - n]
    BY <1>3, ConcatProperties
  <1> HIDE DEF x, y, n
  <1>6. ASSUME NEW i \in 1..(n + 2) PROVE x[i] = y[i]
    <2>1. CASE i <= n
      BY <1>2, <1>3, <1>4, <1>5, <2>1
    <2>2. CASE i = n + 1
      BY <1>2, <1>3, <1>4, <1>5, <2>2
    <2>3. CASE i = n + 2
      BY <1>2, <1>3, <1>4, <1>5, <2>3
    <2> QED
      BY <1>2, <2>1, <2>2, <2>3
  <1>7. Len(x) = n + 2 /\ Len(y) = n + 2
    BY <1>2, <1>3, <1>4, <1>5
  <1>8. x = y
    BY <1>4, <1>5, <1>6, <1>7, SeqEqual
  <1> QED
    BY <1>1, <1>8 DEF t, x, y, c

\* What is printed of a thing the program did.
PrintedOf ==
    [d \in Doings |-> IF findCatcher(d.num) THEN <<<<"call", d.num>>, <<"return", d.ret>>>> ELSE <<>>]
Printed == FlattenSeq(Images(PrintedOf, MadeOf(program, whole0)))

MoniInv ==
    /\ IsRest(program, whole0)
    /\ mpc = "start" => program = whole0 /\ trace = <<>>
    /\ mpc = "entered" => program # <<>> /\ catcher = findCatcher(Doing.num)
    /\ mpc \in {"run", "entered"} =>
         trace = Printed \o (IF mpc = "entered" /\ catcher THEN <<<<"call", Doing.num>>>> ELSE <<>>)

LEMMA PrintedIs ==
    ASSUME IsRest(program, whole0)
    PROVE  /\ Gives(PrintedOf, Doings, Events) /\ Printed \in Seq(Events)
           /\ Printed = LET made == SubSeq(whole0, 1, Len(whole0) - Len(program))
                        IN FlattenSeq([k \in DOMAIN made |->
                               IF findCatcher(made[k].num)
                                 THEN <<<<"call", made[k].num>>, <<"return", made[k].ret>>>> ELSE <<>>])
  <1> DEFINE made == MadeOf(program, whole0)
  <1>1. made \in Seq(Doings)
    BY RestGoesOn
  <1>2. ASSUME NEW d \in Doings
        PROVE  <<<<"call", d.num>>, <<"return", d.ret>>>> \in Seq(Events) /\ <<>> \in Seq(Events)
    <2>1. d.num \in Int /\ d.ret \in Int
      BY DEF Doings
    <2>2. <<"call", d.num>> \in Events /\ <<"return", d.ret>> \in Events
      BY <2>1 DEF Events
    <2> QED
      BY <2>2
  <1>3. Gives(PrintedOf, Doings, Events)
    BY <1>2 DEF Gives, PrintedOf
  <1>4. Images(PrintedOf, made) \in Seq(Seq(Events))
    BY <1>1, <1>3, ImagesAre DEF Gives, ImagesOf
  <1>5. Printed \in Seq(Events)
    BY <1>4, FlatType DEF Printed
  <1>6. \A k \in DOMAIN made : made[k] \in Doings
    BY <1>1, LenProperties, ElementOfSeq
  <1>7. Images(PrintedOf, made) =
          [k \in DOMAIN made |-> IF findCatcher(made[k].num)
              THEN <<<<"call", made[k].num>>, <<"return", made[k].ret>>>> ELSE <<>>]
    BY <1>6 DEF Images, PrintedOf
  <1> QED
    BY <1>3, <1>5, <1>7 DEF Printed, MadeOf

LEMMA MoniShows == MoniInv => MoniImage
  BY PrintedIs DEF MoniInv, MoniImage

LEMMA MoniStarts == Init /\ tool = "monicall" => MoniInv
  <1> SUFFICES ASSUME Init, tool = "monicall" PROVE MoniInv
    OBVIOUS
  <1>1. PICK r \in Programs : MoniInit(r.todo, r.listed)
    BY DEF Init, InitDd, InitTee, InitCat, InitBase64, InitDos2unix, InitExecInPipe, InitShell,
           InitMonicall, InitChecksum, InitBox
  <1>2. program \in Seq(Doings) /\ whole0 = program /\ mpc = "start" /\ trace = <<>>
    BY <1>1, ProgramsAssumption DEF MoniInit, Doings
  <1>3. IsRest(program, whole0)
    BY <1>2, LenProperties DEF IsRest
  <1> QED
    BY <1>2, <1>3 DEF MoniInv

LEMMA MoniGoesOn == MoniInv /\ (MoniNext \/ UNCHANGED moniVars) => MoniInv'
  <1> SUFFICES ASSUME MoniInv, MoniNext \/ UNCHANGED moniVars PROVE MoniInv'
    OBVIOUS
  <1>1. /\ IsRest(program, whole0) /\ Gives(PrintedOf, Doings, Events) /\ Printed \in Seq(Events)
        /\ program # <<>> => Doing \in Doings
    BY PrintedIs, RestGoesOn DEF MoniInv, Doing
  <1>2. ASSUME program # <<>>
        PROVE  <<"call", Doing.num>> \in Events /\ <<"return", Doing.ret>> \in Events
    BY <1>1, <1>2 DEF Doings, Events
  <1>3. CASE UNCHANGED <<program, whole0, catchers, mpc, catcher, trace>>
    BY <1>3 DEF MoniInv, IsRest, Printed, PrintedOf, MadeOf, findCatcher, Doing
  <1>4. ASSUME mpc' \notin {"start", "run", "entered"}, UNCHANGED whole0,
               program' = program \/ (program # <<>> /\ program' = Tail(program))
        PROVE  MoniInv'
    <2>1. IsRest(program', whole0')
      BY <1>1, <1>4, RestGoesOn
    <2>2. IsRest(program, whole0)'
      BY <2>1 DEF IsRest
    <2> QED
      BY <1>4, <2>2 DEF MoniInv
  <1>5. CASE MoniStart
    <2>1. program = whole0 /\ trace = <<>> /\ UNCHANGED <<program, whole0, catchers, trace>> /\ mpc' = "run"
      BY <1>5 DEF MoniInv, MoniStart, MoniKeep
    <2>2. MadeOf(program, whole0) = <<>>
      <3>1. Len(whole0) \in Nat
        BY <1>1, LenProperties DEF IsRest
      <3>2. Len(whole0) - Len(program) = 0
        BY <2>1, <3>1
      <3> QED
        BY <3>2, SubSeqEmpty DEF MadeOf
    <2>3. Printed = <<>>
      <3>1. Images(PrintedOf, <<>>) = <<>>
        BY DEF Images
      <3>2. FlattenSeq(<<>>) = <<>>
        BY DEF FlattenSeq
      <3> QED
        BY <2>2, <3>1, <3>2 DEF Printed
    <2>4. Printed' = Printed
      BY <2>1 DEF Printed, PrintedOf, MadeOf, findCatcher
    <2>5. trace = Printed \o <<>>
      BY <1>1, <2>1, <2>3, ConcatEmptySeq
    <2>6. IsRest(program, whole0)'
      BY <1>1, <2>1 DEF IsRest
    <2> QED
      BY <2>1, <2>4, <2>5, <2>6 DEF MoniInv
  <1>6. CASE MoniEntry
    <2>1. program # <<>> /\ UNCHANGED <<program, whole0, catchers>> /\ mpc = "run"
      BY <1>6 DEF MoniEntry, MoniKeep, Stops
    <2>2. CASE mpc' = "detach"
      BY <1>4, <2>1, <2>2
    <2>3. CASE /\ catcher' = findCatcher(Doing.num) /\ mpc' = "entered"
               /\ trace' = IF catcher' THEN Append(trace, <<"call", Doing.num>>) ELSE trace
      <3>1. trace = Printed /\ Printed \o <<>> = Printed
            /\ Append(Printed, <<"call", Doing.num>>) = Printed \o <<<<"call", Doing.num>>>>
        <4> DEFINE o == <<"call", Doing.num>>
        <4>1. Printed \in Seq(Events) /\ o \in Events
          BY <1>1, <1>2, <2>1
        <4>2. trace = Printed \o <<>>
          BY <2>1 DEF MoniInv
        <4> HIDE DEF o
        <4>3. Printed \o <<>> = Printed
          BY <4>1, ConcatEmptySeq
        <4>4. Append(Printed, o) = Printed \o <<o>>
          BY <4>1, AppendIsConcat
        <4> QED
          BY <4>2, <4>3, <4>4 DEF o
      <3>2. Printed' = Printed /\ Doing' = Doing /\ findCatcher(Doing.num)' = findCatcher(Doing.num)
        BY <2>1 DEF Printed, PrintedOf, MadeOf, findCatcher, Doing
      <3>3. IsRest(program, whole0)'
        BY <1>1, <2>1 DEF IsRest
      <3> DEFINE e == <<<<"call", Doing.num>>>>
      <3>4. e' = e
        BY <3>2
      <3>5. trace' = Printed \o (IF catcher' THEN e ELSE <<>>)
        BY <2>3, <3>1
      <3> HIDE DEF e
      <3>6. trace' = Printed' \o (IF catcher' THEN e' ELSE <<>>)
        BY <3>2, <3>4, <3>5
      <3> QED
        BY <2>1, <2>3, <3>2, <3>3, <3>6 DEF MoniInv, e
    <2> QED
      BY <1>6, <2>2, <2>3 DEF MoniEntry
  <1>7. CASE MoniReturn
    <2>1. /\ program # <<>> /\ program' = Tail(program) /\ UNCHANGED <<whole0, catchers, catcher>>
          /\ mpc = "entered"
      BY <1>7 DEF MoniReturn, MoniKeep, Stops
    <2>2. CASE mpc' = "detach"
      BY <1>4, <2>1, <2>2
    <2>3. CASE /\ mpc' = "run"
               /\ trace' = IF catcher THEN Append(trace, <<"return", Doing.ret>>) ELSE trace
      <3> DEFINE d == Doing
                 p == Printed
      <3>1. d \in Doings /\ p \in Seq(Events) /\ catcher = findCatcher(d.num)
            /\ <<"call", d.num>> \in Events /\ <<"return", d.ret>> \in Events
            /\ trace = p \o (IF catcher THEN <<<<"call", d.num>>>> ELSE <<>>)
        BY <1>1, <1>2, <2>1 DEF MoniInv
      <3>2. Printed' = p \o PrintedOf[d]
        <4>1. MadeOf(program', whole0) = Append(MadeOf(program, whole0), d)
              /\ MadeOf(program, whole0) \in Seq(Doings)
          BY <1>1, <2>1, RestGoesOn DEF Doing
        <4>2. PrintedOf' = PrintedOf
          BY <2>1 DEF PrintedOf, findCatcher
        <4>3. Printed' = FlattenSeq(Images(PrintedOf, MadeOf(program', whole0)))
          BY <2>1, <4>2 DEF Printed
        <4> DEFINE h == PrintedOf
                   m == MadeOf(program, whole0)
        <4> HIDE DEF h, m, d
        <4>5. Gives(h, Doings, Events) /\ m \in Seq(Doings)
          BY <1>1, <4>1 DEF h, m
        <4>6. FlattenSeq(Images(h, Append(m, d))) = FlattenSeq(Images(h, m)) \o h[d]
          BY <3>1, <4>5, FlatImage
        <4>7. Printed = FlattenSeq(Images(h, m))
          BY DEF Printed, h, m
        <4> QED
          BY <4>1, <4>3, <4>6, <4>7 DEF h, m
      <3>3. PrintedOf[d] = IF catcher THEN <<<<"call", d.num>>, <<"return", d.ret>>>> ELSE <<>>
        BY <3>1 DEF PrintedOf
      <3> HIDE DEF d, p
      <3>4. /\ p \o <<>> = p
            /\ Append(p \o <<<<"call", d.num>>>>, <<"return", d.ret>>) =
                 p \o <<<<"call", d.num>>, <<"return", d.ret>>>>
        <4> DEFINE a == <<"call", d.num>>
                   b == <<"return", d.ret>>
        <4>1. a \in Events /\ b \in Events
          BY <3>1
        <4> HIDE DEF a, b
        <4>2. p \o <<>> = p
          BY <3>1, ConcatEmptySeq
        <4>3. Append(p \o <<a>>, b) = p \o <<a, b>>
          BY <3>1, <4>1, TwoMore
        <4> QED
          BY <4>2, <4>3 DEF a, b
      <3>5. trace' = Printed'
        BY <2>3, <3>1, <3>2, <3>3, <3>4 DEF d
      <3>6. Printed' \o <<>> = Printed' /\ IsRest(program, whole0)'
        <4>1. IsRest(program', whole0')
          BY <1>1, <2>1, RestGoesOn
        <4>2. IsRest(program, whole0)'
          BY <4>1 DEF IsRest
        <4>3. Printed' \in Seq(Events)
          <5>1. PrintedOf[d] \in Seq(Events)
            BY <1>1, <3>1 DEF Gives
          <5> QED
            BY <3>1, <3>2, <5>1, ConcatProperties
        <4> QED
          BY <4>2, <4>3, ConcatEmptySeq
      <3> QED
        BY <2>3, <3>5, <3>6 DEF MoniInv
    <2> QED
      BY <1>7, <2>2, <2>3 DEF MoniReturn
  <1>8. CASE MoniForkFails \/ MoniOther \/ MoniGone \/ MoniNoReturn
    BY <1>4, <1>8 DEF MoniForkFails, MoniOther, MoniGone, MoniNoReturn, MoniKeep
  <1>9. CASE MoniDetach
    BY <1>4, <1>9 DEF MoniDetach, MoniKeep, Stops
  <1>10. CASE MoniFree \/ MoniExit
    BY <1>4, <1>10 DEF MoniFree, MoniExit, MoniKeep
  <1>11. CASE UNCHANGED moniVars
    BY <1>3, <1>11 DEF moniVars
  <1> QED
    BY <1>5, <1>6, <1>7, <1>8, <1>9, <1>10, <1>11 DEF MoniNext

-----------------------------------------------------------------------------
\* The lists of mconf: a window that is full, or has all of the list, moves
\* with its rows.

Rooms == Nat \ {0}

\* The largest of 0 and p, and the smallest of q and p.
LEMMA Largest ==
    ASSUME NEW a \in Int, NEW b \in Int
    PROVE  Max({a, b}) = IF a <= b THEN b ELSE a
  BY GreatestOfTwo

LEMMA Smallest ==
    ASSUME NEW a \in Int, NEW b \in Int
    PROVE  Min({a, b}) = IF a <= b THEN a ELSE b
  BY LeastOfTwo

ListType ==
    /\ savedScroll \in Nat
    /\ boxPc = "keys" /\ box # "yesno" =>
         /\ listed \in MenuLists \cup CheckLists /\ room \in Rooms
         /\ (box = "check" => room = CheckRoom)
         /\ choice \in 0..MaxChoice - 1 /\ scroll \in 0..Len(listed) - MaxChoice
         /\ place \in 0..Len(listed) - 1

ListInv == ListType /\ ListImage

LEMMA ListIs ==
    ASSUME NEW l \in MenuLists \cup CheckLists
    PROVE  Len(l) \in Rooms /\ DOMAIN l = 1..Len(l)
  <1>1. l # <<>> /\ l \in Seq({l[i] : i \in DOMAIN l})
    BY ListsAssumption
  <1> QED
    BY <1>1, EmptySeq DEF Rooms

LEMMA RoomIs ==
    ASSUME NEW h \in Rooms, NEW n \in Rooms
    PROVE  Min({h, n}) \in Rooms /\ Min({h, n}) <= h /\ Min({h, n}) <= n
           /\ (Min({h, n}) = h \/ Min({h, n}) = n)
  <1>1. h \in Int /\ n \in Int
    BY DEF Rooms
  <1>2. Min({h, n}) = IF h <= n THEN h ELSE n
    BY <1>1, Smallest
  <1> QED
    BY <1>1, <1>2 DEF Rooms

LEMMA MovedRows ==
    ASSUME NEW k \in Int, NEW c \in 0..MaxChoice - 1, MoveTo(k, c), boxPc = "keys", box # "yesno",
           ListType, scroll + k \in 0..Len(listed) - MaxChoice, UNCHANGED <<room, listed>>
    PROVE  /\ scroll' = scroll + k /\ choice' = c
           /\ rows = Drawn(room, MaxChoice, scroll, choice)
                => rows' = Drawn(room, MaxChoice, scroll', choice')
  <1> DEFINE M == MaxChoice
             n == Len(listed)
             old == Drawn(room, M, scroll, choice)
             unlit == [old EXCEPT ![choice] = Row(scroll + choice, FALSE)]
             moved == [r \in DOMAIN old |-> IF r + k \in DOMAIN old THEN unlit[r + k]
                                            ELSE Row(scroll + k + r, FALSE)]
             lit == [moved EXCEPT ![c] = Row(scroll + k + c, TRUE)]
             new == Drawn(room, M, scroll + k, c)
  <1>1. /\ n \in Rooms /\ room \in Rooms /\ choice \in 0..M - 1 /\ scroll \in 0..n - M
    BY ListIs DEF ListType
  <1>2. M \in Rooms /\ M <= room /\ M <= n /\ (M = room \/ M = n)
    BY <1>1, RoomIs DEF MaxChoice
  <1>3. scroll' = scroll + k /\ choice' = c
    BY DEF MoveTo
  <1> HIDE DEF M, n
  <1>4. M \in Nat /\ n \in Nat /\ room \in Nat /\ c \in 0..M - 1 /\ scroll + k \in 0..n - M
        /\ (k # 0 => M = room)
    <2>1. c \in 0..M - 1 /\ scroll + k \in 0..n - M
      BY DEF M, n
    <2>2. M \in Nat /\ n \in Nat /\ room \in Nat
      BY <1>1, <1>2 DEF Rooms
    <2>3. ASSUME M # room PROVE k = 0
      <3>1. n - M = 0
        BY <1>2, <2>2, <2>3
      <3>2. scroll = 0 /\ scroll + k = 0
        BY <1>1, <2>1, <3>1
      <3> QED
        BY <3>2
    <2> QED
      BY <2>1, <2>2, <2>3
  <1>5. DOMAIN old = 0..room - 1 /\ \A r \in 0..room - 1 :
          old[r] = IF r < M THEN Row(scroll + r, r = choice) ELSE Blank
    BY DEF Drawn
  <1>6. \A r \in 0..room - 1 : new[r] = IF r < M THEN Row(scroll + k + r, r = c) ELSE Blank
    BY DEF Drawn
  <1>7. new = [r \in 0..room - 1 |-> new[r]]
    BY DEF Drawn
  <1> HIDE DEF old, new
  <1>8. ASSUME NEW r \in 0..room - 1 PROVE lit[r] = new[r]
    <2>1. lit[r] = IF r = c THEN Row(scroll + k + c, TRUE) ELSE moved[r]
      BY <1>5
    <2>2. moved[r] = IF r + k \in 0..room - 1 THEN unlit[r + k] ELSE Row(scroll + k + r, FALSE)
      BY <1>5
    <2>3. \A q \in 0..room - 1 : unlit[q] = IF q = choice THEN Row(scroll + choice, FALSE) ELSE old[q]
      BY <1>5
    <2> HIDE DEF lit, moved, unlit
    <2>4. \A q \in 0..room - 1 : unlit[q] = IF q < M THEN Row(scroll + q, FALSE) ELSE Blank
      <3> SUFFICES ASSUME NEW q \in 0..room - 1
                   PROVE  unlit[q] = IF q < M THEN Row(scroll + q, FALSE) ELSE Blank
        OBVIOUS
      <3>1. CASE q = choice
        <4>1. q < M
          BY <1>1, <1>4, <3>1
        <4>2. unlit[q] = Row(scroll + choice, FALSE)
          BY <2>3, <3>1
        <4> QED
          BY <3>1, <4>1, <4>2
      <3>2. CASE q # choice
        <4>1. (q = choice) = FALSE
          BY <3>2
        <4>2. old[q] = IF q < M THEN Row(scroll + q, FALSE) ELSE Blank
          BY <1>5, <4>1
        <4> QED
          BY <2>3, <3>2, <4>2
      <3> QED
        BY <3>1, <3>2
    <2>5. CASE r = c
      <3>1. new[r] = Row(scroll + k + c, TRUE)
        <4>1. (r = c) = TRUE /\ r < M
          BY <1>4, <2>5
        <4> QED
          BY <1>6, <2>5, <4>1
      <3> QED
        BY <2>1, <2>5, <3>1
    <2>6. CASE r # c
      <3>1. (r = c) = FALSE
        BY <2>6
      <3>2. new[r] = IF r < M THEN Row(scroll + k + r, FALSE) ELSE Blank
        BY <1>6, <3>1
      <3>3. CASE r + k \in 0..room - 1
        <4>1. moved[r] = IF r + k < M THEN Row(scroll + (r + k), FALSE) ELSE Blank
          BY <2>2, <2>4, <3>3
        <4>2. scroll + (r + k) = scroll + k + r /\ (r + k < M <=> r < M)
          BY <1>1, <1>4, <3>3
        <4> QED
          BY <2>1, <2>6, <3>2, <4>1, <4>2
      <3>4. CASE r + k \notin 0..room - 1
        <4>1. k # 0
          BY <3>4
        <4>2. r < M
          BY <1>4, <4>1
        <4> QED
          BY <2>1, <2>2, <2>6, <3>2, <3>4, <4>2
      <3> QED
        BY <3>3, <3>4
    <2> QED
      BY <2>5, <2>6
  <1>9. lit = [r \in 0..room - 1 |-> lit[r]]
    BY <1>5
  <1>10. rows = old => rows' = lit
    BY DEF MoveTo
  <1> HIDE DEF lit
  <1>11. lit = new
    BY <1>7, <1>8, <1>9
  <1> QED
    BY <1>3, <1>10, <1>11 DEF old, new, M

\* A window that is drawn as a whole shows the item that is to be active.
LEMMA PlaceIs ==
    ASSUME NEW aim \in Nat, NEW h \in Rooms, NEW n \in Rooms, aim < n, savedScroll \in Nat,
           NEW m, m = Min({h, n})
    PROVE  /\ m \in Rooms /\ MenuPlace(aim, m, n) \in 0..n - m /\ aim - MenuPlace(aim, m, n) \in 0..m - 1
           /\ ~KeepsScroll(aim, m, n) /\ aim < m => MenuPlace(aim, m, n) = 0
  <1>1. m \in Rooms /\ m <= n
    BY RoomIs
  <1>2. m \in Nat /\ n \in Nat /\ m >= 1
    BY <1>1 DEF Rooms
  <1>3. CASE KeepsScroll(aim, m, n)
    <2>1. savedScroll <= aim /\ aim < savedScroll + m /\ savedScroll + m <= n
      BY <1>3 DEF KeepsScroll
    <2>2. MenuPlace(aim, m, n) = savedScroll
      BY <1>3 DEF MenuPlace
    <2> QED
      BY <1>1, <1>2, <1>3, <2>1, <2>2
  <1>4. CASE ~KeepsScroll(aim, m, n) /\ aim < m
    <2>1. MenuPlace(aim, m, n) = 0
      BY <1>4 DEF MenuPlace
    <2> QED
      BY <1>1, <1>2, <1>4, <2>1
  <1>5. CASE ~KeepsScroll(aim, m, n) /\ aim >= m
    <2> DEFINE k == m \div 2
    <2>1. k \in Nat /\ 2 * k <= m /\ m <= 2 * k + 1
      BY <1>2
    <2> HIDE DEF k
    <2>2. MenuPlace(aim, m, n) = IF aim >= n - k THEN n - m ELSE aim - k
      <3>1. ~(aim < m)
        BY <1>2, <1>5
      <3> QED
        BY <1>5, <3>1 DEF MenuPlace, k
    <2>3. CASE aim >= n - k
      BY <1>1, <1>2, <1>5, <2>1, <2>2, <2>3
    <2>4. CASE aim < n - k
      BY <1>1, <1>2, <1>5, <2>1, <2>2, <2>4
    <2> QED
      BY <1>2, <2>1, <2>3, <2>4
  <1>6. aim < m \/ aim >= m
    BY <1>2
  <1> QED
    BY <1>3, <1>4, <1>5, <1>6

LEMMA IndexIs ==
    ASSUME Len(listed') \in Nat, DOMAIN listed' = 1..Len(listed'), NEW d, NEW o \in 0..Len(listed') - 1
    PROVE  IndexOf(d, o) \in 0..Len(listed') - 1
  <1> DEFINE found == {i \in DOMAIN listed' : d # None /\ listed'[i].data = d}
  <1>1. IndexOf(d, o) = IF found = {} THEN o ELSE Max(found) - 1
    BY DEF IndexOf
  <1>2. found \subseteq 1..Len(listed')
    OBVIOUS
  <1> HIDE DEF found
  <1>3. ASSUME found # {} PROVE Max(found) \in found
    <2> DEFINE N == Len(listed')
               T == {N - i : i \in found}
    <2>1. N \in Nat
      OBVIOUS
    <2>2. \A i \in found : i \in 1..N
      BY <1>2
    <2> HIDE DEF N
    <2>3. T \in SUBSET Nat /\ T # {}
      BY <1>3, <2>1, <2>2
    <2>4. PICK x \in T : \A y \in T : ~(y < x)
      BY <2>3, LeastNumber
    <2>5. PICK i \in found : x = N - i
      OBVIOUS
    <2>6. \A j \in found : i >= j
      <3> SUFFICES ASSUME NEW j \in found PROVE i >= j
        OBVIOUS
      <3>1. ~(N - j < x)
        BY <2>4
      <3> QED
        BY <2>1, <2>2, <2>5, <3>1
    <2> QED
      BY <2>6 DEF Max
  <1>4. CASE found = {}
    BY <1>1, <1>4
  <1>5. CASE found # {}
    <2>1. Max(found) \in 1..Len(listed')
      BY <1>2, <1>3, <1>5
    <2> QED
      BY <1>1, <1>5, <2>1
  <1> QED
    BY <1>4, <1>5

LEMMA ListStarts == Init /\ tool = "list" => ListInv
  <1> SUFFICES ASSUME Init, tool = "list" PROVE ListInv
    OBVIOUS
  <1>1. PICK kind \in {"menu", "check", "yesno"} : ListInit(kind)
    BY DEF Init, InitDd, InitTee, InitCat, InitBase64, InitDos2unix, InitExecInPipe, InitShell,
           InitMonicall, InitChecksum, InitBox
  <1> QED
    BY <1>1 DEF ListInv, ListType, ListImage, ListInit

\* A key that keeps the box and leads on in it.
LEMMA ListMoves ==
    ASSUME ListInv, boxPc = "keys", box # "yesno", KeepBox,
           NEW k \in Int, NEW c \in 0..MaxChoice - 1, scroll + k \in 0..Len(listed) - MaxChoice,
           MoveTo(k, c) \/ (UNCHANGED <<rows, scroll, choice>> /\ k = 0 /\ c = choice),
           scroll + choice = place => place' = scroll + k + c,
           place' \in 0..Len(listed) - 1
    PROVE  ListInv'
  <1>1. ListType /\ ListImage
    BY DEF ListInv
  <1>2. UNCHANGED <<box, boxPc, listed, room, firstItem, savedScroll, active, button, shownButton, resized>>
        /\ MaxChoice' = MaxChoice
    BY DEF KeepBox, MaxChoice
  <1>3. /\ scroll' = scroll + k /\ choice' = c
        /\ rows = Drawn(room, MaxChoice, scroll, choice)
             => rows' = Drawn(room, MaxChoice, scroll', choice')
    <2>1. CASE MoveTo(k, c)
      BY <1>1, <1>2, <2>1, MovedRows
    <2>2. CASE UNCHANGED <<rows, scroll, choice>> /\ k = 0 /\ c = choice
      <3>1. scroll \in 0..Len(listed) - MaxChoice
        BY <1>1 DEF ListType
      <3>2. scroll + k = scroll
        BY <2>2, <3>1
      <3>3. UNCHANGED <<rows, room>>
        BY <1>2, <2>2
      <3> QED
        BY <2>2, <3>2, <3>3
    <2> QED
      BY <2>1, <2>2
  <1>4. ListType'
    BY <1>1, <1>2, <1>3 DEF ListType
  <1>5. RowsTrue => RowsTrue'
    BY <1>2, <1>3 DEF RowsTrue, Drawn
  <1>6. ListImage'
    BY <1>1, <1>2, <1>3, <1>4, <1>5 DEF ListImage, ListType
  <1> QED
    BY <1>4, <1>6 DEF ListInv

LEMMA MenuDrawn ==
    ASSUME listed' \in MenuLists \cup CheckLists, NEW h \in Rooms, room' = h,
           NEW c0 \in 0..Len(listed') - 1, NEW f0, DrawMenu(h, c0, f0), savedScroll \in Nat
    PROVE  /\ boxPc' \in {"keys", "crashed"}
           /\ choice' \in 0..MaxChoice' - 1 /\ scroll' \in 0..Len(listed') - MaxChoice'
           /\ place' = scroll' + choice' /\ place' \in 0..Len(listed') - 1
           /\ f0 = 0 => boxPc' = "keys" /\ rows' = Drawn(room', MaxChoice', scroll', choice')
  <1> DEFINE n == Len(listed')
             m == Min({h, n})
             aim == IndexOf(active, c0)
             s == MenuPlace(aim, m, n)
  <1>1. n \in Rooms /\ DOMAIN listed' = 1..n
    BY ListIs
  <1>2. n \in Nat
    BY <1>1 DEF Rooms
  <1>3. aim \in 0..n - 1
    BY <1>1, <1>2, IndexIs
  <1>4. MaxChoice' = m
    BY DEF MaxChoice
  <1>5. /\ scroll' = s /\ choice' = aim - s /\ place' = aim
        /\ firstItem' = IF KeepsScroll(aim, m, n) \/ aim >= m THEN s ELSE f0
        /\ rows' = Drawn(h, m, firstItem', choice')
        /\ boxPc' = IF firstItem' + m > n THEN "crashed" ELSE "keys"
    BY DEF DrawMenu
  <1> HIDE DEF aim, n
  <1>6. aim \in Nat /\ aim < n
    BY <1>2, <1>3
  <1>7. /\ m \in Rooms /\ s \in 0..n - m /\ aim - s \in 0..m - 1
        /\ (~KeepsScroll(aim, m, n) /\ aim < m => s = 0)
    BY <1>1, <1>6, PlaceIs
  <1> HIDE DEF m, s
  <1>8. m \in Nat /\ s \in Nat /\ s + m <= n
    BY <1>2, <1>7 DEF Rooms
  <1>9. ASSUME f0 = 0 PROVE firstItem' = s /\ boxPc' = "keys"
    <2>1. CASE KeepsScroll(aim, m, n) \/ aim >= m
      BY <1>5, <1>8, <1>2, <2>1
    <2>2. CASE ~KeepsScroll(aim, m, n) /\ ~(aim >= m)
      <3>1. s = 0
        BY <1>6, <1>7, <1>8, <2>2
      <3> QED
        BY <1>2, <1>5, <1>8, <1>9, <2>2, <3>1
    <2> QED
      BY <2>1, <2>2
  <1>10. place' = scroll' + choice' /\ place' \in 0..n - 1
    BY <1>3, <1>5, <1>6, <1>8
  <1>11. ASSUME f0 = 0 PROVE rows' = Drawn(room', m, scroll', choice')
    BY <1>5, <1>9, <1>11
  <1> QED
    BY <1>4, <1>5, <1>7, <1>9, <1>10, <1>11 DEF n

LEMMA OpensMenu == ListInv /\ (OpenMenu \/ MenuResize) => ListInv'
  <1> SUFFICES ASSUME ListInv, OpenMenu \/ MenuResize PROVE ListInv'
    OBVIOUS
  <1>1. ListType /\ savedScroll \in Nat /\ savedScroll' = savedScroll
    BY DEF ListInv, ListType, OpenMenu, MenuResize
  <1>2. room' \in MenuRooms /\ room' \in Nat /\ box' = "menu"
    BY ListsAssumption DEF OpenMenu, MenuResize
  <1>3. CASE TooSmall(room')
    <2>1. boxPc' = "exit"
      BY <1>3 DEF OpenMenu, MenuResize, GiveUpBox
    <2> QED
      BY <1>1, <2>1 DEF ListInv, ListType, ListImage
  <1>4. CASE ~TooSmall(room') /\ OpenMenu
    <2>1. listed' \in MenuLists \cup CheckLists /\ room' \in Rooms
      BY <1>2, <1>4 DEF OpenMenu, TooSmall, Rooms
    <2>2. 0 \in 0..Len(listed') - 1
      BY <2>1, ListIs DEF Rooms
    <2>3. DrawMenu(room', 0, 0)
      BY <1>4 DEF OpenMenu
    <2>4. /\ boxPc' = "keys"
          /\ choice' \in 0..MaxChoice' - 1 /\ scroll' \in 0..Len(listed') - MaxChoice'
          /\ place' = scroll' + choice' /\ place' \in 0..Len(listed') - 1
          /\ rows' = Drawn(room', MaxChoice', scroll', choice')
      BY <1>1, <2>1, <2>2, <2>3, MenuDrawn
    <2>5. RowsTrue'
      <3>1. rows' = Drawn(room, MaxChoice, scroll, choice)'
        BY <2>4 DEF Drawn, MaxChoice
      <3> QED
        BY <3>1 DEF RowsTrue
    <2>6. button' = 0 /\ shownButton' = 0
      BY <1>4 DEF OpenMenu
    <2>7. ListType'
      BY <1>1, <1>2, <2>1, <2>4 DEF ListType
    <2>8. ListImage'
      BY <2>4, <2>5, <2>6 DEF ListImage
    <2> QED
      BY <2>7, <2>8 DEF ListInv
  <1>5. CASE ~TooSmall(room') /\ MenuResize
    <2>1. box = "menu" /\ boxPc = "keys" /\ listed' = listed /\ resized' = TRUE
      BY <1>5 DEF MenuResize
    <2>2. listed \in MenuLists \cup CheckLists /\ choice \in 0..MaxChoice - 1 /\ room \in Rooms
      BY <1>1, <2>1 DEF ListType
    <2>3. listed' \in MenuLists \cup CheckLists /\ room' \in Rooms
      BY <1>2, <1>5, <2>1, <2>2 DEF TooSmall, Rooms
    <2>4. choice \in 0..Len(listed') - 1
      <3>1. Len(listed) \in Rooms
        BY <2>2, ListIs
      <3>2. MaxChoice \in Rooms /\ MaxChoice <= Len(listed)
        BY <2>2, <3>1, RoomIs DEF MaxChoice
      <3> QED
        BY <2>1, <2>2, <3>1, <3>2 DEF Rooms
    <2>5. DrawMenu(room', choice, firstItem)
      BY <1>5 DEF MenuResize
    <2>6. /\ choice' \in 0..MaxChoice' - 1 /\ scroll' \in 0..Len(listed') - MaxChoice'
          /\ place' \in 0..Len(listed') - 1
      BY <1>1, <2>3, <2>4, <2>5, MenuDrawn
    <2>7. ListType'
      BY <1>1, <1>2, <2>3, <2>6 DEF ListType
    <2>8. ListImage'
      BY <2>1, <2>6 DEF ListImage
    <2> QED
      BY <2>7, <2>8 DEF ListInv
  <1> QED
    BY <1>3, <1>4, <1>5

LEMMA OpensCheck == ListInv /\ (OpenCheck \/ CheckResize) => ListInv'
  <1> SUFFICES ASSUME ListInv, OpenCheck \/ CheckResize PROVE ListInv'
    OBVIOUS
  <1> DEFINE n == Len(listed')
             m == Min({CheckRoom, n})
  <1>1. ListType /\ savedScroll \in Nat /\ savedScroll' = savedScroll /\ box' = "check"
        /\ CheckRoom \in Rooms /\ boxPc' = "keys" /\ shownButton' = 0
    BY ListsAssumption DEF ListInv, ListType, OpenCheck, CheckResize, DrawCheck, Rooms
  <1>2. /\ listed' \in MenuLists \cup CheckLists /\ room' = CheckRoom
        /\ CheckResize => choice \in 0..MaxChoice - 1 /\ scroll \in 0..Len(listed) - MaxChoice
                          /\ room = CheckRoom /\ listed' = listed
    BY <1>1 DEF OpenCheck, CheckResize, ListType
  <1>3. n \in Rooms /\ DOMAIN listed' = 1..n
    BY <1>2, ListIs
  <1>4. m \in Rooms /\ m <= CheckRoom /\ m <= n /\ (m = CheckRoom \/ m = n)
    BY <1>1, <1>3, RoomIs
  <1>5. MaxChoice' = m
    BY <1>2 DEF MaxChoice
  <1>6. PICK c \in Int, s \in Int :
          /\ DrawCheck(c, s)
          /\ c \in 0..n - 1 /\ s \in 0..n - m /\ (c >= CheckRoom \/ c < m)
          /\ OpenCheck => s = 0 /\ place' = c /\ button' = 0
          /\ CheckResize => place' = scroll' + choice' /\ resized' = TRUE
    <2>1. CASE OpenCheck
      <3>1. PICK d \in {listed'[i].data : i \in DOMAIN listed'} \cup {None} :
              LET aim == IndexOf(active, IndexOf(d, 0)) IN DrawCheck(aim, 0) /\ place' = aim
        BY <2>1 DEF OpenCheck
      <3> DEFINE o == IndexOf(d, 0)
                 aim == IndexOf(active, o)
      <3>2. n \in Nat /\ 0 \in 0..n - 1
        BY <1>3 DEF Rooms
      <3>3. o \in 0..n - 1
        BY <1>3, <3>2, IndexIs
      <3> HIDE DEF o
      <3>4. aim \in 0..n - 1
        BY <1>3, <3>2, <3>3, IndexIs
      <3>5. DrawCheck(aim, 0) /\ place' = aim
        BY <3>1 DEF o
      <3> HIDE DEF aim
      <3>6. button' = 0 /\ ~CheckResize
        BY <2>1, <1>1 DEF OpenCheck, CheckResize
      <3>7. 0 \in 0..n - m /\ (aim >= CheckRoom \/ aim < m)
        BY <1>1, <1>4, <3>2, <3>4 DEF Rooms
      <3>8. aim \in Int
        BY <3>4
      <3> QED
        BY <3>4, <3>5, <3>6, <3>7, <3>8
    <2>2. CASE CheckResize
      <3>1. DrawCheck(choice, scroll) /\ place' = scroll' + choice' /\ resized' = TRUE /\ ~OpenCheck
        BY <2>2 DEF CheckResize, OpenCheck
      <3>2. MaxChoice = m
        BY <1>2, <2>2 DEF MaxChoice
      <3>3. choice \in 0..m - 1 /\ scroll \in 0..n - m
        BY <1>2, <2>2, <3>2
      <3> HIDE DEF m, n
      <3>4. choice \in Int /\ scroll \in Int /\ choice \in 0..n - 1 /\ choice < m
        BY <1>3, <1>4, <3>3 DEF Rooms
      <3> QED
        BY <3>1, <3>3, <3>4
    <2> QED
      BY <2>1, <2>2
  <1>7. /\ choice' = IF c >= CheckRoom THEN CheckRoom - 1 ELSE c
        /\ scroll' = IF c >= CheckRoom THEN c - CheckRoom + 1 ELSE s
        /\ rows' = Drawn(CheckRoom, m, scroll', choice')
    BY <1>6 DEF DrawCheck
  <1> HIDE DEF m, n
  <1>8. n \in Nat /\ m \in Nat /\ CheckRoom \in Nat /\ m >= 1
    BY <1>1, <1>3, <1>4 DEF Rooms
  <1>9. choice' \in 0..m - 1 /\ scroll' \in 0..n - m /\ scroll' + choice' \in 0..n - 1
    BY <1>4, <1>6, <1>7, <1>8
  <1>10. place' \in 0..n - 1 /\ (OpenCheck => scroll' + choice' = place')
    BY <1>4, <1>6, <1>7, <1>8, <1>9
  <1>11. RowsTrue'
    <2>1. rows' = Drawn(room, MaxChoice, scroll, choice)'
      BY <1>2, <1>5, <1>7 DEF Drawn
    <2> QED
      BY <2>1 DEF RowsTrue
  <1>12. ListType'
    BY <1>1, <1>2, <1>5, <1>9, <1>10 DEF ListType, n
  <1>13. ListImage'
    BY <1>1, <1>2, <1>5, <1>6, <1>9, <1>10, <1>11 DEF ListImage, n
  <1> QED
    BY <1>12, <1>13 DEF ListInv

\* Where a key leads in a list without a window.
LEMMA LeadsIs ==
    ASSUME NEW n \in Nat \ {0}, n = Len(listed), NEW p \in Int, Leads(p)
    PROVE  place' = IF p < 0 THEN 0 ELSE IF p > n - 1 THEN n - 1 ELSE p
  <1> DEFINE q == Min({p, n - 1})
  <1>1. q = IF p <= n - 1 THEN p ELSE n - 1
    BY Smallest
  <1> HIDE DEF q
  <1>2. q \in Int
    BY <1>1
  <1>3. Max({0, q}) = IF 0 <= q THEN q ELSE 0
    BY <1>2, Largest
  <1>4. place' = Max({0, q})
    BY DEF Leads, q
  <1> QED
    BY <1>1, <1>2, <1>3, <1>4

\* What is known where a key is pressed in a list.
LEMMA Standing ==
    ASSUME ListInv, boxPc = "keys", box # "yesno"
    PROVE  /\ Len(listed) \in Nat \ {0} /\ MaxChoice \in Nat \ {0} /\ MaxChoice <= Len(listed)
           /\ choice \in 0..MaxChoice - 1 /\ scroll \in 0..Len(listed) - MaxChoice
           /\ place \in 0..Len(listed) - 1
  <1>1. ListType
    BY DEF ListInv
  <1>2. Len(listed) \in Rooms /\ room \in Rooms
    BY <1>1, ListIs DEF ListType
  <1> QED
    BY <1>1, <1>2, RoomIs DEF ListType, MaxChoice, Rooms

LEMMA MenuStep == ListInv /\ (MenuUp \/ MenuDown) => ListInv'
  <1> SUFFICES ASSUME ListInv, MenuUp \/ MenuDown PROVE ListInv'
    OBVIOUS
  <1> DEFINE n == Len(listed)
             M == MaxChoice
  <1>1. boxPc = "keys" /\ box = "menu" /\ KeepBox
    BY DEF MenuUp, MenuDown, Pressing
  <1>2. /\ n \in Nat \ {0} /\ M \in Nat \ {0} /\ M <= n
        /\ choice \in 0..M - 1 /\ scroll \in 0..n - M /\ place \in 0..n - 1
    BY <1>1, Standing
  <1>3. CASE MenuUp
    <2>1. Leads(place - 1)
      BY <1>3 DEF MenuUp
    <2>2. place' = IF place - 1 < 0 THEN 0 ELSE IF place - 1 > n - 1 THEN n - 1 ELSE place - 1
      BY <1>2, <2>1, LeadsIs
    <2>3. Max({choice - 1, 0}) = IF choice - 1 <= 0 THEN 0 ELSE choice - 1
      BY <1>2, Largest
    <2>4. CASE choice < 2 /\ scroll > 0
      <3>1. MoveTo(-1, choice)
        BY <1>3, <2>4 DEF MenuUp
      <3> HIDE DEF n, M
      <3>2. /\ scroll + (-1) \in 0..n - M /\ place' \in 0..n - 1
            /\ scroll + choice = place => place' = scroll + (-1) + choice
        BY <1>2, <2>2, <2>4
      <3> QED
        BY <1>1, <1>2, <3>1, <3>2, ListMoves DEF n, M
    <2>5. CASE ~(choice < 2 /\ scroll > 0)
      <3> DEFINE c == Max({choice - 1, 0})
      <3>1. MoveTo(0, c)
        BY <1>3, <2>5 DEF MenuUp
      <3> HIDE DEF n, M, c
      <3>2. /\ scroll + 0 \in 0..n - M /\ place' \in 0..n - 1 /\ c \in 0..M - 1
            /\ scroll + choice = place => place' = scroll + 0 + c
        BY <1>2, <2>2, <2>3, <2>5 DEF c
      <3> QED
        BY <1>1, <3>1, <3>2, ListMoves DEF n, M
    <2> QED
      BY <2>4, <2>5
  <1>4. CASE MenuDown
    <2>1. Leads(place + 1)
      BY <1>4 DEF MenuDown
    <2>2. place' = IF place + 1 < 0 THEN 0 ELSE IF place + 1 > n - 1 THEN n - 1 ELSE place + 1
      BY <1>2, <2>1, LeadsIs
    <2>3. Min({choice + 1, M - 1}) = IF choice + 1 <= M - 1 THEN choice + 1 ELSE M - 1
      BY <1>2, Smallest
    <2>4. CASE choice > M - 3 /\ scroll + M < n
      <3>1. MoveTo(1, choice)
        BY <1>4, <2>4 DEF MenuDown
      <3> HIDE DEF n, M
      <3>2. /\ scroll + 1 \in 0..n - M /\ place' \in 0..n - 1
            /\ scroll + choice = place => place' = scroll + 1 + choice
        BY <1>2, <2>2, <2>4
      <3> QED
        BY <1>1, <1>2, <3>1, <3>2, ListMoves DEF n, M
    <2>5. CASE ~(choice > M - 3 /\ scroll + M < n)
      <3> DEFINE c == Min({choice + 1, M - 1})
      <3>1. MoveTo(0, c)
        BY <1>4, <2>5 DEF MenuDown
      <3> HIDE DEF n, c
      <3>2. c = IF choice + 1 <= M - 1 THEN choice + 1 ELSE M - 1
        BY <2>3 DEF c
      <3> HIDE DEF M
      <3>3. /\ scroll + 0 \in 0..n - M /\ place' \in 0..n - 1 /\ c \in 0..M - 1
            /\ scroll + choice = place => place' = scroll + 0 + c
        BY <1>2, <2>2, <2>5, <3>2
      <3> QED
        BY <1>1, <3>1, <3>3, ListMoves DEF n, M
    <2> QED
      BY <2>4, <2>5
  <1> QED
    BY <1>3, <1>4

LEMMA MenuPage == ListInv /\ (MenuPageUp \/ MenuPageDown) => ListInv'
  <1> SUFFICES ASSUME ListInv, MenuPageUp \/ MenuPageDown PROVE ListInv'
    OBVIOUS
  <1> DEFINE n == Len(listed)
             M == MaxChoice
  <1>1. boxPc = "keys" /\ box = "menu" /\ KeepBox
    BY DEF MenuPageUp, MenuPageDown, Pressing
  <1>2. /\ n \in Nat \ {0} /\ M \in Nat \ {0} /\ M <= n
        /\ choice \in 0..M - 1 /\ scroll \in 0..n - M /\ place \in 0..n - 1
    BY <1>1, Standing
  <1>3. CASE MenuPageUp
    <2> DEFINE k == Min({M, scroll})
               c == Max({choice - (M - k), 0})
    <2>1. Leads(place - M) /\ MoveTo(-k, c)
      BY <1>3 DEF MenuPageUp
    <2>2. place' = IF place - M < 0 THEN 0 ELSE IF place - M > n - 1 THEN n - 1 ELSE place - M
      BY <1>2, <2>1, LeadsIs
    <2>3. k = IF M <= scroll THEN M ELSE scroll
      BY <1>2, Smallest
    <2> HIDE DEF n, k
    <2>4. k \in Nat
      BY <1>2, <2>3
    <2>5. c = IF choice - (M - k) <= 0 THEN 0 ELSE choice - (M - k)
      BY <1>2, <2>4, Largest
    <2> HIDE DEF c, M
    <2>6. /\ -k \in Int /\ scroll + (-k) \in 0..n - M /\ place' \in 0..n - 1 /\ c \in 0..M - 1
          /\ scroll + choice = place => place' = scroll + (-k) + c
      BY <1>2, <2>2, <2>3, <2>4, <2>5
    <2> QED
      BY <1>1, <2>1, <2>6, ListMoves DEF n, M
  <1>4. CASE MenuPageDown
    <2> DEFINE k == Min({M, n - scroll - M})
               c == Min({choice + (M - k), M - 1})
    <2>1. Leads(place + M) /\ MoveTo(k, c)
      BY <1>4 DEF MenuPageDown
    <2>2. place' = IF place + M < 0 THEN 0 ELSE IF place + M > n - 1 THEN n - 1 ELSE place + M
      BY <1>2, <2>1, LeadsIs
    <2>3. k = IF M <= n - scroll - M THEN M ELSE n - scroll - M
      BY <1>2, Smallest
    <2> HIDE DEF n, k
    <2>4. k \in Nat
      BY <1>2, <2>3
    <2>5. c = IF choice + (M - k) <= M - 1 THEN choice + (M - k) ELSE M - 1
      BY <1>2, <2>4, Smallest
    <2> HIDE DEF c, M
    <2>6. /\ scroll + k \in 0..n - M /\ place' \in 0..n - 1 /\ c \in 0..M - 1
          /\ scroll + choice = place => place' = scroll + k + c
      BY <1>2, <2>2, <2>3, <2>4, <2>5
    <2> QED
      BY <1>1, <2>1, <2>4, <2>6, ListMoves DEF n, M
  <1> QED
    BY <1>3, <1>4

LEMMA CheckStep == ListInv /\ (CheckUp \/ CheckDown) => ListInv'
  <1> SUFFICES ASSUME ListInv, CheckUp \/ CheckDown PROVE ListInv'
    OBVIOUS
  <1> DEFINE n == Len(listed)
             M == MaxChoice
  <1>1. boxPc = "keys" /\ box = "check" /\ KeepBox
    BY DEF CheckUp, CheckDown, Pressing
  <1>2. /\ n \in Nat \ {0} /\ M \in Nat \ {0} /\ M <= n
        /\ choice \in 0..M - 1 /\ scroll \in 0..n - M /\ place \in 0..n - 1
    BY <1>1, Standing
  <1>3. PICK k \in {-1, 0, 1}, c \in Int :
          /\ MoveTo(k, c) \/ (UNCHANGED <<rows, scroll, choice>> /\ k = 0 /\ c = choice)
          /\ scroll + k \in 0..n - M /\ place' \in 0..n - 1 /\ c \in 0..M - 1
          /\ scroll + choice = place => place' = scroll + k + c
    <2>1. CASE CheckUp
      <3>1. Leads(place - 1) /\ IF choice > 0 THEN MoveTo(0, choice - 1)
                                ELSE IF scroll > 0 THEN MoveTo(-1, 0)
                                ELSE UNCHANGED <<rows, scroll, choice>>
        BY <2>1 DEF CheckUp
      <3>2. place' = IF place - 1 < 0 THEN 0 ELSE IF place - 1 > n - 1 THEN n - 1 ELSE place - 1
        BY <1>2, <3>1, LeadsIs
      <3> HIDE DEF n, M
      <3>3. CASE choice > 0
        <4>1. /\ scroll + 0 \in 0..n - M /\ place' \in 0..n - 1 /\ choice - 1 \in 0..M - 1
              /\ scroll + choice = place => place' = scroll + 0 + (choice - 1)
          BY <1>2, <3>2, <3>3
        <4>2. choice - 1 \in Int
          BY <1>2
        <4> QED
          BY <3>1, <3>3, <4>1, <4>2
      <3>4. CASE ~(choice > 0) /\ scroll > 0
        <4>1. /\ scroll + (-1) \in 0..n - M /\ place' \in 0..n - 1 /\ 0 \in 0..M - 1
              /\ scroll + choice = place => place' = scroll + (-1) + 0
          BY <1>2, <3>2, <3>4
        <4> QED
          BY <3>1, <3>4, <4>1
      <3>5. CASE ~(choice > 0) /\ ~(scroll > 0)
        <4>1. /\ scroll + 0 \in 0..n - M /\ place' \in 0..n - 1 /\ choice \in 0..M - 1
              /\ scroll + choice = place => place' = scroll + 0 + choice
          BY <1>2, <3>2, <3>5
        <4>2. choice \in Int
          BY <1>2
        <4> QED
          BY <3>1, <3>5, <4>1, <4>2
      <3> QED
        BY <3>3, <3>4, <3>5
    <2>2. CASE CheckDown
      <3>1. Leads(place + 1) /\ IF choice < M - 1 THEN MoveTo(0, choice + 1)
                                ELSE IF scroll + choice < n - 1 THEN MoveTo(1, choice)
                                ELSE UNCHANGED <<rows, scroll, choice>>
        BY <2>2 DEF CheckDown
      <3>2. place' = IF place + 1 < 0 THEN 0 ELSE IF place + 1 > n - 1 THEN n - 1 ELSE place + 1
        BY <1>2, <3>1, LeadsIs
      <3> HIDE DEF n, M
      <3>3. CASE choice < M - 1
        <4>1. /\ scroll + 0 \in 0..n - M /\ place' \in 0..n - 1 /\ choice + 1 \in 0..M - 1
              /\ scroll + choice = place => place' = scroll + 0 + (choice + 1)
          BY <1>2, <3>2, <3>3
        <4>2. choice + 1 \in Int
          BY <1>2
        <4> QED
          BY <3>1, <3>3, <4>1, <4>2
      <3>4. CASE ~(choice < M - 1) /\ scroll + choice < n - 1
        <4>1. /\ scroll + 1 \in 0..n - M /\ place' \in 0..n - 1 /\ choice \in 0..M - 1
              /\ scroll + choice = place => place' = scroll + 1 + choice
          BY <1>2, <3>2, <3>4
        <4>2. choice \in Int
          BY <1>2
        <4> QED
          BY <3>1, <3>4, <4>1, <4>2
      <3>5. CASE ~(choice < M - 1) /\ ~(scroll + choice < n - 1)
        <4>1. /\ scroll + 0 \in 0..n - M /\ place' \in 0..n - 1 /\ choice \in 0..M - 1
              /\ scroll + choice = place => place' = scroll + 0 + choice
          BY <1>2, <3>2, <3>5
        <4>2. choice \in Int
          BY <1>2
        <4> QED
          BY <3>1, <3>5, <4>1, <4>2
      <3> QED
        BY <3>3, <3>4, <3>5
    <2> QED
      BY <2>1, <2>2
  <1> QED
    BY <1>1, <1>3, ListMoves

\* The least of some rows is one of them.
LEMMA LeastRow ==
    ASSUME NEW S \in SUBSET Nat, S # {}
    PROVE  Min(S) \in S
  <1>1. PICK x \in S : \A y \in S : ~(y < x)
    BY LeastNumber
  <1>2. \A y \in S : x <= y
    BY <1>1
  <1> QED
    BY <1>2 DEF Min

LEMMA Jump == ListInv /\ (MenuJump \/ CheckJump) => ListInv'
  <1> SUFFICES ASSUME ListInv, MenuJump \/ CheckJump PROVE ListInv'
    OBVIOUS
  <1>1. boxPc = "keys" /\ box # "yesno" /\ KeepBox /\ place' = scroll' + choice'
    BY DEF MenuJump, CheckJump, Pressing
  <1>2. /\ Len(listed) \in Nat \ {0} /\ MaxChoice \in Nat \ {0} /\ MaxChoice <= Len(listed)
        /\ choice \in 0..MaxChoice - 1 /\ scroll \in 0..Len(listed) - MaxChoice
    BY <1>1, Standing
  <1>3. PICK S \in SUBSET (0..MaxChoice - 1) : S # {} /\ MoveTo(0, Min(S))
    <2>1. CASE MenuJump
      <3>1. PICK k : Jumps(k) /\ LET below == {r \in RowsWith(k) : r > choice}
                                 IN MoveTo(0, Min(IF below = {} THEN RowsWith(k) ELSE below))
        BY <2>1 DEF MenuJump
      <3> DEFINE below == {r \in RowsWith(k) : r > choice}
                 S == IF below = {} THEN RowsWith(k) ELSE below
      <3>2. RowsWith(k) # {} /\ RowsWith(k) \subseteq 0..MaxChoice - 1
        BY <3>1 DEF Jumps, RowsWith
      <3>3. S \in SUBSET (0..MaxChoice - 1) /\ S # {}
        BY <3>2
      <3>4. MoveTo(0, Min(S))
        BY <3>1
      <3> QED
        BY <3>3, <3>4
    <2>2. CASE CheckJump
      <3>1. PICK k : Jumps(k) /\ MoveTo(0, Min(RowsWith(k)))
        BY <2>2 DEF CheckJump
      <3> QED
        BY <3>1 DEF Jumps, RowsWith
    <2> QED
      BY <2>1, <2>2
  <1> DEFINE c == Min(S)
             M == MaxChoice
  <1>4. c \in 0..M - 1
    <2>1. S \in SUBSET Nat
      BY <1>2, <1>3
    <2> HIDE DEF c
    <2>2. c \in S
      BY <1>3, <2>1, LeastRow DEF c
    <2> QED
      BY <2>2
  <1>5. scroll' = scroll + 0 /\ choice' = c
    BY <1>3 DEF MoveTo
  <1> HIDE DEF c, M
  <1>6. scroll + 0 \in 0..Len(listed) - M /\ place' = scroll + 0 + c /\ place' \in 0..Len(listed) - 1
    BY <1>1, <1>2, <1>4, <1>5 DEF M
  <1> QED
    BY <1>1, <1>3, <1>4, <1>6, ListMoves DEF c, M

LEMMA Leaves == ListInv /\ (MenuReturn \/ CheckReturn \/ YesNoReturn \/ LeaveBox) => ListInv'
  <1> SUFFICES ASSUME ListInv, MenuReturn \/ CheckReturn \/ YesNoReturn \/ LeaveBox PROVE ListInv'
    OBVIOUS
  <1>1. boxPc' \in {"exit", "between"}
    BY DEF MenuReturn, CheckReturn, YesNoReturn, LeaveBox
  <1>2. savedScroll \in Nat
    BY DEF ListInv, ListType
  <1>3. savedScroll' \in {savedScroll, scroll} /\ (savedScroll' = savedScroll \/ Pressing("menu"))
    BY DEF MenuReturn, CheckReturn, YesNoReturn, LeaveBox
  <1>4. savedScroll' \in Nat
    BY <1>2, <1>3, Standing DEF Pressing
  <1> QED
    BY <1>1, <1>4 DEF ListInv, ListType, ListImage

LEMMA ListGoesOn == ListInv /\ (ListNext \/ UNCHANGED listVars) => ListInv'
  <1> SUFFICES ASSUME ListInv, ListNext \/ UNCHANGED listVars PROVE ListInv'
    OBVIOUS
  <1>1. CASE OpenYesNo \/ YesNoResize
    <2>1. box' = "yesno" /\ boxPc' = "keys" /\ savedScroll' = savedScroll
          /\ (resized' = TRUE \/ (shownButton' = 0 /\ button' = 0))
      BY <1>1 DEF OpenYesNo, YesNoResize
    <2> QED
      BY <2>1 DEF ListInv, ListType, ListImage, RowsTrue
  <1>2. CASE TurnButton
    <2>1. /\ UNCHANGED <<box, boxPc, listed, room, choice, scroll, savedScroll, rows, place, resized>>
          /\ shownButton' = button'
      BY <1>2 DEF TurnButton
    <2>2. MaxChoice' = MaxChoice /\ RowsTrue' = RowsTrue
      BY <2>1 DEF MaxChoice, RowsTrue, Drawn
    <2> QED
      BY <2>1, <2>2 DEF ListInv, ListType, ListImage
  <1>3. CASE UNCHANGED listVars
    <2>1. MaxChoice' = MaxChoice /\ RowsTrue' = RowsTrue
      BY <1>3 DEF listVars, MaxChoice, RowsTrue, Drawn
    <2> QED
      BY <1>3, <2>1 DEF ListInv, ListType, ListImage, listVars
  <1> QED
    BY <1>1, <1>2, <1>3, OpensMenu, OpensCheck, MenuStep, MenuPage, CheckStep, Jump, Leaves
    DEF ListNext

-----------------------------------------------------------------------------
\* The text that a newline ends: the page, both ends and the rows are those of
\* the line that the keys lead to.

TextAt(p, h) ==
    /\ page = IF p + h <= lineCount THEN p + h ELSE lineCount
    /\ endReached = (p + h > lineCount)
    /\ pageLength = IF h <= lineCount - p + 1 THEN h ELSE lineCount - p + 1

TextInv ==
    ended =>
        /\ lineCount \in Nat /\ lineCount >= 2
        /\ xpc = "off" => hscroll = 0 /\ beginReached = TRUE /\ top = 1
        /\ xpc = "keys" =>
             /\ boxh \in Nat \ {0} /\ top \in 1..lineCount /\ TextAt(top, boxh)
             /\ beginReached = (top = 1)
             /\ screen = [r \in 0..boxh - 1 |-> Cell(top + r, hscroll)]

LEMMA TextStarts == Init /\ tool = "text" => TextInv
  <1> SUFFICES ASSUME Init, tool = "text" PROVE TextInv
    OBVIOUS
  <1>1. PICK run \in TextRuns : TextInit(run)
    BY DEF Init, InitDd, InitTee, InitCat, InitBase64, InitDos2unix, InitExecInPipe, InitShell,
           InitMonicall, InitChecksum, InitBox
  <1> QED
    BY <1>1, TextsAssumption DEF TextInv, TextInit

LEMMA PageRead ==
    ASSUME ended, lineCount \in Nat, UNCHANGED <<ended, lineCount>>,
           NEW p \in 1..lineCount, NEW h \in Nat \ {0}, ReadPage(p, h)
    PROVE  TextAt(p, h)'
  <1>1. /\ page' = Min({p + h, lineCount})
        /\ endReached' = (p + h - 1 >= lineCount)
        /\ pageLength' = Min({h, Max({lineCount - p + 1, 1})})
    BY DEF ReadPage, Nul
  <1>2. page' = IF p + h <= lineCount THEN p + h ELSE lineCount
    BY <1>1, Smallest
  <1>3. Max({lineCount - p + 1, 1}) = lineCount - p + 1
    BY Largest
  <1>4. pageLength' = IF h <= lineCount - p + 1 THEN h ELSE lineCount - p + 1
    BY <1>1, <1>3, Smallest
  <1>5. endReached' = (p + h > lineCount)
    BY <1>1
  <1> QED
    BY <1>2, <1>4, <1>5 DEF TextAt

\* A page that is printed as a whole.
LEMMA PagePrinted ==
    ASSUME ended, lineCount \in Nat, lineCount >= 2, UNCHANGED <<ended, lineCount>>,
           NEW p \in 1..lineCount, NEW h \in Nat \ {0}, NEW from, PrintPage(p, h, from),
           boxh' = h, hscroll' = from, top' = p, beginReached' = (p = 1), xpc' = "keys"
    PROVE  TextInv'
  <1>1. TextAt(p, h)'
    BY PageRead DEF PrintPage
  <1>2. screen' = [r \in 0..h - 1 |-> Cell(p + r, from)]
    BY DEF PrintPage
  <1>3. TextAt(top, boxh)'
    BY <1>1 DEF TextAt
  <1>4. screen' = [r \in 0..boxh' - 1 |-> Cell(top + r, hscroll)']
    BY <1>2 DEF Cell, Nul
  <1> QED
    BY <1>3, <1>4 DEF TextInv

\* Either the end was read, or the page is full.
LEMMA PageIs ==
    ASSUME lineCount \in Nat, NEW p \in 1..lineCount, NEW h \in Nat \ {0}, TextAt(p, h)
    PROVE  \/ endReached /\ p + h > lineCount /\ page = lineCount /\ pageLength = lineCount - p + 1
           \/ ~endReached /\ p + h <= lineCount /\ page = p + h /\ pageLength = h
  <1>1. /\ page = IF p + h <= lineCount THEN p + h ELSE lineCount
        /\ pageLength = IF h <= lineCount - p + 1 THEN h ELSE lineCount - p + 1
        /\ endReached = (p + h > lineCount)
    BY DEF TextAt
  <1>2. CASE p + h > lineCount
    <2>1. (p + h > lineCount) = TRUE
      BY <1>2
    <2>2. endReached
      BY <1>1, <2>1
    <2> QED
      BY <1>1, <1>2, <2>2
  <1>3. CASE ~(p + h > lineCount)
    <2>1. (p + h > lineCount) = FALSE
      BY <1>3
    <2>2. ~endReached
      BY <1>1, <2>1
    <2> QED
      BY <1>1, <1>3, <2>2
  <1> QED
    BY <1>2, <1>3

\* So many lines back from the page that is on the screen.
LEMMA LinesBack ==
    ASSUME ended, lineCount \in Nat, TextAt(top, boxh), top \in 1..lineCount, boxh \in Nat \ {0},
           NEW n \in Nat \ {0}, NEW q \in Int, q = page - (IF endReached THEN n - 1 ELSE n)
    PROVE  /\ BackLines(n).page = IF q <= 1 THEN 1 ELSE q
           /\ BackLines(n).begin = ((~endReached \/ n > 1) /\ q <= 1)
  <1>1. endReached => page = lineCount
    BY PageIs
  <1>2. page \in Int /\ endReached \in BOOLEAN
    BY PageIs DEF TextAt
  <1> DEFINE m == IF page = Nul /\ endReached /\ n > 0 THEN n - 1 ELSE n
  <1>3. m = IF endReached THEN n - 1 ELSE n
    BY <1>1, <1>2 DEF Nul
  <1>4. BackLines(n) = [page |-> Max({1, page - m}), begin |-> m > 0 /\ page - m <= 1]
    BY DEF BackLines
  <1> HIDE DEF m
  <1>5. page - m = q /\ (m > 0 <=> ~endReached \/ n > 1)
    BY <1>2, <1>3
  <1>6. Max({1, q}) = IF 1 <= q THEN q ELSE 1
    BY Largest
  <1>7. BackLines(n).page = Max({1, q}) /\ BackLines(n).begin = (m > 0 /\ q <= 1)
    BY <1>4, <1>5
  <1> QED
    BY <1>5, <1>6, <1>7

LEMMA TextTurns ==
    TextInv /\ (OpenText \/ TextHome \/ TextEnd \/ TextPageUp \/ TextPageDown) => TextInv'
  <1> SUFFICES ASSUME TextInv, OpenText \/ TextHome \/ TextEnd \/ TextPageUp \/ TextPageDown, ended'
               PROVE  TextInv'
    BY DEF TextInv
  <1> DEFINE L == lineCount
  <1>1. /\ ended /\ UNCHANGED <<ended, lineCount>> /\ xpc' = "keys" /\ L \in Nat /\ L >= 2
    BY DEF TextInv, OpenText, TextHome, TextEnd, TextPageUp, TextPageDown, Reading
  <1>2. ASSUME ~OpenText
        PROVE  /\ boxh \in Nat \ {0} /\ top \in 1..L /\ TextAt(top, boxh) /\ beginReached = (top = 1)
               /\ UNCHANGED <<boxh, hscroll>>
    BY <1>1, <1>2 DEF TextInv, TextHome, TextEnd, TextPageUp, TextPageDown, Reading, SameBox
  <1>3. CASE OpenText
    <2>1. /\ PrintPage(1, boxh', 0) /\ boxh' \in TextRooms /\ xpc = "off"
          /\ UNCHANGED <<beginReached, hscroll, top>>
      BY <1>3 DEF OpenText
    <2>2. boxh' \in Nat \ {0} /\ top' = 1 /\ beginReached' = (1 = 1)
      BY <1>1, <2>1, TextsAssumption DEF TextInv
    <2>3. hscroll' = 0
      BY <1>1, <2>1 DEF TextInv
    <2> QED
      BY <1>1, <2>1, <2>2, <2>3, PagePrinted
  <1>4. CASE TextHome
    <2>1. PrintPage(1, boxh, hscroll) /\ beginReached' = TRUE /\ top' = 1 /\ ~OpenText
      BY <1>1, <1>4 DEF TextHome, OpenText, Reading
    <2>2. 1 \in 1..L /\ boxh \in Nat \ {0} /\ UNCHANGED <<boxh, hscroll>>
      BY <1>1, <1>2, <2>1
    <2>3. beginReached' = (1 = 1)
      BY <2>1
    <2> QED
      BY <1>1, <2>1, <2>2, <2>3, PagePrinted
  <1>5. CASE TextEnd
    <2>1. boxh \in Nat \ {0} /\ UNCHANGED <<boxh, hscroll>>
      BY <1>1, <1>2, <1>5 DEF TextEnd, OpenText, Reading
    <2> DEFINE p == Max({1, L - (boxh - 1)})
    <2>2. /\ PrintPage(p, boxh, hscroll) /\ top' = Max({1, L - boxh + 1})
          /\ beginReached' = (boxh > 1 /\ L - (boxh - 1) <= 1)
      BY <1>1, <1>5 DEF TextEnd, Nul
    <2>3. L - boxh + 1 = L - (boxh - 1)
      BY <1>1, <2>1
    <2>4. p = IF 1 <= L - (boxh - 1) THEN L - (boxh - 1) ELSE 1
      BY <1>1, <2>1, Largest
    <2>5. top' = p
      BY <2>2, <2>3
    <2> HIDE DEF p, L
    <2>6. p \in 1..L /\ beginReached' = (p = 1)
      BY <1>1, <2>1, <2>2, <2>4
    <2> QED
      BY <1>1, <2>1, <2>2, <2>5, <2>6, PagePrinted DEF L
  <1>6. CASE TextPageUp
    <2>1. /\ boxh \in Nat \ {0} /\ top \in 1..L /\ TextAt(top, boxh)
          /\ UNCHANGED <<boxh, hscroll>>
      BY <1>1, <1>2, <1>6 DEF TextPageUp, OpenText, Reading
    <2> DEFINE n == pageLength + boxh
               b == BackLines(n)
               q == top - boxh
    <2>2. beginReached' = b.begin /\ PrintPage(b.page, boxh, hscroll) /\ top' = Max({1, q})
      BY <1>6 DEF TextPageUp
    <2>3. n \in Nat \ {0} /\ n > 1 /\ q \in Int /\ q = page - (IF endReached THEN n - 1 ELSE n)
      BY <1>1, <2>1, PageIs
    <2>4. b.page = (IF q <= 1 THEN 1 ELSE q) /\ b.begin = (q <= 1)
      BY <1>1, <2>1, <2>3, LinesBack
    <2>5. Max({1, q}) = IF 1 <= q THEN q ELSE 1
      BY <2>3, Largest
    <2> HIDE DEF b, n
    <2>6. b.page \in 1..L /\ top' = b.page /\ beginReached' = (b.page = 1)
      BY <1>1, <2>1, <2>2, <2>4, <2>5
    <2> QED
      BY <1>1, <2>1, <2>2, <2>6, PagePrinted
  <1>7. CASE TextPageDown
    <2>1. /\ boxh \in Nat \ {0} /\ top \in 1..L /\ TextAt(top, boxh)
          /\ UNCHANGED <<boxh, hscroll>> /\ ~endReached
      BY <1>1, <1>2, <1>7 DEF TextPageDown, OpenText, Reading
    <2>2. beginReached' = FALSE /\ PrintPage(page, boxh, hscroll) /\ top' = top + boxh
      BY <1>7 DEF TextPageDown
    <2>3. page = top + boxh /\ page \in 1..L /\ page # 1
      BY <1>1, <2>1, PageIs
    <2> QED
      BY <1>1, <2>1, <2>2, <2>3, PagePrinted
  <1> QED
    BY <1>3, <1>4, <1>5, <1>6, <1>7

LEMMA TextSideways == TextInv /\ (TextLeft \/ TextRight \/ TextResize) => TextInv'
  <1> SUFFICES ASSUME TextInv, TextLeft \/ TextRight \/ TextResize, ended'
               PROVE  TextInv'
    BY DEF TextInv
  <1> DEFINE L == lineCount
  <1>1. /\ ended /\ UNCHANGED <<ended, lineCount>> /\ xpc' = "keys" /\ L \in Nat /\ L >= 2
        /\ boxh \in Nat \ {0} /\ top \in 1..L /\ TextAt(top, boxh)
    BY DEF TextInv, TextLeft, TextRight, TextResize, Reading
  <1>2. CASE TextLeft \/ TextRight
    <2> DEFINE b == BackLines(pageLength)
    <2>1. PICK from : Sideways(from)
      BY <1>2 DEF TextLeft, TextRight
    <2>2. beginReached' = b.begin /\ PrintPage(b.page, boxh, from) /\ hscroll' = from
          /\ UNCHANGED <<boxh, top>>
      BY <2>1 DEF Sideways
    <2>3. /\ pageLength \in Nat \ {0} /\ top = page - (IF endReached THEN pageLength - 1 ELSE pageLength)
          /\ top = 1 => ~endReached \/ pageLength > 1
      BY <1>1, PageIs
    <2>4. b.page = (IF top <= 1 THEN 1 ELSE top) /\ b.begin = ((~endReached \/ pageLength > 1) /\ top <= 1)
      BY <1>1, <2>3, LinesBack
    <2> HIDE DEF b
    <2>5. b.page \in 1..L /\ top' = b.page /\ beginReached' = (b.page = 1)
      BY <1>1, <2>2, <2>3, <2>4
    <2> QED
      BY <1>1, <2>2, <2>5, PagePrinted
  <1>3. CASE TextResize
    <2> DEFINE n == boxh + 4
               b == BackLines(n)
               q == page - (IF endReached THEN n - 1 ELSE n)
    <2>1. /\ beginReached' = b.begin /\ PrintPage(b.page, boxh', hscroll) /\ top' = b.page
          /\ hscroll' = hscroll /\ boxh' \in Nat \ {0}
      BY <1>3, TextsAssumption DEF TextResize
    <2>2. n \in Nat \ {0} /\ n > 1 /\ q \in Int /\ q <= L
      BY <1>1, PageIs
    <2>3. b.page = (IF q <= 1 THEN 1 ELSE q) /\ b.begin = (q <= 1)
      BY <1>1, <2>2, LinesBack
    <2> HIDE DEF b, n, q
    <2>4. b.page \in 1..L /\ beginReached' = (b.page = 1)
      BY <1>1, <2>1, <2>2, <2>3
    <2> QED
      BY <1>1, <2>1, <2>4, PagePrinted
  <1> QED
    BY <1>2, <1>3

LEMMA TextSteps == TextInv /\ (TextUp \/ TextDown) => TextInv'
  <1> SUFFICES ASSUME TextInv, TextUp \/ TextDown, ended'
               PROVE  TextInv'
    BY DEF TextInv
  <1> DEFINE L == lineCount
  <1>0. PICK h \in Nat \ {0} : h = boxh
    BY DEF TextInv, TextUp, TextDown, Reading
  <1>1. /\ ended /\ UNCHANGED <<ended, lineCount, boxh, hscroll>> /\ xpc' = "keys"
        /\ L \in Nat /\ L >= 2
        /\ top \in 1..L /\ TextAt(top, h) /\ beginReached = (top = 1)
        /\ screen = [r \in 0..h - 1 |-> Cell(top + r, hscroll)]
    BY <1>0 DEF TextInv, TextUp, TextDown, Reading, SameBox
  <1>3. ASSUME NEW p \in 1..L, top' = p, TextAt(p, h)', beginReached' = (p = 1),
               screen' = [r \in 0..h - 1 |-> Cell(p + r, hscroll)]
        PROVE  TextInv'
    <2>1. boxh' = h /\ hscroll' = hscroll
      BY <1>0, <1>1
    <2>2. TextAt(top, boxh)'
      BY <1>3, <2>1 DEF TextAt
    <2>3. screen' = [r \in 0..boxh' - 1 |-> Cell(top + r, hscroll)']
      BY <1>1, <1>3, <2>1 DEF Cell, Nul
    <2> QED
      BY <1>1, <1>3, <2>1, <2>2, <2>3 DEF TextInv
  <1>4. CASE TextUp
    <2> DEFINE n == pageLength + 1
               b == BackLines(n)
               q == top - 1
    <2>0. h = boxh /\ TextAt(top, boxh) /\ boxh \in Nat \ {0}
      BY <1>0, <1>1
    <2>1. /\ beginReached' = b.begin /\ ReadPage(b.page, h) /\ ~beginReached
          /\ screen' = [r \in DOMAIN screen |-> IF r = 0 THEN Cell(b.page, hscroll)
                                                ELSE screen[r - 1]]
          /\ top' = Max({1, q})
      BY <1>4, <2>0 DEF TextUp
    <2>2. n \in Nat \ {0} /\ n > 1 /\ q \in Int /\ q = page - (IF endReached THEN n - 1 ELSE n) /\ q >= 1
      <3>1. top # 1
        BY <1>1, <2>1
      <3>2. \/ endReached /\ page = L /\ pageLength = L - top + 1
            \/ ~endReached /\ page = top + h /\ pageLength = h
        BY <1>1, PageIs
      <3>3. n \in Nat \ {0} /\ n > 1 /\ q \in Int /\ q >= 1
        BY <1>1, <3>1, <3>2
      <3>4. q = page - (IF endReached THEN n - 1 ELSE n)
        BY <1>1, <3>2
      <3> QED
        BY <3>3, <3>4
    <2>3. b.page = (IF q <= 1 THEN 1 ELSE q) /\ b.begin = (q <= 1)
      BY <1>1, <2>0, <2>2, LinesBack
    <2>4. Max({1, q}) = IF 1 <= q THEN q ELSE 1
      BY <2>2, Largest
    <2> HIDE DEF b, n
    <2>5. b.page = q /\ top' = q /\ q \in 1..L /\ beginReached' = (q = 1)
      BY <1>1, <2>1, <2>2, <2>3, <2>4
    <2>6. PICK p \in 1..L : p = q
      BY <2>5
    <2>7. TextAt(p, h)'
      BY <1>1, <2>1, <2>5, <2>6, PageRead
    <2>8. screen' = [r \in 0..h - 1 |-> Cell(q + r, hscroll)]
      <3> SUFFICES ASSUME NEW r \in 0..h - 1
                   PROVE  (IF r = 0 THEN Cell(q, hscroll) ELSE screen[r - 1]) = Cell(q + r, hscroll)
        BY <1>1, <2>1, <2>5
      <3>1. CASE r = 0
        <4>1. q + r = q
          BY <2>2, <3>1
        <4> QED
          BY <3>1, <4>1
      <3>2. CASE r # 0
        <4>1. r - 1 \in 0..h - 1 /\ top + (r - 1) = q + r
          BY <1>1, <3>2
        <4>2. screen[r - 1] = Cell(top + (r - 1), hscroll)
          BY <1>1, <4>1
        <4> QED
          BY <3>2, <4>1, <4>2
      <3> QED
        BY <3>1, <3>2
    <2> QED
      BY <1>3, <2>5, <2>6, <2>7, <2>8
  <1>5. CASE TextDown
    <2> DEFINE q == top + 1
    <2>1. /\ beginReached' = FALSE /\ ~endReached /\ pageLength' = pageLength
          /\ screen' = [r \in DOMAIN screen |-> IF r = h - 1 THEN Cell(page, hscroll)
                                                ELSE screen[r + 1]]
          /\ page' = Min({page + 1, L}) /\ endReached' = (page >= L) /\ top' = q
      BY <1>0, <1>1, <1>5 DEF TextDown, Nul
    <2>2. page = top + h /\ pageLength = h /\ page \in 1..L
      BY <1>1, <2>1, PageIs
    <2>3. Min({page + 1, L}) = IF page + 1 <= L THEN page + 1 ELSE L
      BY <1>1, <2>2, Smallest
    <2>4. q \in 1..L /\ beginReached' = (q = 1)
      <3>1. q \in 1..L /\ (q = 1) = FALSE
        BY <1>1, <2>2
      <3> QED
        BY <2>1, <3>1
    <2>5. /\ page' = IF q + h <= L THEN q + h ELSE L
          /\ endReached' = (q + h > L)
          /\ pageLength' = IF h <= L - q + 1 THEN h ELSE L - q + 1
      BY <1>1, <2>1, <2>2, <2>3
    <2>6. PICK p \in 1..L : p = q
      BY <2>4
    <2>8. TextAt(p, h)'
      BY <1>1, <2>1, <2>5, <2>6 DEF TextAt
    <2>7. screen' = [r \in 0..h - 1 |-> Cell(q + r, hscroll)]
      <3> SUFFICES ASSUME NEW r \in 0..h - 1
                   PROVE  (IF r = h - 1 THEN Cell(page, hscroll) ELSE screen[r + 1]) = Cell(q + r, hscroll)
        BY <1>1, <2>1
      <3>1. CASE r = h - 1
        <4>1. q + r = page
          BY <1>1, <2>2, <3>1
        <4> QED
          BY <3>1, <4>1
      <3>2. CASE r # h - 1
        <4>1. r + 1 \in 0..h - 1 /\ top + (r + 1) = q + r
          BY <1>1, <3>2
        <4>2. screen[r + 1] = Cell(top + (r + 1), hscroll)
          BY <1>1, <4>1
        <4> QED
          BY <3>2, <4>1, <4>2
      <3> QED
        BY <3>1, <3>2
    <2> QED
      BY <1>3, <2>1, <2>4, <2>6, <2>7, <2>8
  <1> QED
    BY <1>4, <1>5

LEMMA TextGoesOn == TextInv /\ (TextNext \/ UNCHANGED textVars) => TextInv'
  <1> SUFFICES ASSUME TextInv, TextNext \/ UNCHANGED textVars PROVE TextInv'
    OBVIOUS
  <1>1. CASE TextClose
    BY <1>1 DEF TextInv, TextClose
  <1>2. CASE UNCHANGED textVars
    <2>1. \A l, from : Cell(l, from)' = Cell(l, from)
      BY <1>2 DEF Cell, Nul, textVars
    <2>2. TextAt(top, boxh)' = TextAt(top, boxh)
      BY <1>2 DEF TextAt, textVars
    <2> QED
      BY <1>2, <2>1, <2>2 DEF TextInv, textVars
  <1> QED
    BY <1>1, <1>2, TextTurns, TextSideways, TextSteps DEF TextNext

LEMMA TextShows == TextInv => TextImage
  <1> SUFFICES ASSUME TextInv, xpc = "keys", ended PROVE TextImage
    BY DEF TextImage
  <1> QED
    BY DEF TextInv, TextImage, TextAt

-----------------------------------------------------------------------------
\* The line that is typed: it is in the first bytes, with a NUL behind it, and
\* the field shows its end.  What an earlier box left behind the NUL comes
\* into sight nowhere: the bytes that a field scrolled to the right has beyond
\* the line are NUL.

LineLetters == InputLetters \cup UNION {{l[i] : i \in DOMAIN l} : l \in FirstInputs}
LineBytes == LineLetters \cup {End0, "stale"}

LineIs ==
    /\ typed \in Seq(LineLetters) /\ Len(typed) <= MaxInput
    /\ instr \in [1..MaxInput + 1 -> LineBytes]
    /\ \A i \in 1..Len(typed) : instr[i] = typed[i]
    /\ instr[Len(typed) + 1] = End0

FieldIs ==
    /\ fieldScroll \in Nat /\ inputX \in 0..FieldWidth - 1 /\ fieldScroll + inputX = Len(typed)
    /\ cells = [i \in 0..FieldWidth - 1 |-> IF i < inputX THEN typed[fieldScroll + i + 1] ELSE NoChar]
    /\ fieldScroll > 0 => /\ fieldScroll + FieldWidth <= MaxInput + 1
                          /\ \A j \in (Len(typed) + 1)..(fieldScroll + FieldWidth) : instr[j] = End0

InputInv ==
    ~redrawn =>
        /\ ipc \in {"off", "keys", "exit"} /\ LineIs
        /\ ipc = "off" => fieldScroll = 0 /\ inputButton = -1
        /\ ipc = "keys" => /\ FieldIs
                           /\ inputButton \in {-1, 0, 1}
                           /\ shownInput = IF inputButton = 1 THEN 1 ELSE 0

LEMMA NoNul == End0 \notin LineLetters
  BY InputsAssumption DEF LineLetters

LEMMA LengthIs ==
    ASSUME LineIs
    PROVE  Length = Len(typed)
  <1> DEFINE S == {i \in DOMAIN instr : instr[i] = End0}
             n == Len(typed)
  <1>1. n \in Nat /\ n <= MaxInput /\ DOMAIN instr = 1..MaxInput + 1 /\ MaxInput \in Nat
    BY InputsAssumption DEF LineIs
  <1>2. n + 1 \in S
    BY <1>1 DEF LineIs
  <1>3. \A i \in S : n + 1 <= i
    <2> SUFFICES ASSUME NEW i \in S, i < n + 1 PROVE FALSE
      BY <1>1
    <2>1. i \in 1..n
      BY <1>1
    <2>2. instr[i] = typed[i] /\ typed[i] \in LineLetters
      BY <2>1 DEF LineIs
    <2> QED
      BY <2>2, NoNul
  <1>4. S \in SUBSET Nat
    BY <1>1
  <1> HIDE DEF S, n
  <1>5. Min(S) \in S /\ (\A y \in S : Min(S) <= y)
    <2>1. \E x \in S : \A y \in S : x <= y
      BY <1>2, <1>3
    <2> QED
      BY <2>1 DEF Min
  <1>6. Min(S) = n + 1
    <2> DEFINE m == Min(S)
    <2>1. m \in Nat /\ n + 1 <= m /\ m <= n + 1
      BY <1>2, <1>3, <1>4, <1>5
    <2> HIDE DEF m
    <2>2. m = n + 1
      BY <1>1, <2>1
    <2> QED
      BY <2>2 DEF m
  <1> QED
    BY <1>1, <1>6 DEF Length, S, n

LEMMA InputStarts == Init /\ tool = "input" => InputInv
  <1> SUFFICES ASSUME Init, tool = "input" PROVE InputInv
    OBVIOUS
  <1>1. PICK first \in FirstInputs, stale \in {0, MaxInput} : InputInit(first, stale)
    BY DEF Init, InitDd, InitTee, InitCat, InitBase64, InitDos2unix, InitExecInPipe, InitShell,
           InitMonicall, InitChecksum, InitBox
  <1> DEFINE T == {first[i] : i \in DOMAIN first}
  <1>2. first \in Seq(T) /\ Len(first) <= MaxInput /\ MaxInput \in Nat
    BY InputsAssumption
  <1>3. T \subseteq LineLetters
    BY DEF LineLetters
  <1>4. first \in Seq(LineLetters)
    BY <1>2, <1>3
  <1>5. typed = first /\ ipc = "off" /\ fieldScroll = 0 /\ inputButton = -1
        /\ instr = [i \in 1..MaxInput + 1 |->
                      IF i <= Len(first) THEN first[i]
                      ELSE IF i = Len(first) + 1 \/ i > stale THEN End0 ELSE "stale"]
    BY <1>1 DEF InputInit
  <1>6. \A i \in 1..Len(first) : first[i] \in LineLetters
    BY <1>4
  <1>7. instr \in [1..MaxInput + 1 -> LineBytes]
    <2> SUFFICES ASSUME NEW i \in 1..MaxInput + 1
                 PROVE  (IF i <= Len(first) THEN first[i]
                         ELSE IF i = Len(first) + 1 \/ i > stale THEN End0 ELSE "stale") \in LineBytes
      BY <1>5
    <2> QED
      BY <1>2, <1>6 DEF LineBytes
  <1>8. LineIs
    BY <1>2, <1>4, <1>5, <1>7 DEF LineIs
  <1> QED
    BY <1>5, <1>8 DEF InputInv

LEMMA InputOpens == InputInv /\ OpenInput => InputInv'
  <1> SUFFICES ASSUME InputInv, OpenInput, ~redrawn' PROVE InputInv'
    BY DEF InputInv
  <1> DEFINE n == Len(typed)
             W == FieldWidth
             s == IF n >= W THEN n - W + 1 ELSE 0
  <1>1. /\ ipc' = "keys" /\ LineIs /\ fieldScroll = 0 /\ inputButton = -1
        /\ UNCHANGED <<instr, inputButton, typed>>
    BY DEF InputInv, OpenInput
  <1>2. n \in Nat /\ W \in Nat \ {0} /\ n <= MaxInput /\ MaxInput \in Nat
    BY <1>1, InputsAssumption DEF LineIs
  <1>3. /\ fieldScroll' = (IF n >= W THEN s ELSE 0) /\ inputX' = n - s /\ shownInput' = 0
        /\ cells' = [i \in 0..W - 1 |-> IF i < n - s THEN instr[s + i + 1] ELSE NoChar]
    BY <1>1, LengthIs DEF OpenInput, DrawInput
  <1> HIDE DEF W, n
  <1>4. s \in Nat /\ n - s \in 0..W - 1 /\ s + (n - s) = n /\ (s > 0 => s + W = n + 1) /\ s <= n
        /\ fieldScroll' = s
    BY <1>2, <1>3
  <1> HIDE DEF s
  <1>5. cells' = [i \in 0..W - 1 |-> IF i < n - s THEN typed[s + i + 1] ELSE NoChar]
    <2> SUFFICES ASSUME NEW i \in 0..W - 1, i < n - s PROVE instr[s + i + 1] = typed[s + i + 1]
      BY <1>3
    <2>1. s + i + 1 \in 1..n
      BY <1>2, <1>4
    <2> QED
      BY <1>1, <2>1 DEF LineIs, n
  <1>6. LineIs'
    BY <1>1 DEF LineIs
  <1>7. s > 0 => s + W <= MaxInput + 1 /\ \A j \in (n + 1)..(s + W) : instr[j] = End0
    <2> SUFFICES ASSUME s > 0 PROVE s + W <= MaxInput + 1 /\ \A j \in (n + 1)..(s + W) : instr[j] = End0
      OBVIOUS
    <2>1. s + W = n + 1 /\ instr[n + 1] = End0
      BY <1>1, <1>4 DEF LineIs, n
    <2> QED
      BY <1>2, <2>1
  <1>8. FieldIs'
    BY <1>1, <1>3, <1>4, <1>5, <1>7 DEF FieldIs, W, n
  <1> QED
    BY <1>1, <1>3, <1>6, <1>8 DEF InputInv

\* What is known where a key is pressed in the field.
LEMMA InTheField ==
    ASSUME InputInv, Editing, ~redrawn
    PROVE  /\ ipc = "keys" /\ ipc' = "keys" /\ LineIs /\ FieldIs
           /\ UNCHANGED <<inputButton, shownInput, redrawn>>
           /\ (LineIs' /\ FieldIs' => InputInv')
  <1>1. ipc = "keys" /\ ipc' = "keys" /\ UNCHANGED <<inputButton, shownInput, redrawn>>
    BY DEF Editing, InField
  <1>2. LineIs /\ FieldIs /\ inputButton \in {-1, 0, 1} /\ shownInput = IF inputButton = 1 THEN 1 ELSE 0
    BY <1>1 DEF InputInv
  <1> QED
    BY <1>1, <1>2 DEF InputInv

LEMMA TypesLetter == InputInv /\ InputLetter => InputInv'
  <1> SUFFICES ASSUME InputInv, InputLetter, ~redrawn' PROVE InputInv'
    BY DEF InputInv
  <1> DEFINE n == Len(typed)
             W == FieldWidth
             p == fieldScroll + inputX
  <1>1. Editing /\ ~redrawn
    BY DEF InputLetter, Editing
  <1>2. LineIs /\ FieldIs
    BY <1>1, InTheField
  <1>3. PICK c \in InputLetters :
          /\ p < MaxInput
          /\ instr' = [instr EXCEPT ![p + 1] = c, ![p + 2] = End0]
          /\ typed' = Append(typed, c)
          /\ IF inputX = W - 1
               THEN /\ fieldScroll' = fieldScroll + 1
                    /\ cells' = [i \in DOMAIN cells |->
                                   IF i < W - 1 THEN instr'[fieldScroll' + i + 1] ELSE cells[i]]
                    /\ UNCHANGED inputX
               ELSE /\ cells' = [cells EXCEPT ![inputX] = c]
                    /\ inputX' = inputX + 1
                    /\ UNCHANGED fieldScroll
    BY <1>1 DEF InputLetter, Makes
  <1>4. /\ n \in Nat /\ W \in Nat \ {0} /\ MaxInput \in Nat /\ p = n /\ n + 1 <= MaxInput
        /\ fieldScroll \in Nat /\ inputX \in 0..W - 1
    BY <1>2, <1>3, InputsAssumption DEF LineIs, FieldIs
  <1>5. c \in LineLetters
    BY DEF LineLetters
  <1>6. typed' \in Seq(LineLetters) /\ Len(typed') = n + 1 /\ typed'[n + 1] = c
        /\ \A i \in 1..n : typed'[i] = typed[i]
    BY <1>2, <1>3, <1>5 DEF LineIs
  <1>7. /\ instr' \in [1..MaxInput + 1 -> LineBytes]
        /\ instr'[n + 1] = c /\ instr'[n + 2] = End0
        /\ \A i \in 1..MaxInput + 1 : i # n + 1 /\ i # n + 2 => instr'[i] = instr[i]
    BY <1>2, <1>3, <1>4, <1>5 DEF LineIs, LineBytes
  <1>8. \A i \in 1..n + 1 : instr'[i] = typed'[i]
    <2> SUFFICES ASSUME NEW i \in 1..n + 1 PROVE instr'[i] = typed'[i]
      OBVIOUS
    <2>1. CASE i = n + 1
      BY <1>6, <1>7, <2>1
    <2>2. CASE i # n + 1
      <3>1. i \in 1..n /\ i \in 1..MaxInput + 1 /\ i # n + 2
        BY <1>4, <2>2
      <3> QED
        BY <1>2, <1>6, <1>7, <2>2, <3>1 DEF LineIs
    <2> QED
      BY <2>1, <2>2
  <1>9. LineIs'
    BY <1>4, <1>6, <1>7, <1>8 DEF LineIs
  <1>10. /\ DOMAIN cells = 0..W - 1
         /\ \A i \in 0..W - 1 : cells[i] = IF i < inputX THEN typed[fieldScroll + i + 1] ELSE NoChar
    BY <1>2 DEF FieldIs
  <1>11. CASE inputX = W - 1
    <2>1. /\ fieldScroll' = fieldScroll + 1 /\ inputX' = inputX
          /\ cells' = [i \in 0..W - 1 |->
                         IF i < W - 1 THEN instr'[fieldScroll' + i + 1] ELSE cells[i]]
      <3>1. fieldScroll' = fieldScroll + 1 /\ inputX' = inputX
        BY <1>3, <1>11
      <3>2. cells' = [i \in DOMAIN cells |->
                        IF i < W - 1 THEN instr'[fieldScroll' + i + 1] ELSE cells[i]]
        BY <1>3, <1>11
      <3> QED
        BY <1>10, <3>1, <3>2
    <2>2. fieldScroll' \in Nat /\ inputX' \in 0..W - 1 /\ fieldScroll' + inputX' = Len(typed')
          /\ fieldScroll' + W = n + 2
      <3>1. Len(typed') = n + 1 /\ inputX' = W - 1 /\ fieldScroll' = fieldScroll + 1
        BY <1>6, <1>11, <2>1
      <3> HIDE DEF n, W
      <3>2. fieldScroll + (W - 1) = n /\ W - 1 \in 0..W - 1 /\ fieldScroll + 1 \in Nat
            /\ fieldScroll + 1 + (W - 1) = n + 1 /\ fieldScroll + 1 + W = n + 2
        BY <1>4, <1>11
      <3> QED
        BY <3>1, <3>2
    <2>3. cells' = [i \in 0..W - 1 |-> IF i < inputX' THEN typed'[fieldScroll' + i + 1] ELSE NoChar]
      <3> SUFFICES ASSUME NEW i \in 0..W - 1
                   PROVE  (IF i < W - 1 THEN instr'[fieldScroll' + i + 1] ELSE cells[i])
                          = IF i < inputX' THEN typed'[fieldScroll' + i + 1] ELSE NoChar
        BY <2>1
      <3>1. CASE i < W - 1
        <4>1. fieldScroll' + i + 1 \in 1..n + 1 /\ i < inputX'
          BY <1>4, <1>11, <2>1, <2>2, <3>1
        <4> QED
          BY <1>8, <3>1, <4>1
      <3>2. CASE ~(i < W - 1)
        <4>1. ~(i < inputX') /\ ~(i < inputX)
          BY <1>11, <2>1, <3>2
        <4> QED
          BY <1>10, <3>2, <4>1
      <3> QED
        BY <3>1, <3>2
    <2>4. \A j \in (Len(typed') + 1)..(fieldScroll' + W) : instr'[j] = End0
      <3> HIDE DEF n, W
      <3>1. Len(typed') + 1 = n + 2 /\ fieldScroll' + W = n + 2
        <4>1. Len(typed') = n + 1 /\ fieldScroll' + W = n + 2
          BY <1>6, <2>2
        <4>2. (n + 1) + 1 = n + 2
          BY <1>4
        <4> QED
          BY <4>1, <4>2
      <3>2. \A j \in (n + 2)..(n + 2) : j = n + 2
        BY <1>4
      <3> QED
        BY <1>7, <3>1, <3>2
    <2>5. fieldScroll' + W <= MaxInput + 1
      <3> HIDE DEF n, W
      <3>1. n + 2 <= MaxInput + 1
        BY <1>4
      <3>2. fieldScroll' + W = n + 2
        BY <2>2
      <3> QED
        BY <3>1, <3>2
    <2>6. FieldIs'
      BY <2>2, <2>3, <2>4, <2>5 DEF FieldIs
    <2> QED
      BY <1>1, <1>9, <2>6, InTheField
  <1>12. CASE inputX # W - 1
    <2>1. fieldScroll' = fieldScroll /\ inputX' = inputX + 1 /\ cells' = [cells EXCEPT ![inputX] = c]
      BY <1>3, <1>12
    <2>2. inputX' \in 0..W - 1 /\ fieldScroll' + inputX' = Len(typed')
      BY <1>4, <1>6, <1>12, <2>1
    <2>3. cells' = [i \in 0..W - 1 |-> IF i < inputX' THEN typed'[fieldScroll' + i + 1] ELSE NoChar]
      <3>1. cells' = [i \in 0..W - 1 |-> IF i = inputX THEN c ELSE cells[i]]
        BY <1>10, <2>1
      <3> SUFFICES ASSUME NEW i \in 0..W - 1
                   PROVE  (IF i = inputX THEN c ELSE cells[i])
                          = IF i < inputX' THEN typed'[fieldScroll' + i + 1] ELSE NoChar
        BY <3>1
      <3>2. CASE i = inputX
        <4>1. fieldScroll' + i + 1 = n + 1 /\ i < inputX'
          BY <1>4, <2>1, <3>2
        <4> QED
          BY <1>6, <3>2, <4>1
      <3>3. CASE i < inputX
        <4>1. fieldScroll' + i + 1 \in 1..n /\ i < inputX' /\ i # inputX
          BY <1>4, <2>1, <3>3
        <4>2. cells[i] = typed[fieldScroll + i + 1]
          BY <1>10, <3>3
        <4> QED
          BY <1>6, <2>1, <4>1, <4>2
      <3>4. CASE i > inputX
        <4>1. ~(i < inputX') /\ i # inputX /\ ~(i < inputX)
          BY <1>4, <2>1, <3>4
        <4> QED
          BY <1>10, <4>1
      <3> QED
        BY <1>4, <3>2, <3>3, <3>4
    <2>4. ASSUME fieldScroll' > 0
          PROVE  /\ fieldScroll' + W <= MaxInput + 1
                 /\ \A j \in (Len(typed') + 1)..(fieldScroll' + W) : instr'[j] = End0
      <3>1. fieldScroll + W <= MaxInput + 1 /\ \A j \in (n + 1)..(fieldScroll + W) : instr[j] = End0
        BY <1>2, <2>1, <2>4 DEF FieldIs
      <3> SUFFICES ASSUME NEW j \in (n + 2)..(fieldScroll + W) PROVE instr'[j] = End0
        BY <1>4, <1>6, <2>1, <3>1
      <3>2. j \in (n + 1)..(fieldScroll + W) /\ j \in 1..MaxInput + 1 /\ j # n + 1
        BY <1>4, <3>1
      <3> QED
        BY <1>7, <3>1, <3>2
    <2>5. FieldIs'
      BY <1>4, <2>1, <2>2, <2>3, <2>4 DEF FieldIs
    <2> QED
      BY <1>1, <1>9, <2>5, InTheField
  <1> QED
    BY <1>11, <1>12

LEMMA TakesBack == InputInv /\ InputBackspace => InputInv'
  <1> SUFFICES ASSUME InputInv, InputBackspace, ~redrawn' PROVE InputInv'
    BY DEF InputInv
  <1> DEFINE n == Len(typed)
             W == FieldWidth
  <1>1. Editing /\ ~redrawn
    BY DEF InputBackspace, Editing
  <1>2. LineIs /\ FieldIs
    BY <1>1, InTheField
  <1>3. /\ inputX # 0 /\ inputX' = inputX - 1 /\ fieldScroll' = fieldScroll
        /\ instr' = [instr EXCEPT ![fieldScroll + inputX] = End0]
        /\ cells' = [cells EXCEPT ![inputX - 1] = NoChar]
        /\ typed' = SubSeq(typed, 1, n - 1)
    BY <1>1 DEF InputBackspace, Makes
  <1>4. /\ n \in Nat /\ W \in Nat \ {0} /\ MaxInput \in Nat /\ fieldScroll + inputX = n /\ n <= MaxInput
        /\ fieldScroll \in Nat /\ inputX \in 0..W - 1 /\ n >= 1
    BY <1>2, <1>3, InputsAssumption DEF LineIs, FieldIs
  <1>5. typed' \in Seq(LineLetters) /\ Len(typed') = n - 1 /\ \A i \in 1..n - 1 : typed'[i] = typed[i]
    <2>1. typed \in Seq(LineLetters)
      BY <1>2 DEF LineIs
    <2> QED
      BY <1>3, <1>4, <2>1
  <1>6. /\ instr' \in [1..MaxInput + 1 -> LineBytes] /\ instr'[n] = End0
        /\ \A i \in 1..MaxInput + 1 : i # n => instr'[i] = instr[i]
    BY <1>2, <1>3, <1>4 DEF LineIs, LineBytes
  <1>7. \A i \in 1..n - 1 : instr'[i] = typed'[i]
    <2> SUFFICES ASSUME NEW i \in 1..n - 1 PROVE instr'[i] = typed'[i]
      OBVIOUS
    <2>1. i \in 1..n /\ i \in 1..MaxInput + 1 /\ i # n
      BY <1>4
    <2> QED
      BY <1>2, <1>5, <1>6, <2>1 DEF LineIs
  <1>8. LineIs'
    BY <1>4, <1>5, <1>6, <1>7 DEF LineIs
  <1>9. /\ DOMAIN cells = 0..W - 1
        /\ \A i \in 0..W - 1 : cells[i] = IF i < inputX THEN typed[fieldScroll + i + 1] ELSE NoChar
    BY <1>2 DEF FieldIs
  <1>10. cells' = [i \in 0..W - 1 |-> IF i < inputX' THEN typed'[fieldScroll' + i + 1] ELSE NoChar]
    <2>1. cells' = [i \in 0..W - 1 |-> IF i = inputX - 1 THEN NoChar ELSE cells[i]]
      BY <1>3, <1>9
    <2> SUFFICES ASSUME NEW i \in 0..W - 1
                 PROVE  (IF i = inputX - 1 THEN NoChar ELSE cells[i])
                        = IF i < inputX' THEN typed'[fieldScroll' + i + 1] ELSE NoChar
      BY <2>1
    <2>2. CASE i < inputX - 1
      <3>1. fieldScroll' + i + 1 \in 1..n - 1 /\ i < inputX' /\ i # inputX - 1 /\ i < inputX
        BY <1>3, <1>4, <2>2
      <3> QED
        BY <1>3, <1>5, <1>9, <3>1
    <2>3. CASE ~(i < inputX - 1)
      <3>1. ~(i < inputX') /\ (i = inputX - 1 \/ ~(i < inputX))
        BY <1>3, <1>4, <2>3
      <3> QED
        BY <1>9, <3>1
    <2> QED
      BY <2>2, <2>3
  <1>11. ASSUME fieldScroll' > 0
         PROVE  /\ fieldScroll' + W <= MaxInput + 1
                /\ \A j \in (Len(typed') + 1)..(fieldScroll' + W) : instr'[j] = End0
    <2>1. fieldScroll + W <= MaxInput + 1 /\ \A j \in (n + 1)..(fieldScroll + W) : instr[j] = End0
      BY <1>2, <1>3, <1>11 DEF FieldIs
    <2> SUFFICES ASSUME NEW j \in n..(fieldScroll + W) PROVE instr'[j] = End0
      BY <1>3, <1>4, <1>5, <2>1
    <2>2. CASE j = n
      BY <1>6, <2>2
    <2>3. CASE j # n
      <3>1. j \in (n + 1)..(fieldScroll + W) /\ j \in 1..MaxInput + 1
        BY <1>4, <2>1, <2>3
      <3> QED
        BY <1>6, <2>1, <2>3, <3>1
    <2> QED
      BY <2>2, <2>3
  <1>12. inputX' \in 0..W - 1 /\ fieldScroll' + inputX' = Len(typed')
    BY <1>3, <1>4, <1>5
  <1>13. FieldIs'
    BY <1>3, <1>4, <1>10, <1>11, <1>12 DEF FieldIs
  <1> QED
    BY <1>1, <1>8, <1>13, InTheField

LEMMA Refills == InputInv /\ InputRefill => InputInv'
  <1> SUFFICES ASSUME InputInv, InputRefill, ~redrawn' PROVE InputInv'
    BY DEF InputInv
  <1> DEFINE n == Len(typed)
             W == FieldWidth
             s == IF fieldScroll < W - 1 THEN 0 ELSE fieldScroll - (W - 1)
             x == n - s
  <1>1. Editing /\ ~redrawn
    BY DEF InputRefill, Editing
  <1>2. LineIs /\ FieldIs /\ Length = n
    BY <1>1, InTheField, LengthIs
  <1>3. /\ inputX = 0 /\ fieldScroll > 0 /\ fieldScroll' = s /\ inputX' = x /\ typed' = typed
        /\ instr' = [instr EXCEPT ![s + x + 1] = End0]
        /\ cells' = [i \in DOMAIN cells |->
                       IF i = x \/ instr[s + i + 1] = End0 THEN NoChar ELSE instr[s + i + 1]]
    BY <1>2 DEF InputRefill
  <1>4. /\ n \in Nat /\ W \in Nat \ {0} /\ MaxInput \in Nat /\ fieldScroll = n /\ n <= MaxInput
        /\ fieldScroll + W <= MaxInput + 1 /\ \A j \in (n + 1)..(fieldScroll + W) : instr[j] = End0
    BY <1>2, <1>3, InputsAssumption DEF LineIs, FieldIs
  <1> HIDE DEF W, n
  <1>5. /\ s \in Nat /\ x \in 0..W - 1 /\ s + x = n /\ s <= n
        /\ (x = W - 1 \/ s = 0)
    BY <1>3, <1>4
  <1> HIDE DEF s, x
  <1>6. instr' = instr
    <2>1. s + x + 1 = n + 1 /\ n + 1 \in 1..MaxInput + 1
      BY <1>4, <1>5
    <2>3. instr[n + 1] = End0
      BY <1>2 DEF LineIs, n
    <2>2. instr \in [1..MaxInput + 1 -> LineBytes]
      BY <1>2 DEF LineIs
    <2> QED
      BY <1>3, <2>1, <2>2, <2>3
  <1>7. LineIs'
    BY <1>2, <1>3, <1>6 DEF LineIs
  <1>8. DOMAIN cells = 0..W - 1
    BY <1>2 DEF FieldIs, W
  <1>9. cells' = [i \in 0..W - 1 |-> IF i < x THEN typed[s + i + 1] ELSE NoChar]
    <2> SUFFICES ASSUME NEW i \in 0..W - 1
                 PROVE  (IF i = x \/ instr[s + i + 1] = End0 THEN NoChar ELSE instr[s + i + 1])
                        = IF i < x THEN typed[s + i + 1] ELSE NoChar
      BY <1>3, <1>8
    <2>1. CASE i < x
      <3>1. s + i + 1 \in 1..n /\ i # x
        BY <1>4, <1>5, <2>1
      <3>2. instr[s + i + 1] = typed[s + i + 1] /\ typed[s + i + 1] \in LineLetters
        BY <1>2, <3>1 DEF LineIs, n
      <3>3. instr[s + i + 1] # End0
        BY <3>2, NoNul
      <3> QED
        BY <2>1, <3>1, <3>2, <3>3
    <2>2. CASE i = x
      BY <1>5, <2>2
    <2>3. CASE i > x
      <3>1. s = 0 /\ s + i + 1 \in (n + 1)..(fieldScroll + W) /\ ~(i < x)
        BY <1>4, <1>5, <2>3
      <3>2. instr[s + i + 1] = End0
        BY <1>4, <3>1
      <3> QED
        BY <3>1, <3>2
    <2> QED
      BY <1>5, <2>1, <2>2, <2>3
  <1>10. s + W <= MaxInput + 1 /\ \A j \in (n + 1)..(s + W) : instr[j] = End0
    BY <1>4, <1>5
  <1>11. FieldIs'
    BY <1>3, <1>5, <1>6, <1>9, <1>10 DEF FieldIs, W, n
  <1> QED
    BY <1>1, <1>7, <1>11, InTheField

LEMMA InputGoesOn == InputInv /\ (InputNext \/ UNCHANGED inputVars) => InputInv'
  <1> SUFFICES ASSUME InputInv, InputNext \/ UNCHANGED inputVars PROVE InputInv'
    OBVIOUS
  <1>1. CASE InputResize
    BY <1>1 DEF InputResize, InputInv
  <1>2. CASE InputUnderrun
    <2> SUFFICES ASSUME ~redrawn PROVE FALSE
      BY <1>2 DEF InputUnderrun, InputInv
    <2>1. FieldIs /\ inputX # 0 /\ fieldScroll + inputX = 0
      BY <1>2 DEF InputUnderrun, InField, InputInv
    <2> QED
      BY <2>1, InputsAssumption DEF FieldIs
  <1>3. CASE InputTurn
    <2>1. PICK step \in {-1, 1} : inputButton' = ((inputButton + 1 + step) % 3) - 1
      BY <1>3 DEF InputTurn
    <2>2. ASSUME ~redrawn PROVE inputButton' \in {-1, 0, 1}
      BY <1>3, <2>1, <2>2 DEF InputInv, InputTurn
    <2>3. /\ UNCHANGED <<ipc, instr, fieldScroll, inputX, cells, typed, redrawn>> /\ ipc = "keys"
          /\ shownInput' = IF inputButton' = 1 THEN 1 ELSE 0
      BY <1>3 DEF InputTurn
    <2>4. LineIs' = LineIs /\ FieldIs' = FieldIs
      BY <2>3 DEF LineIs, FieldIs
    <2> QED
      BY <2>2, <2>3, <2>4 DEF InputInv
  <1>4. CASE InputClose
    <2>1. UNCHANGED <<instr, typed, redrawn>> /\ ipc' = "exit"
      BY <1>4 DEF InputClose
    <2>2. LineIs' = LineIs
      BY <2>1 DEF LineIs
    <2> QED
      BY <2>1, <2>2 DEF InputInv
  <1>5. CASE UNCHANGED inputVars
    <2>1. LineIs' = LineIs /\ FieldIs' = FieldIs
      BY <1>5 DEF LineIs, FieldIs, inputVars
    <2> QED
      BY <1>5, <2>1 DEF InputInv, inputVars
  <1> QED
    BY <1>1, <1>2, <1>3, <1>4, <1>5, InputOpens, TypesLetter, TakesBack, Refills DEF InputNext

LEMMA InputShows == InputInv => InputImage
  <1> SUFFICES ASSUME InputInv, ~redrawn PROVE InputTrue /\ Line0 = typed /\ ipc # "undefined"
    BY DEF InputImage
  <1> DEFINE n == Len(typed)
  <1>1. LineIs /\ Length = n /\ ipc \in {"off", "keys", "exit"}
    BY LengthIs DEF InputInv
  <1>2. n \in Nat /\ n <= MaxInput /\ MaxInput \in Nat
    BY <1>1, InputsAssumption DEF LineIs
  <1>3. Line0 = typed
    <2>1. instr \in Seq(LineBytes) /\ Len(instr) = MaxInput + 1
      BY <1>1, <1>2, FunctionIsSeq DEF LineIs
    <2>2. Line0 = SubSeq(instr, 1, n)
      BY <1>1 DEF Line0
    <2>3. Line0 \in Seq(LineBytes) /\ Len(Line0) = n /\ \A i \in 1..n : Line0[i] = instr[i]
      BY <1>2, <2>1, <2>2
    <2>4. \A i \in 1..n : Line0[i] = typed[i]
      BY <1>1, <2>3 DEF LineIs
    <2>5. typed \in Seq(LineLetters)
      BY <1>1 DEF LineIs
    <2> QED
      BY <2>3, <2>4, <2>5, SeqEqual
  <1>4. ASSUME ipc = "keys"
        PROVE  /\ fieldScroll + inputX = Length
               /\ cells = [i \in 0..FieldWidth - 1 |->
                             IF i < inputX THEN instr[fieldScroll + i + 1] ELSE NoChar]
               /\ shownInput = Max({inputButton, 0})
    <2>1. FieldIs /\ inputButton \in {-1, 0, 1} /\ shownInput = IF inputButton = 1 THEN 1 ELSE 0
      BY <1>4 DEF InputInv
    <2>2. cells = [i \in 0..FieldWidth - 1 |->
                     IF i < inputX THEN instr[fieldScroll + i + 1] ELSE NoChar]
      <3> SUFFICES ASSUME NEW i \in 0..FieldWidth - 1, i < inputX
                   PROVE  typed[fieldScroll + i + 1] = instr[fieldScroll + i + 1]
        BY <2>1 DEF FieldIs
      <3>1. fieldScroll + i + 1 \in 1..n
        BY <1>2, <2>1, InputsAssumption DEF FieldIs
      <3> QED
        BY <1>1, <3>1 DEF LineIs
    <2>3. Max({inputButton, 0}) = IF inputButton <= 0 THEN 0 ELSE inputButton
      BY <2>1, Largest
    <2> QED
      BY <1>1, <2>1, <2>2, <2>3 DEF FieldIs
  <1> QED
    BY <1>1, <1>3, <1>4 DEF InputTrue

-----------------------------------------------------------------------------
\* All of them together.

CopyInv ==
    /\ tool = "dd" => DdInv
    /\ tool = "tee" => TeeInv
    /\ tool = "cat" => CatInv
    /\ tool = "base64" => Base64Inv
    /\ tool = "dos2unix" => DosInv
    /\ tool = "execInPipe" => ExecInv
    /\ tool = "monicall" => MoniInv
    /\ tool = "list" => ListInv
    /\ tool = "text" => TextInv
    /\ tool = "input" => InputInv

LEMMA ExecShows == ExecInv => ExecImage
  BY DEF ExecInv, ExecImage

LEMMA CopyInvariant == Spec => []CopyInv
  <1>1. Init => CopyInv
    BY DdStarts, TeeStarts, CatStarts, Base64Starts, DosStarts, ExecStarts, MoniStarts, ListStarts,
       TextStarts, InputStarts
    DEF CopyInv
  <1>2. CopyInv /\ [Next]_vars => CopyInv'
    <2> SUFFICES ASSUME CopyInv, [Next]_vars PROVE CopyInv'
      OBVIOUS
    <2>1. /\ tool' = tool
          /\ tool = "dd" => DdNext \/ UNCHANGED <<streamVars, ddVars>>
          /\ tool = "tee" => TeeNext \/ UNCHANGED <<streamVars, teeVars>>
          /\ tool = "base64" => Base64Next \/ UNCHANGED <<streamVars, base64Vars>>
          /\ tool = "execInPipe" => ExecNext \/ UNCHANGED <<streamVars, execVars>>
          /\ tool = "cat" => CatNext \/ UNCHANGED <<streamVars, catVars>>
          /\ tool = "dos2unix" => DosNext \/ UNCHANGED <<streamVars, dosVars>>
          /\ tool = "monicall" => MoniNext \/ UNCHANGED moniVars
          /\ tool = "list" => ListNext \/ UNCHANGED listVars
          /\ tool = "text" => TextNext \/ UNCHANGED textVars
          /\ tool = "input" => InputNext \/ UNCHANGED inputVars
      BY OnlyItself
    <2>2. tool = "dd" => DdInv'
      BY <2>1, DdGoesOn DEF CopyInv
    <2>3. tool = "tee" => TeeInv'
      BY <2>1, TeeGoesOn DEF CopyInv
    <2>4. tool = "base64" => Base64Inv'
      BY <2>1, Base64GoesOn DEF CopyInv
    <2>5. tool = "execInPipe" => ExecInv'
      BY <2>1, ExecGoesOn DEF CopyInv
    <2>6. tool = "cat" => CatInv'
      BY <2>1, CatGoesOn DEF CopyInv
    <2>7. tool = "dos2unix" => DosInv'
      BY <2>1, DosGoesOn DEF CopyInv
    <2>8. tool = "monicall" => MoniInv'
      BY <2>1, MoniGoesOn DEF CopyInv
    <2>9. tool = "list" => ListInv'
      BY <2>1, ListGoesOn DEF CopyInv
    <2>10. tool = "text" => TextInv'
      BY <2>1, TextGoesOn DEF CopyInv
    <2>11. tool = "input" => InputInv'
      BY <2>1, InputGoesOn DEF CopyInv
    <2> QED
      BY <2>1, <2>2, <2>3, <2>4, <2>5, <2>6, <2>7, <2>8, <2>9, <2>10, <2>11 DEF CopyInv
  <1> QED
    BY <1>1, <1>2, PTL DEF Spec

(* SuccessWhole: a 0 of dd, and a text that execInPipe returns, mean that  *)
(* all they were to copy is in the output: whatever the input, the sizes   *)
(* of the blocks, count, skip and seek, and however reads and writes cut   *)
(* the bytes.  A 0 of base64 means that all of it was put out, or was held *)
(* by stdio when ferror(stdout) was read and lost by a flush at exit that  *)
(* failed: whatever the length of the lines, and whatever else came of the *)
(* text on its way.                                                        *)
THEOREM SuccessWhole == Spec => []SuccessIsWhole
  <1>1. CopyInv => SuccessIsWhole
    BY DEF CopyInv, SuccessIsWhole, DdInv, Base64Inv, ExecInv
  <1> QED
    BY <1>1, CopyInvariant, PTL

(* OutputsTrue: OutputIsImage, but for the words of a line and the line    *)
(* that is typed into simpsh.  The output of dd is the blocks of its input *)
(* as conv= makes them, each at its place; an output of tee that took all  *)
(* it was given holds all that was read; cat shows each operand with its   *)
(* marks and dos2unix each line with its new end; what base64 -d wrote is  *)
(* the beginning of what was encoded, unless a character was lost; the     *)
(* buffer of execInPipe holds what was read of the command; monicall       *)
(* prints the calls in their order; and a list, a text and a field of      *)
(* mconf show what their keys lead to, whatever the lists, the texts, the  *)
(* sizes of the windows and the keys.                                      *)
THEOREM OutputsTrue == Spec => [](tool \notin {"words", "readline"} => OutputIsImage)
  <1>1. CopyInv => (tool \notin {"words", "readline"} => OutputIsImage)
    BY DdImaged, TeeShows, ExecShows, DosShows, MoniShows, TextShows, InputShows
    DEF CopyInv, OutputIsImage, Base64Inv, CatInv, ListInv
  <1> QED
    BY <1>1, CopyInvariant, PTL
=============================================================================
