--------------------------- MODULE ChecksumProofs ---------------------------
(***************************************************************************)
(* Proofs about the checksum applets, for blocks of any size and files of  *)
(* any length.                                                             *)
(*                                                                         *)
(* A context Holds a message: what was compressed and what waits in the    *)
(* buffer are the message, and the bit count is its length modulo the two  *)
(* words (Update: every call keeps it, for either count; Sha1FinalIs and   *)
(* Md5FinalIs: the last call then gives the padded message).  From there:  *)
(* the context holds what was read of the file (Hashing), so digests are   *)
(* true; what was printed is one true line for each operand so far         *)
(* (Telling), so lists are true; and a status of 0 stands for the lines    *)
(* checked so far (Verdict), where equal digests mean equal files because  *)
(* no two messages have the same padding (PaddedInjective).                *)
(***************************************************************************)
EXTENDS Checksum, SequenceTheorems, TLAPS

-----------------------------------------------------------------------------
\* Quotients and remainders.

LEMMA DivMod ==
    ASSUME NEW a \in Nat, NEW b \in Nat \ {0}
    PROVE  /\ a % b \in 0..b - 1 /\ a \div b \in Nat
           /\ a = b * (a \div b) + (a % b)
  OBVIOUS

LEMMA DivUnique ==
    ASSUME NEW b \in Nat \ {0}, NEW q \in Int, NEW r \in 0..b - 1
    PROVE  (b * q + r) % b = r /\ (b * q + r) \div b = q
  OBVIOUS

LEMMA DivIs ==
    ASSUME NEW a \in Nat, NEW b \in Nat \ {0}, NEW q \in Int, NEW r \in 0..b - 1, a = b * q + r
    PROVE  a % b = r /\ a \div b = q
  BY DivUnique

LEMMA Divided ==
    ASSUME NEW a \in Nat, NEW b \in Nat \ {0}
    PROVE  \E q \in Nat, r \in 0..b - 1 : a = b * q + r /\ a % b = r /\ a \div b = q
  BY DivMod

LEMMA Distribute ==
    ASSUME NEW b \in Int, NEW c \in Int, NEW q \in Int, NEW p \in Int, NEW r \in Int
    PROVE  (b * c) * q + (b * p + r) = b * (c * q + p) + r
  OBVIOUS

LEMMA MulMono ==
    ASSUME NEW b \in Nat, NEW p \in Int, NEW q \in Int, p <= q
    PROVE  b * p <= b * q
  OBVIOUS

LEMMA ModTwice ==
    ASSUME NEW a \in Nat, NEW b \in Nat \ {0}, NEW c \in Nat \ {0}
    PROVE  (a % (b * c)) % b = a % b
  <1> DEFINE d == b * c
  <1>1. d \in Nat \ {0}
    OBVIOUS
  <1> HIDE DEF d
  <1>2. PICK q \in Nat, r \in 0..d - 1 : a = d * q + r /\ a % d = r
    BY <1>1, Divided
  <1>3. r \in Nat
    BY <1>1
  <1>4. PICK p \in Nat, t \in 0..b - 1 : r = b * p + t /\ r % b = t
    BY <1>3, Divided
  <1>5. a = b * (c * q + p) + t
    BY <1>2, <1>4, Distribute DEF d
  <1>6. c * q + p \in Int
    BY <1>2, <1>4
  <1>7. a % b = t
    BY <1>5, <1>6, DivIs
  <1> QED
    BY <1>2, <1>4, <1>7 DEF d

LEMMA ModAdd ==
    ASSUME NEW a \in Nat, NEW n \in Nat, NEW b \in Nat \ {0}
    PROVE  ((a % b) + n) % b = (a + n) % b
  <1>1. PICK q \in Nat, r \in 0..b - 1 : a = b * q + r /\ a % b = r
    BY Divided
  <1>2. r + n \in Nat
    OBVIOUS
  <1>3. PICK p \in Nat, t \in 0..b - 1 : r + n = b * p + t /\ (r + n) % b = t
    BY <1>2, Divided
  <1>4. a + n = b * (q + p) + t
    BY <1>1, <1>3
  <1>5. a + n \in Nat /\ q + p \in Int
    OBVIOUS
  <1>6. (a + n) % b = t
    BY <1>4, <1>5, DivIs
  <1> QED
    BY <1>1, <1>3, <1>6

LEMMA WordCount ==
    ASSUME NEW w \in Nat \ {0}, NEW bits \in Nat, NEW e \in Nat
    PROVE  LET added == e % w
               low == (bits + added) % w
               carry == IF low < added THEN 1 ELSE 0
           IN low + w * (((bits \div w) + carry + (e \div w)) % w) = (bits + e) % (w * w)
  <1>1. PICK h \in Nat, l \in 0..w - 1 : bits = w * h + l /\ bits % w = l /\ bits \div w = h
    BY Divided
  <1>2. PICK g \in Nat, a \in 0..w - 1 : e = w * g + a /\ e % w = a /\ e \div w = g
    BY Divided
  <1>3. PICK c \in {0, 1} : l + a - w * c \in 0..w - 1 /\ (c = 1 <=> l + a >= w)
    <2>1. CASE l + a >= w
      BY <2>1
    <2>2. CASE ~(l + a >= w)
      BY <2>2
    <2> QED
      BY <2>1, <2>2
  <1> DEFINE low == l + a - w * c
  <1>4. low \in 0..w - 1 /\ (low < a <=> c = 1)
    BY <1>3
  <1>5. bits + a = w * (h + c) + low
    BY <1>1
  <1> HIDE DEF low
  <1>6. (bits + a) % w = low
    BY <1>4, <1>5, DivIs, bits + a \in Nat, h + c \in Int
  <1>7. PICK q \in Nat, r \in 0..w - 1 : h + c + g = w * q + r /\ (h + c + g) % w = r
    BY Divided, h + c + g \in Nat
  <1>8. bits + e = (w * w) * q + (w * r + low)
    <2>1. bits + e = w * (h + c + g) + low
      BY <1>1, <1>2 DEF low
    <2> QED
      BY <2>1, <1>4, <1>7, Distribute
  <1>9. w * r + low \in 0..(w * w) - 1
    <2>1. w * r <= w * (w - 1) /\ w * (w - 1) = w * w - w /\ w * r \in Nat
      BY <1>7, MulMono
    <2> QED
      BY <1>4, <2>1
  <1>10. (bits + e) % (w * w) = w * r + low
    <2> DEFINE d == w * w
               z == w * r + low
               m == bits + e
    <2>1. d \in Nat \ {0} /\ z \in 0..d - 1 /\ m = d * q + z /\ m \in Nat
      BY <1>8, <1>9
    <2> HIDE DEF d, z, m
    <2>2. m % d = z
      BY <2>1, DivIs
    <2> QED
      BY <2>2 DEF d, z, m
  <1> QED
    BY <1>1, <1>2, <1>4, <1>6, <1>7, <1>10

-----------------------------------------------------------------------------
\* The context of a digest.

Context(S) == [absorbed : Seq(S), buffer : [1..Block -> S], bits : Nat]

\* What was compressed and the r bytes that wait in the buffer are m.
Holding(absorbed, buffer, m, r) ==
    /\ Len(absorbed) = Len(m) - r
    /\ \A k \in 1..(Len(m) - r) : absorbed[k] = m[k]
    /\ \A k \in 1..r : buffer[k] = m[Len(m) - r + k]

\* buffer is old with the bytes behind pos; u is s followed by t.
IsPut(S, buffer, old, pos, bytes) ==
    /\ buffer \in [1..Block -> S]
    /\ \A k \in 1..Block :
         buffer[k] = IF k - pos \in 1..Len(bytes) THEN bytes[k - pos] ELSE old[k]

IsJoin(S, u, s, t) ==
    /\ u \in Seq(S) /\ Len(u) = Len(s) + Len(t)
    /\ \A i \in 1..Len(s) : u[i] = s[i]
    /\ \A i \in (Len(s) + 1)..(Len(s) + Len(t)) : u[i] = t[i - Len(s)]

LEMMA Put ==
    ASSUME NEW S, NEW buffer \in [1..Block -> S], NEW bytes \in Seq(S), NEW pos \in Nat
    PROVE  IsPut(S, PutAt(buffer, pos, bytes), buffer, pos, bytes)
  <1>1. DOMAIN bytes = 1..Len(bytes) /\ \A i \in 1..Len(bytes) : bytes[i] \in S
    BY LenProperties, ElementOfSeq
  <1> QED
    BY <1>1 DEF PutAt, IsPut

LEMMA Part ==
    ASSUME NEW S, NEW s \in Seq(S), NEW a \in 1..(Len(s) + 1), NEW b \in (a - 1)..Len(s)
    PROVE  /\ SubSeq(s, a, b) \in Seq(S)
           /\ Len(SubSeq(s, a, b)) = b - a + 1
           /\ \A i \in 1..(b - a + 1) : SubSeq(s, a, b)[i] = s[a + i - 1]
  <1>1. Len(s) \in Nat /\ \A i \in 1..Len(s) : s[i] \in S
    BY LenProperties, ElementOfSeq
  <1>2. a \in Int /\ b \in Int /\ \A i \in a..b : s[i] \in S
    BY <1>1
  <1>3. /\ SubSeq(s, a, b) \in Seq(S)
        /\ Len(SubSeq(s, a, b)) = IF a <= b THEN b - a + 1 ELSE 0
        /\ \A i \in 1..(b - a + 1) : SubSeq(s, a, b)[i] = s[a + i - 1]
    BY <1>2, SubSeqProperties
  <1> QED
    BY <1>1, <1>3

LEMMA Joined ==
    ASSUME NEW S, NEW s \in Seq(S), NEW t \in Seq(S)
    PROVE  IsJoin(S, s \o t, s, t)
  <1>1. Len(s) \in Nat /\ Len(t) \in Nat
    BY LenProperties
  <1>2. /\ s \o t \in Seq(S) /\ Len(s \o t) = Len(s) + Len(t)
        /\ \A i \in 1..Len(s) + Len(t) :
             (s \o t)[i] = IF i <= Len(s) THEN s[i] ELSE t[i - Len(s)]
    BY ConcatProperties
  <1>3. ASSUME NEW i \in 1..Len(s) PROVE (s \o t)[i] = s[i]
    BY <1>1, <1>2, i \in 1..Len(s) + Len(t)
  <1>4. ASSUME NEW i \in (Len(s) + 1)..(Len(s) + Len(t)) PROVE (s \o t)[i] = t[i - Len(s)]
    BY <1>1, <1>2, i \in 1..Len(s) + Len(t)
  <1> QED
    BY <1>2, <1>3, <1>4 DEF IsJoin

Grouped(s, t, u) == (s \o t) \o u = s \o (t \o u)

LEMMA Regroup ==
    ASSUME NEW S, NEW s \in Seq(S), NEW t \in Seq(S), NEW u \in Seq(S)
    PROVE  Grouped(s, t, u)
  BY ConcatAssociative DEF Grouped

LEMMA BufferSeq ==
    ASSUME NEW S, NEW buffer \in [1..Block -> S]
    PROVE  buffer \in Seq(S) /\ Len(buffer) = Block
  BY DigestAssumption

\* The three pieces of a message behind which a call compresses.
LEMMA Cut ==
    ASSUME NEW L \in Nat, NEW n \in Nat, NEW pos, pos = L % Block, pos + n >= Block
    PROVE  LET fill == Block - pos
               taken == fill + Block * ((n - fill) \div Block)
           IN /\ fill \in 1..n /\ taken \in fill..n
              /\ (L + n) % Block = n - taken
  <1>1. PICK q \in Nat, r \in 0..Block - 1 : L = Block * q + r /\ L % Block = r
    BY Divided, DigestAssumption
  <1> DEFINE fill == Block - pos
             e == n - fill
  <1>2. fill \in 1..n /\ e \in Nat
    BY <1>1, DigestAssumption
  <1> HIDE DEF e
  <1>3. PICK p \in Nat, t \in 0..Block - 1 : e = Block * p + t /\ e \div Block = p
    BY <1>2, Divided, DigestAssumption
  <1>4. Block * p \in Nat
    BY DigestAssumption
  <1>5. L + n = Block * (q + 1 + p) + t
    BY <1>1, <1>2, <1>3, DigestAssumption DEF e
  <1>6. (L + n) % Block = t
    <2> DEFINE z == L + n
               w == q + 1 + p
    <2>1. z \in Nat /\ w \in Int /\ z = Block * w + t
      BY <1>5
    <2> HIDE DEF z, w
    <2>2. z % Block = t
      BY <2>1, DivIs, DigestAssumption
    <2> QED
      BY <2>2 DEF z
  <1> QED
    BY <1>1, <1>2, <1>3, <1>4, <1>6 DEF e

LEMMA Remains ==
    ASSUME NEW L \in Nat
    PROVE  Block \in Nat \ {0} /\ (L % Block) \in 0..L /\ L % Block < Block
  <1>1. PICK q \in Nat, r \in 0..Block - 1 : L = Block * q + r /\ L % Block = r
    BY Divided, DigestAssumption, SMTT(60)
  <1>2. Block * q \in Nat
    BY DigestAssumption
  <1> QED
    BY <1>1, <1>2, DigestAssumption

LEMMA Fill ==
    ASSUME NEW L \in Nat, NEW n \in Nat, (L % Block) + n < Block
    PROVE  (L + n) % Block = (L % Block) + n
  <1>1. PICK q \in Nat, r \in 0..Block - 1 : L = Block * q + r /\ L % Block = r
    BY Divided, DigestAssumption, ZenonT(60)
  <1> DEFINE z == L + n
             w == r + n
  <1>2. z \in Nat /\ w \in 0..Block - 1 /\ z = Block * q + w
    BY <1>1, DigestAssumption
  <1> HIDE DEF z, w
  <1>3. z % Block = w
    BY <1>2, DivIs, DigestAssumption
  <1> QED
    BY <1>1, <1>3 DEF z, w

LEMMA HoldShort ==
    ASSUME NEW S, NEW absorbed \in Seq(S), NEW old \in [1..Block -> S],
           NEW m \in Seq(S), NEW data \in Seq(S), NEW pos \in 0..Len(m),
           pos + Len(data) < Block, Holding(absorbed, old, m, pos)
    PROVE  /\ PutAt(old, pos, data) \in [1..Block -> S]
           /\ Holding(absorbed, PutAt(old, pos, data), m \o data, pos + Len(data))
  <1> DEFINE L == Len(m)
             n == Len(data)
             buffer == PutAt(old, pos, data)
             v == m \o data
  <1>1. L \in Nat /\ n \in Nat /\ Block \in Nat /\ pos \in Nat
    BY LenProperties, DigestAssumption
  <1>2. /\ Len(absorbed) = L - pos
        /\ \A k \in 1..(L - pos) : absorbed[k] = m[k]
        /\ \A k \in 1..pos : old[k] = m[L - pos + k]
    BY DEF Holding
  <1>3. /\ v \in Seq(S) /\ Len(v) = L + n
        /\ \A i \in 1..L : v[i] = m[i]
        /\ \A i \in (L + 1)..(L + n) : v[i] = data[i - L]
    BY Joined DEF IsJoin
  <1>4. /\ buffer \in [1..Block -> S]
        /\ \A k \in 1..Block :
             buffer[k] = IF k - pos \in 1..n THEN data[k - pos] ELSE old[k]
    <2>1. IsPut(S, buffer, old, pos, data)
      BY <1>1, Put
    <2> QED
      BY <2>1 DEF IsPut
  <1>5. pos \in 0..L /\ pos + n < Block
    OBVIOUS
  <1> HIDE DEF buffer, v, L, n
  <1>6. ASSUME NEW k \in 1..(L - pos) PROVE absorbed[k] = v[k]
    BY <1>1, <1>2, <1>3, <1>5, k \in 1..L
  <1>7. ASSUME NEW k \in 1..(pos + n) PROVE buffer[k] = v[L - pos + k]
    <2>1. CASE k <= pos
      <3>1. buffer[k] = old[k]
        BY <1>1, <1>4, <1>5, <2>1
      <3>2. v[L - pos + k] = m[L - pos + k]
        BY <1>1, <1>3, <1>5, <2>1, L - pos + k \in 1..L
      <3> QED
        BY <1>2, <2>1, <3>1, <3>2
    <2>2. CASE ~(k <= pos)
      <3>1. buffer[k] = data[k - pos]
        BY <1>1, <1>4, <1>5, <2>2
      <3>2. v[L - pos + k] = data[(L - pos + k) - L]
        BY <1>1, <1>3, <1>5, <2>2
      <3>3. (L - pos + k) - L = k - pos
        BY <1>1
      <3> QED
        BY <3>1, <3>2, <3>3
    <2> QED
      BY <2>1, <2>2
  <1>8. (L + n) - (pos + n) = L - pos
    BY <1>1
  <1>9. Holding(absorbed, buffer, v, pos + n)
    BY <1>2, <1>3, <1>6, <1>7, <1>8 DEF Holding
  <1> QED
    BY <1>4, <1>9 DEF buffer, v, n

LEMMA HoldLong ==
    ASSUME NEW S, NEW kept \in Seq(S), NEW old \in [1..Block -> S],
           NEW m \in Seq(S), NEW data \in Seq(S), NEW pos \in 0..Len(m),
           NEW fill \in 1..Len(data), NEW taken \in fill..Len(data), fill = Block - pos,
           Len(data) - taken < Block, Holding(kept, old, m, pos)
    PROVE  LET full == PutAt(old, pos, SubSeq(data, 1, fill))
               absorbed == kept \o full \o SubSeq(data, fill + 1, taken)
               buffer == PutAt(full, 0, SubSeq(data, taken + 1, Len(data)))
           IN /\ absorbed \in Seq(S)
              /\ buffer \in [1..Block -> S]
              /\ Holding(absorbed, buffer, m \o data, Len(data) - taken)
  <1> DEFINE L == Len(m)
             n == Len(data)
             first == SubSeq(data, 1, fill)
             whole == SubSeq(data, fill + 1, taken)
             rest == SubSeq(data, taken + 1, n)
             full == PutAt(old, pos, first)
             buffer == PutAt(full, 0, rest)
             start == kept \o full
             absorbed == start \o whole
             v == m \o data
  <1>1. /\ L \in Nat /\ n \in Nat /\ Block \in Nat /\ pos \in Nat
        /\ pos \in 0..L /\ fill \in 1..n /\ taken \in fill..n /\ n - taken < Block
        /\ fill = Block - pos
    BY LenProperties, DigestAssumption
  <1>2. /\ Len(kept) = L - pos
        /\ \A k \in 1..(L - pos) : kept[k] = m[k]
        /\ \A k \in 1..pos : old[k] = m[L - pos + k]
    BY DEF Holding
  <1>3. /\ v \in Seq(S) /\ Len(v) = L + n
        /\ \A i \in 1..L : v[i] = m[i]
        /\ \A i \in (L + 1)..(L + n) : v[i] = data[i - L]
    BY Joined DEF IsJoin
  <1>4. /\ first \in Seq(S) /\ Len(first) = fill
        /\ \A i \in 1..fill : first[i] = data[i]
    BY <1>1, Part
  <1>5. /\ whole \in Seq(S) /\ Len(whole) = taken - fill
        /\ \A i \in 1..(taken - fill) : whole[i] = data[fill + i]
    BY <1>1, Part
  <1>6. /\ rest \in Seq(S) /\ Len(rest) = n - taken
        /\ \A i \in 1..(n - taken) : rest[i] = data[taken + i]
    BY <1>1, Part
  <1> HIDE DEF first, whole, rest
  <1> HIDE DEF L, n
  <1>7. /\ full \in [1..Block -> S]
        /\ \A k \in 1..Block :
             full[k] = IF k - pos \in 1..Len(first) THEN first[k - pos] ELSE old[k]
    <2>1. first \in Seq(S) /\ pos \in Nat
      BY <1>1, <1>4
    <2>2. IsPut(S, full, old, pos, first)
      BY <2>1, Put
    <2> HIDE DEF full
    <2> QED
      BY <2>2 DEF IsPut
  <1>8. full \in Seq(S) /\ Len(full) = Block
    BY <1>7, BufferSeq
  <1> HIDE DEF full
  <1>9. /\ buffer \in [1..Block -> S]
        /\ \A k \in 1..Block :
             buffer[k] = IF k - 0 \in 1..Len(rest) THEN rest[k - 0] ELSE full[k]
    <2>1. rest \in Seq(S) /\ full \in [1..Block -> S] /\ 0 \in Nat
      BY <1>6, <1>7
    <2>2. IsPut(S, buffer, full, 0, rest)
      BY <2>1, Put
    <2> HIDE DEF buffer
    <2> QED
      BY <2>2 DEF IsPut
  <1>10. /\ start \in Seq(S) /\ Len(start) = Len(kept) + Block
         /\ \A i \in 1..Len(kept) : start[i] = kept[i]
         /\ \A i \in (Len(kept) + 1)..(Len(kept) + Block) : start[i] = full[i - Len(kept)]
    <2>1. IsJoin(S, start, kept, full)
      BY <1>8, Joined
    <2> HIDE DEF start
    <2> QED
      BY <2>1, <1>8 DEF IsJoin
  <1> HIDE DEF start
  <1>11. /\ absorbed \in Seq(S) /\ Len(absorbed) = Len(start) + Len(whole)
         /\ \A i \in 1..Len(start) : absorbed[i] = start[i]
         /\ \A i \in (Len(start) + 1)..(Len(start) + Len(whole)) :
              absorbed[i] = whole[i - Len(start)]
    <2>1. whole \in Seq(S) /\ start \in Seq(S)
      BY <1>5, <1>10
    <2>2. IsJoin(S, absorbed, start, whole)
      BY <2>1, Joined
    <2> HIDE DEF absorbed
    <2> QED
      BY <2>2 DEF IsJoin
  <1> HIDE DEF absorbed, buffer, v
  <1>12. Len(start) = L + fill /\ Len(whole) = taken - fill /\ Len(absorbed) = L + taken
    BY <1>1, <1>2, <1>5, <1>10, <1>11
  <1>13. ASSUME NEW k \in 1..(L + taken) PROVE absorbed[k] = v[k]
    <2>1. CASE k <= L - pos
      <3>0. k \in 1..L /\ k \in 1..(L + fill) /\ k \in 1..(L - pos)
        BY <1>1, <2>1
      <3>1. absorbed[k] = start[k] /\ v[k] = m[k]
        BY <1>1, <1>3, <1>11, <1>12, <2>1, <3>0
      <3>2. start[k] = kept[k] /\ kept[k] = m[k]
        BY <1>1, <1>2, <1>8, <1>10, <2>1, <3>0
      <3> QED
        BY <3>1, <3>2
    <2>2. CASE k > L - pos /\ k <= L
      <3>0. k \in 1..L /\ k \in 1..(L + fill) /\ k \in (L - pos + 1)..(L - pos + Block)
        BY <1>1, <2>2
      <3>1. absorbed[k] = start[k] /\ v[k] = m[k]
        BY <1>1, <1>3, <1>11, <1>12, <2>2, <3>0
      <3>2. start[k] = full[k - (L - pos)]
        BY <1>1, <1>2, <1>8, <1>10, <2>2, <3>0
      <3>3. full[k - (L - pos)] = old[k - (L - pos)]
        BY <1>1, <1>4, <1>7, <2>2
      <3>4. old[k - (L - pos)] = m[L - pos + (k - (L - pos))]
        BY <1>1, <1>2, <2>2, k - (L - pos) \in 1..pos
      <3>5. L - pos + (k - (L - pos)) = k
        BY <1>1
      <3> QED
        BY <3>1, <3>2, <3>3, <3>4, <3>5
    <2>3. CASE k > L /\ k <= L + fill
      <3>0. /\ k \in (L + 1)..(L + n) /\ k \in 1..(L + fill)
            /\ k \in (L - pos + 1)..(L - pos + Block)
        BY <1>1, <2>3
      <3>1. absorbed[k] = start[k] /\ v[k] = data[k - L]
        BY <1>1, <1>3, <1>11, <1>12, <2>3, <3>0
      <3>2. start[k] = full[k - (L - pos)]
        BY <1>1, <1>2, <1>8, <1>10, <2>3, <3>0
      <3>3. full[k - (L - pos)] = first[(k - (L - pos)) - pos]
        <4>1. k - (L - pos) \in 1..Block /\ (k - (L - pos)) - pos \in 1..Len(first)
          BY <1>1, <1>4, <2>3
        <4> QED
          BY <1>7, <4>1
      <3>4. (k - (L - pos)) - pos = k - L /\ k - L \in 1..fill
        BY <1>1, <2>3
      <3> QED
        BY <1>4, <3>1, <3>2, <3>3, <3>4
    <2>4. CASE k > L + fill
      <3>0. k \in (L + 1)..(L + n) /\ k \in (L + fill + 1)..(L + fill + (taken - fill))
        BY <1>1, <2>4
      <3>1. absorbed[k] = whole[k - (L + fill)] /\ v[k] = data[k - L]
        BY <1>1, <1>3, <1>11, <1>12, <2>4, <3>0
      <3>2. k - (L + fill) \in 1..(taken - fill) /\ fill + (k - (L + fill)) = k - L
        BY <1>1, <2>4
      <3> QED
        BY <1>5, <3>1, <3>2
    <2> QED
      BY <1>1, <2>1, <2>2, <2>3, <2>4
  <1>14. ASSUME NEW k \in 1..(n - taken) PROVE buffer[k] = v[L + taken + k]
    <2>1. buffer[k] = rest[k]
      BY <1>1, <1>6, <1>9
    <2>2. v[L + taken + k] = data[(L + taken + k) - L]
      BY <1>1, <1>3, L + taken + k \in (L + 1)..(L + n)
    <2>3. (L + taken + k) - L = taken + k
      BY <1>1
    <2> QED
      BY <1>6, <2>1, <2>2, <2>3
  <1>15. (L + n) - (n - taken) = L + taken
    BY <1>1
  <1>16. Holding(absorbed, buffer, v, n - taken)
    BY <1>3, <1>12, <1>13, <1>14, <1>15 DEF Holding
  <1> QED
    BY <1>9, <1>11, <1>16 DEF absorbed, start, full, buffer, first, whole, rest, v, n

\* The context c has taken the message m.
Holds(S, c, m) ==
    /\ c \in Context(S) /\ m \in Seq(S)
    /\ Holding(c.absorbed, c.buffer, m, Len(m) % Block)
    /\ c.bits = (8 * Len(m)) % (Word * Word)

LEMMA Absorb ==
    ASSUME NEW S, NEW c, NEW m, NEW data \in Seq(S), Holds(S, c, m)
    PROVE  LET d == Sha1Absorb(c, Len(m) % Block, data)
               v == m \o data
           IN /\ d \in Context(S) /\ d.bits = c.bits
              /\ Holding(d.absorbed, d.buffer, v, Len(v) % Block)
              /\ v \in Seq(S) /\ Len(v) = Len(m) + Len(data)
  <1> DEFINE L == Len(m)
             n == Len(data)
             pos == L % Block
             d == Sha1Absorb(c, pos, data)
             v == m \o data
  <1>1. /\ m \in Seq(S) /\ c \in Context(S) /\ L \in Nat /\ n \in Nat
        /\ c.absorbed \in Seq(S) /\ c.buffer \in [1..Block -> S]
        /\ Holding(c.absorbed, c.buffer, m, pos)
    BY LenProperties DEF Holds, Context
  <1>2. Block \in Nat \ {0} /\ pos \in 0..L /\ pos < Block
    BY <1>1, Remains
  <1>3. v \in Seq(S) /\ Len(v) = L + n
    BY <1>1, Joined DEF IsJoin
  <1>4. CASE pos + n < Block
    <2>1. (L + n) % Block = pos + n
      BY <1>1, <1>4, Fill
    <2> DEFINE buffer == PutAt(c.buffer, pos, data)
    <2>2. d = [c EXCEPT !.buffer = buffer]
      BY <1>4 DEF Sha1Absorb
    <2> HIDE DEF pos
    <2>3. /\ buffer \in [1..Block -> S]
          /\ Holding(c.absorbed, buffer, v, pos + n)
      BY <1>1, <1>2, <1>4, HoldShort
    <2> HIDE DEF buffer, d, v
    <2>4. d \in Context(S) /\ d.bits = c.bits /\ d.absorbed = c.absorbed /\ d.buffer = buffer
      BY <1>1, <2>2, <2>3 DEF Context
    <2> QED
      BY <1>3, <2>1, <2>3, <2>4 DEF d, v, pos
  <1>5. CASE ~(pos + n < Block)
    <2> DEFINE fill == Block - pos
               taken == fill + Block * ((n - fill) \div Block)
               full == PutAt(c.buffer, pos, SubSeq(data, 1, fill))
               absorbed == c.absorbed \o full \o SubSeq(data, fill + 1, taken)
               buffer == PutAt(full, 0, SubSeq(data, taken + 1, n))
    <2>1. fill \in 1..n /\ taken \in fill..n /\ (L + n) % Block = n - taken
      <3>1. pos + n >= Block
        BY <1>1, <1>2, <1>5
      <3> QED
        BY <1>1, <3>1, Cut
    <2>2. d = [c EXCEPT !.absorbed = absorbed, !.buffer = buffer]
      BY <1>5 DEF Sha1Absorb
    <2>3. (L + n) % Block < Block
      <3>1. L + n \in Nat
        BY <1>1
      <3> QED
        BY <3>1, Remains
    <2> HIDE DEF pos, taken
    <2>4. n - taken < Block
      BY <2>1, <2>3
    <2>5. /\ absorbed \in Seq(S)
          /\ buffer \in [1..Block -> S]
          /\ Holding(absorbed, buffer, v, n - taken)
      <3> HIDE DEF fill, L
      <3>1. fill \in 1..n /\ taken \in fill..n /\ fill = Block - pos
        BY <2>1 DEF fill
      <3>2. pos \in 0..Len(m)
        BY <1>2 DEF L
      <3> QED
        BY <1>1, <2>4, <3>1, <3>2, HoldLong
    <2> HIDE DEF absorbed, buffer, d, v
    <2>6. d \in Context(S) /\ d.bits = c.bits /\ d.absorbed = absorbed /\ d.buffer = buffer
      BY <1>1, <2>2, <2>5 DEF Context
    <2> QED
      BY <1>3, <2>1, <2>5, <2>6 DEF d, v, pos
  <1> QED
    BY <1>4, <1>5

LEMMA Words == \E k \in Nat \ {0} : Word = 8 * (Block * k)
  <1> DEFINE b == 8 * Block
  <1>1. b \in Nat \ {0} /\ Word % b = 0 /\ Word \in Nat \ {0} /\ Block \in Nat \ {0}
    BY DigestAssumption
  <1> HIDE DEF b
  <1>2. PICK q \in Nat, r \in 0..b - 1 : Word = b * q + r /\ Word % b = r
    BY <1>1, Divided
  <1>3. Word = (8 * Block) * q /\ q \in Nat \ {0}
    BY <1>1, <1>2 DEF b
  <1> QED
    BY <1>1, <1>3

\* The place in the buffer survives the width of the bit count.
LEMMA PlaceOfBits ==
    ASSUME NEW L \in Nat, NEW k \in Nat \ {0}
    PROVE  (((8 * L) % (8 * (Block * k))) \div 8) % Block = L % Block
  <1> DEFINE e == Block * k
  <1>1. e \in Nat \ {0} /\ Block \in Nat \ {0}
    BY DigestAssumption
  <1>2. (L % e) % Block = L % Block
    BY <1>1, ModTwice
  <1> HIDE DEF e
  <1>3. PICK q \in Nat, r \in 0..e - 1 : L = e * q + r /\ L % e = r
    BY <1>1, Divided
  <1> DEFINE a == 8 * L
             b == 8 * e
             t == 8 * r
  <1>4. a \in Nat /\ b \in Nat \ {0} /\ t \in 0..b - 1 /\ a = b * q + t
    BY <1>1, <1>3
  <1>6. t \div 8 = r
    BY <1>3
  <1> HIDE DEF a, b, t
  <1>5. a % b = t
    BY <1>4, DivIs
  <1> QED
    BY <1>2, <1>3, <1>5, <1>6 DEF a, b, e, t

LEMMA Positions ==
    ASSUME NEW L \in Nat, NEW c, c.bits = (8 * L) % (Word * Word)
    PROVE  Sha1Position(c) = L % Block /\ Md5Position(c) = L % Block
  <1>1. PICK k \in Nat \ {0} : Word = 8 * (Block * k)
    BY Words
  <1>2. Word \in Nat \ {0} /\ Block \in Nat \ {0}
    BY DigestAssumption
  <1>3. Word * Word = 8 * (Block * (k * Word)) /\ k * Word \in Nat \ {0}
    BY <1>1, <1>2
  <1>4. Sha1Position(c) = L % Block
    <2> DEFINE w == k * Word
    <2>1. w \in Nat \ {0}
      BY <1>3
    <2> HIDE DEF w
    <2>2. (((8 * L) % (8 * (Block * w))) \div 8) % Block = L % Block
      BY <2>1, PlaceOfBits
    <2> QED
      BY <1>3, <2>2 DEF w, Sha1Position
  <1>5. Md5Position(c) = L % Block
    <2>1. ((8 * L) % (Word * Word)) % Word = (8 * L) % Word
      BY <1>2, ModTwice, 8 * L \in Nat
    <2>2. (((8 * L) % Word) \div 8) % Block = L % Block
      BY <1>1, PlaceOfBits
    <2> QED
      BY <2>1, <2>2 DEF Md5Position
  <1> QED
    BY <1>4, <1>5

LEMMA Counts ==
    ASSUME NEW L \in Nat, NEW n \in Nat, NEW bits, bits = (8 * L) % (Word * Word)
    PROVE  /\ (bits + 8 * n) % (Word * Word) = (8 * (L + n)) % (Word * Word)
           /\ Md5Count(bits, n) = (8 * (L + n)) % (Word * Word)
  <1> DEFINE w == Word * Word
             a == 8 * L
             e == 8 * n
  <1>1. Word \in Nat \ {0} /\ w \in Nat \ {0} /\ a \in Nat /\ e \in Nat /\ a + e = 8 * (L + n)
    BY DigestAssumption
  <1>2. bits \in Nat
    <2> HIDE DEF w, a
    <2>1. a % w \in Nat
      BY <1>1, DivMod
    <2> QED
      BY <2>1 DEF a, w
  <1>3. ((a % w) + e) % w = (a + e) % w
    <2> HIDE DEF w, a, e
    <2> QED
      BY <1>1, ModAdd
  <1>4. Md5Count(bits, n) = (bits + e) % w
    <2> HIDE DEF e
    <2>1. LET added == e % Word
              low == (bits + added) % Word
              carry == IF low < added THEN 1 ELSE 0
          IN low + Word * (((bits \div Word) + carry + (e \div Word)) % Word)
               = (bits + e) % (Word * Word)
      BY <1>1, <1>2, WordCount
    <2> QED
      BY <2>1 DEF Md5Count, e
  <1> QED
    BY <1>1, <1>3, <1>4

\* A call of the update functions adds its data to the message.
LEMMA Update ==
    ASSUME NEW S, NEW c, NEW m, NEW data \in Seq(S), Holds(S, c, m)
    PROVE  /\ Holds(S, Sha1Update(c, data), m \o data)
           /\ Holds(S, Md5Update(c, data), m \o data)
  <1> DEFINE L == Len(m)
             n == Len(data)
             pos == L % Block
             d == Sha1Absorb(c, pos, data)
             v == m \o data
  <1>1. /\ c.bits = (8 * L) % (Word * Word) /\ L \in Nat /\ n \in Nat
    BY LenProperties DEF Holds
  <1>2. /\ d \in Context(S) /\ d.bits = c.bits
        /\ Holding(d.absorbed, d.buffer, v, Len(v) % Block)
        /\ v \in Seq(S) /\ Len(v) = L + n
    BY Absorb
  <1>3. Sha1Position(c) = pos /\ Md5Position(c) = pos
    BY <1>1, Positions
  <1> DEFINE bits == (8 * Len(v)) % (Word * Word)
             e == [d EXCEPT !.bits = bits]
  <1>4. Sha1Update(c, data) = e
    <2>1. (c.bits + 8 * n) % (Word * Word) = bits
      BY <1>1, <1>2, Counts
    <2>2. Sha1Update(c, data) = [d EXCEPT !.bits = (@ + 8 * Len(data)) % (Word * Word)]
      BY <1>3 DEF Sha1Update
    <2> HIDE DEF d
    <2> QED
      BY <1>2, <2>1, <2>2
  <1>5. Md5Update(c, data) = e
    <2>1. Md5Count(c.bits, n) = bits
      BY <1>1, <1>2, Counts
    <2>2. Md5Update(c, data) = [d EXCEPT !.bits = Md5Count(@, Len(data))]
      BY <1>3 DEF Md5Update
    <2> HIDE DEF d
    <2> QED
      BY <1>2, <2>1, <2>2
  <1>6. bits \in Nat
    <2> DEFINE a == 8 * Len(v)
               w == Word * Word
    <2>1. a \in Nat /\ w \in Nat \ {0}
      BY <1>1, <1>2, DigestAssumption
    <2> HIDE DEF a, w
    <2>2. a % w \in Nat
      BY <2>1, DivMod
    <2> QED
      BY <2>2 DEF a, w
  <1> HIDE DEF d, v, bits, pos
  <1>7. /\ e \in Context(S) /\ e.absorbed = d.absorbed /\ e.buffer = d.buffer
        /\ e.bits = bits
    BY <1>2, <1>6 DEF Context
  <1> HIDE DEF e
  <1>8. Holds(S, e, v)
    BY <1>2, <1>7 DEF Holds, bits
  <1> QED
    BY <1>4, <1>5, <1>8 DEF v

-----------------------------------------------------------------------------
\* The padding.

\* The number of zeros of Padded.
ZerosFor(L) == (Block - ((L + 1 + LenBytes) % Block)) % Block

LEMMA ZerosAre ==
    ASSUME NEW L \in Nat
    PROVE  /\ (L % Block) + 1 + LenBytes <= Block
                => ZerosFor(L) = Block - LenBytes - (L % Block) - 1
           /\ (L % Block) + 1 + LenBytes > Block
                => ZerosFor(L) = 2 * Block - LenBytes - (L % Block) - 1
           /\ ZerosFor(L) \in 0..Block - 1
  <1>1. PICK q \in Nat, r \in 0..Block - 1 : L = Block * q + r /\ L % Block = r
    BY Divided, DigestAssumption, SMTT(60)
  <1>2. Block \in Nat \ {0} /\ LenBytes \in 1..Block
    BY DigestAssumption
  <1> DEFINE a == L + 1 + LenBytes
             b == r + 1 + LenBytes
  <1>3. a \in Nat /\ a = Block * q + b /\ b \in 1..2 * Block
    BY <1>1, <1>2
  <1>4. \A x \in 0..Block - 1 : x % Block = x
    <2> TAKE x \in 0..Block - 1
    <2>1. x \in Nat /\ x = Block * 0 + x
      BY <1>2
    <2> QED
      BY <1>2, <2>1, DivIs
  <1>5. Block % Block = 0
    <2>1. Block \in Nat /\ Block = Block * 1 + 0 /\ 0 \in 0..Block - 1
      BY <1>2
    <2> QED
      BY <1>2, <2>1, DivIs
  <1>6. CASE b < Block
    <2>1. a % Block = b
      <3> HIDE DEF a, b
      <3>1. b \in 0..Block - 1
        BY <1>2, <1>3, <1>6
      <3> QED
        BY <1>2, <1>3, <3>1, DivIs
    <2>2. Block - b \in 0..Block - 1
      BY <1>2, <1>3, <1>6
    <2>3. (Block - b) % Block = Block - b
      BY <1>4, <2>2
    <2>4. ZerosFor(L) = Block - b
      BY <2>1, <2>3 DEF ZerosFor
    <2> QED
      BY <1>1, <1>2, <1>6, <2>2, <2>4
  <1>7. CASE b >= Block /\ b < 2 * Block
    <2> DEFINE x == b - Block
               p == q + 1
    <2>1. a % Block = x
      <3>1. x \in 0..Block - 1 /\ a = Block * p + x /\ p \in Nat /\ a \in Nat
        BY <1>2, <1>3, <1>7
      <3> HIDE DEF a, x, p
      <3> QED
        BY <1>2, <3>1, DivIs
    <2>2. CASE x = 0
      <3>1. ZerosFor(L) = 0
        BY <1>2, <1>5, <2>1, <2>2 DEF ZerosFor
      <3> QED
        BY <1>1, <1>2, <1>7, <2>2, <3>1
    <2>3. CASE x # 0
      <3>1. Block - x \in 0..Block - 1
        BY <1>2, <1>3, <1>7, <2>3
      <3>2. (Block - x) % Block = Block - x
        BY <1>4, <3>1
      <3>3. ZerosFor(L) = Block - x
        BY <2>1, <3>2 DEF ZerosFor
      <3> QED
        BY <1>1, <1>2, <1>7, <2>3, <3>1, <3>3
    <2> QED
      BY <2>2, <2>3
  <1>8. CASE b = 2 * Block
    <2> DEFINE p == q + 2
    <2>1. a % Block = 0
      <3>1. 0 \in 0..Block - 1 /\ a = Block * p + 0 /\ p \in Nat /\ a \in Nat
        BY <1>2, <1>3, <1>8
      <3> HIDE DEF a, p
      <3> QED
        BY <1>2, <3>1, DivIs
    <2>2. ZerosFor(L) = 0
      BY <1>2, <1>5, <2>1 DEF ZerosFor
    <2> QED
      BY <1>1, <1>2, <1>8, <2>2
  <1> QED
    BY <1>1, <1>2, <1>3, <1>6, <1>7, <1>8

LEMMA ZerosSeq ==
    ASSUME NEW S, NEW n \in Nat, Zero \in S
    PROVE  Zeros(n) \in Seq(S) /\ Len(Zeros(n)) = n /\ \A k \in 1..n : Zeros(n)[k] = Zero
  BY DEF Zeros

\* What Padded(m) holds at each of its places.
LEMMA PaddedAt ==
    ASSUME NEW S, NEW m \in Seq(S), Mark \in S, Zero \in S,
           \A bits \in Nat : LengthField(bits) \in Seq(S)
    PROVE  LET L == Len(m)
               z == ZerosFor(L)
               p == Padded(m)
               field == LengthField((8 * L) % (Word * Word))
           IN /\ p \in Seq(S) /\ Len(p) = L + 1 + z + LenBytes /\ z \in Nat
              /\ \A k \in 1..L : p[k] = m[k]
              /\ p[L + 1] = Mark
              /\ \A k \in (L + 2)..(L + 1 + z) : p[k] = Zero
              /\ \A k \in (L + z + 2)..(L + 1 + z + LenBytes) : p[k] = field[k - (L + 1 + z)]
  <1> DEFINE L == Len(m)
             z == ZerosFor(L)
             bits == (8 * L) % (Word * Word)
             field == LengthField(bits)
             zeros == Zeros(z)
             a == m \o <<Mark>>
             b == a \o zeros
             p == b \o field
  <1>1. L \in Nat /\ LenBytes \in Nat /\ bits \in Nat
    <2> DEFINE x == 8 * L
               w == Word * Word
    <2>1. L \in Nat /\ x \in Nat /\ w \in Nat \ {0} /\ LenBytes \in Nat
      BY LenProperties, DigestAssumption
    <2> HIDE DEF x, w
    <2>2. x % w \in Nat
      BY <2>1, DivMod
    <2> QED
      BY <2>1, <2>2 DEF x, w
  <1>2. z \in Nat
    BY <1>1, ZerosAre, DigestAssumption
  <1>3. Padded(m) = p
    BY DEF Padded, ZerosFor
  <1> HIDE DEF z, bits
  <1>4. field \in Seq(S) /\ Len(field) = LenBytes
    BY <1>1 DEF LengthField
  <1>5. zeros \in Seq(S) /\ Len(zeros) = z /\ \A k \in 1..z : zeros[k] = Zero
    BY <1>2 DEF Zeros
  <1>6. <<Mark>> \in Seq(S) /\ Len(<<Mark>>) = 1 /\ <<Mark>>[1] = Mark
    OBVIOUS
  <1> HIDE DEF field, zeros
  <1>7. IsJoin(S, a, m, <<Mark>>)
    BY <1>6, Joined
  <1>8. a \in Seq(S) /\ Len(a) = L + 1 /\ (\A k \in 1..L : a[k] = m[k]) /\ a[L + 1] = Mark
    <2> HIDE DEF a, L
    <2>1. L + 1 \in (L + 1)..(L + 1) /\ (L + 1) - L = 1
      BY <1>1
    <2> DEFINE mark == <<Mark>>
    <2>2. mark \in Seq(S) /\ Len(mark) = 1 /\ mark[1] = Mark
      BY <1>6
    <2> HIDE DEF mark
    <2>3. IsJoin(S, a, m, mark)
      BY <1>7 DEF mark
    <2>4. /\ a \in Seq(S) /\ Len(a) = L + 1
          /\ \A k \in 1..L : a[k] = m[k]
          /\ \A k \in (L + 1)..(L + 1) : a[k] = mark[k - L]
      BY <2>2, <2>3 DEF IsJoin, L
    <2> QED
      BY <2>1, <2>2, <2>4
  <1> HIDE DEF a
  <1>9. IsJoin(S, b, a, zeros)
    BY <1>5, <1>8, Joined
  <1>10. /\ b \in Seq(S) /\ Len(b) = L + 1 + z
         /\ \A k \in 1..(L + 1) : b[k] = a[k]
         /\ \A k \in (L + 2)..(L + 1 + z) : b[k] = Zero
    <2> HIDE DEF b, L
    <2>1. /\ b \in Seq(S) /\ Len(b) = L + 1 + z
          /\ \A k \in 1..(L + 1) : b[k] = a[k]
          /\ \A k \in ((L + 1) + 1)..(L + 1 + z) : b[k] = zeros[k - (L + 1)]
      BY <1>5, <1>8, <1>9 DEF IsJoin
    <2>2. ASSUME NEW k \in (L + 2)..(L + 1 + z) PROVE b[k] = Zero
      <3>1. k - (L + 1) \in 1..z /\ k \in ((L + 1) + 1)..(L + 1 + z)
        BY <1>1, <1>2
      <3> QED
        BY <1>5, <2>1, <3>1
    <2> QED
      BY <2>1, <2>2
  <1> HIDE DEF b
  <1>11. IsJoin(S, p, b, field)
    BY <1>4, <1>10, Joined
  <1> HIDE DEF p, L
  <1>12. /\ p \in Seq(S) /\ Len(p) = L + 1 + z + LenBytes
         /\ \A k \in 1..(L + 1 + z) : p[k] = b[k]
         /\ \A k \in ((L + 1 + z) + 1)..(L + 1 + z + LenBytes) : p[k] = field[k - (L + 1 + z)]
    BY <1>4, <1>10, <1>11 DEF IsJoin
  <1>13. (L + 1 + z) + 1 = L + z + 2
    BY <1>1, <1>2
  <1>14. ASSUME NEW k \in 1..L PROVE p[k] = m[k]
    <2>1. k \in 1..(L + 1) /\ k \in 1..(L + 1 + z)
      BY <1>1, <1>2
    <2> QED
      BY <1>8, <1>10, <1>12, <2>1
  <1>15. p[L + 1] = Mark
    <2>1. L + 1 \in 1..(L + 1) /\ L + 1 \in 1..(L + 1 + z)
      BY <1>1, <1>2
    <2> QED
      BY <1>8, <1>10, <1>12, <2>1
  <1>16. ASSUME NEW k \in (L + 2)..(L + 1 + z) PROVE p[k] = Zero
    <2>1. k \in 1..(L + 1 + z)
      BY <1>1, <1>2
    <2> QED
      BY <1>10, <1>12, <2>1
  <1>17. /\ p \in Seq(S) /\ Len(p) = L + 1 + z + LenBytes /\ z \in Nat
         /\ \A k \in 1..L : p[k] = m[k]
         /\ p[L + 1] = Mark
         /\ \A k \in (L + 2)..(L + 1 + z) : p[k] = Zero
         /\ \A k \in (L + z + 2)..(L + 1 + z + LenBytes) : p[k] = field[k - (L + 1 + z)]
    BY <1>2, <1>12, <1>13, <1>14, <1>15, <1>16
  <1> QED
    BY <1>3, <1>17 DEF L, z, bits, field

LEMMA FieldLength ==
    ASSUME NEW bits \in Nat
    PROVE  Len(LengthField(bits)) = LenBytes
  BY DigestAssumption DEF LengthField

\* The final functions of the SHA family give the padded message.
LEMMA Sha1FinalIs ==
    ASSUME NEW S, NEW c, NEW m, Mark \in S, Zero \in S,
           \A bits \in Nat : LengthField(bits) \in Seq(S), Holds(S, c, m)
    PROVE  Sha1Final(c) = Padded(m)
  <1> DEFINE L == Len(m)
             r == L % Block
             z == ZerosFor(L)
             bits == (8 * L) % (Word * Word)
             field == LengthField(bits)
             p == Padded(m)
  <1>1. /\ L \in Nat /\ Block \in Nat \ {0} /\ LenBytes \in 1..Block
        /\ r \in 0..L /\ r < Block
    BY LenProperties, Remains, DigestAssumption DEF Holds
  <1>2. c.bits = bits /\ bits \in Nat /\ c.absorbed \in Seq(S) /\ c.buffer \in [1..Block -> S]
    BY DEF Holds, Context
  <1>3. /\ Len(c.absorbed) = L - r
        /\ \A k \in 1..(L - r) : c.absorbed[k] = m[k]
        /\ \A k \in 1..r : c.buffer[k] = m[L - r + k]
    BY DEF Holds, Holding
  <1>4. /\ p \in Seq(S) /\ Len(p) = L + 1 + z + LenBytes /\ z \in Nat
        /\ \A k \in 1..L : p[k] = m[k]
        /\ p[L + 1] = Mark
        /\ \A k \in (L + 2)..(L + 1 + z) : p[k] = Zero
        /\ \A k \in (L + z + 2)..(L + 1 + z + LenBytes) : p[k] = field[k - (L + 1 + z)]
    BY PaddedAt DEF Holds
  <1>5. /\ r + 1 + LenBytes <= Block => z = Block - LenBytes - r - 1
        /\ r + 1 + LenBytes > Block => z = 2 * Block - LenBytes - r - 1
    BY <1>1, ZerosAre
  <1>6. Sha1Position(c) + 1 = r + 1
    BY <1>1, <1>2, Positions
  <1>7. field \in Seq(S) /\ Len(field) = LenBytes
    BY <1>2, FieldLength
  <1>12. z \in Nat /\ Len(p) = L + 1 + z + LenBytes
    BY <1>4
  <1> HIDE DEF L, r, z, bits, field, p
  <1> DEFINE pos == r + 1
             mark == <<Mark>>
             marked == PutAt(c.buffer, pos - 1, mark)
  <1>8. /\ marked \in [1..Block -> S]
        /\ \A k \in 1..r : marked[k] = m[L - r + k]
        /\ marked[r + 1] = Mark
    <2>1. mark \in Seq(S) /\ pos - 1 = r /\ r \in Nat /\ Len(mark) = 1 /\ mark[1] = Mark
      BY <1>1
    <2> HIDE DEF mark, pos
    <2>2. IsPut(S, marked, c.buffer, r, mark)
      BY <1>2, <2>1, Put
    <2> HIDE DEF marked
    <2>3. /\ marked \in [1..Block -> S]
          /\ \A k \in 1..Block : marked[k] = IF k - r \in 1..1 THEN mark[k - r] ELSE c.buffer[k]
      BY <2>1, <2>2 DEF IsPut
    <2>4. ASSUME NEW k \in 1..r PROVE marked[k] = m[L - r + k]
      <3>1. k \in 1..Block /\ ~(k - r \in 1..1)
        BY <1>1
      <3> QED
        BY <1>3, <2>3, <3>1
    <2>5. r + 1 \in 1..Block /\ (r + 1) - r = 1 /\ 1 \in 1..1
      BY <1>1
    <2> QED
      BY <2>1, <2>3, <2>4, <2>5
  <1> HIDE DEF mark, marked
  <1>9. ASSUME NEW from \in 0..(Block - LenBytes)
        PROVE  LET last == PutAt(PutAt(marked, from, Zeros(Block - LenBytes - from)),
                                 Block - LenBytes, field)
               IN /\ last \in Seq(S) /\ Len(last) = Block
                  /\ \A k \in 1..from : last[k] = marked[k]
                  /\ \A k \in (from + 1)..(Block - LenBytes) : last[k] = Zero
                  /\ \A k \in (Block - LenBytes + 1)..Block :
                       last[k] = field[k - (Block - LenBytes)]
    <2> DEFINE gap == Block - LenBytes - from
               zeros == Zeros(gap)
               cleared == PutAt(marked, from, zeros)
               end == Block - LenBytes
               last == PutAt(cleared, end, field)
    <2>1. from \in Nat /\ gap \in Nat /\ end \in Nat /\ from + gap = end /\ end < Block
          /\ Block - end = LenBytes
      BY <1>1
    <2> HIDE DEF gap, end
    <2>2. zeros \in Seq(S) /\ Len(zeros) = gap /\ \A k \in 1..gap : zeros[k] = Zero
      BY <2>1, ZerosSeq
    <2> HIDE DEF zeros
    <2>3. IsPut(S, cleared, marked, from, zeros)
      BY <1>8, <2>1, <2>2, Put
    <2> HIDE DEF cleared
    <2>4. /\ cleared \in [1..Block -> S]
          /\ \A k \in 1..Block :
               cleared[k] = IF k - from \in 1..gap THEN zeros[k - from] ELSE marked[k]
      BY <2>2, <2>3 DEF IsPut
    <2>5. IsPut(S, last, cleared, end, field)
      BY <1>7, <2>1, <2>4, Put
    <2> HIDE DEF last
    <2>6. /\ last \in [1..Block -> S]
          /\ \A k \in 1..Block :
               last[k] = IF k - end \in 1..LenBytes THEN field[k - end] ELSE cleared[k]
      BY <1>7, <2>5 DEF IsPut
    <2>7. last \in Seq(S) /\ Len(last) = Block
      BY <2>6, BufferSeq
    <2>8. ASSUME NEW k \in 1..from PROVE last[k] = marked[k]
      <3>1. k \in 1..Block /\ ~(k - end \in 1..LenBytes) /\ ~(k - from \in 1..gap)
        BY <1>1, <2>1
      <3> QED
        BY <2>4, <2>6, <3>1
    <2>9. ASSUME NEW k \in (from + 1)..end PROVE last[k] = Zero
      <3>1. k \in 1..Block /\ ~(k - end \in 1..LenBytes) /\ k - from \in 1..gap
        BY <1>1, <2>1
      <3> QED
        BY <2>2, <2>4, <2>6, <3>1
    <2>10. ASSUME NEW k \in (end + 1)..Block PROVE last[k] = field[k - end]
      <3>1. k \in 1..Block /\ k - end \in 1..LenBytes
        BY <1>1, <2>1
      <3> QED
        BY <2>6, <3>1
    <2>11. /\ last \in Seq(S) /\ Len(last) = Block
           /\ \A k \in 1..from : last[k] = marked[k]
           /\ \A k \in (from + 1)..end : last[k] = Zero
           /\ \A k \in (end + 1)..Block : last[k] = field[k - end]
      BY <2>7, <2>8, <2>9, <2>10
    <2> QED
      BY <2>11 DEF last, cleared, end, zeros, gap
  <1>10. CASE ~(pos > Block - LenBytes)
    <2> DEFINE last == PutAt(PutAt(marked, pos, Zeros(Block - LenBytes - pos)),
                             Block - LenBytes, field)
               x == c.absorbed \o <<>> \o last
    <2>1. Sha1Final(c) = x
      BY <1>2, <1>6, <1>10 DEF Sha1Final, marked, mark, field
    <2>2. pos \in 0..(Block - LenBytes) /\ z = Block - LenBytes - pos /\ pos = r + 1
      BY <1>1, <1>5, <1>10
    <2>3. /\ last \in Seq(S) /\ Len(last) = Block
          /\ \A k \in 1..pos : last[k] = marked[k]
          /\ \A k \in (pos + 1)..(Block - LenBytes) : last[k] = Zero
          /\ \A k \in (Block - LenBytes + 1)..Block : last[k] = field[k - (Block - LenBytes)]
      BY <1>9, <2>2
    <2> HIDE DEF last, pos
    <2>4. x = c.absorbed \o last
      BY <1>2, ConcatEmptySeq
    <2> DEFINE y == c.absorbed \o last
    <2>5. IsJoin(S, y, c.absorbed, last)
      BY <1>2, <2>3, Joined
    <2> HIDE DEF y
    <2>6. /\ y \in Seq(S) /\ Len(y) = L - r + Block
          /\ \A k \in 1..(L - r) : y[k] = c.absorbed[k]
          /\ \A k \in (L - r + 1)..(L - r + Block) : y[k] = last[k - (L - r)]
      BY <1>3, <2>3, <2>5 DEF IsJoin
    <2>7. Len(y) = Len(p) /\ L + 1 + z = L - r + (Block - LenBytes)
      <3>1. Len(y) = L - r + Block
        BY <2>6
      <3> QED
        BY <1>1, <1>12, <2>2, <3>1
    <2>8. ASSUME NEW k \in 1..Len(y) PROVE y[k] = p[k]
      <3>0. k \in 1..(L - r + Block)
        BY <2>6
      <3>1. CASE k <= L - r
        <4>1. k \in 1..(L - r) /\ k \in 1..L
          BY <1>1, <3>0, <3>1
        <4> QED
          BY <1>3, <1>4, <2>6, <4>1
      <3>2. CASE k > L - r /\ k <= L
        <4>1. k \in 1..L /\ k \in (L - r + 1)..(L - r + Block) /\ k - (L - r) \in 1..r
              /\ k - (L - r) \in 1..pos /\ L - r + (k - (L - r)) = k
          BY <1>1, <2>2, <3>0, <3>2
        <4>2. y[k] = last[k - (L - r)]
          BY <2>6, <4>1
        <4>3. last[k - (L - r)] = marked[k - (L - r)]
          BY <2>3, <4>1
        <4>4. marked[k - (L - r)] = m[L - r + (k - (L - r))]
          BY <1>8, <4>1
        <4> QED
          BY <1>4, <4>1, <4>2, <4>3, <4>4
      <3>3. CASE k = L + 1
        <4>1. k \in (L - r + 1)..(L - r + Block) /\ k - (L - r) = r + 1 /\ r + 1 \in 1..pos
          BY <1>1, <2>2, <3>0, <3>3
        <4>2. y[k] = last[r + 1]
          BY <2>6, <4>1
        <4>3. last[r + 1] = marked[r + 1]
          BY <2>3, <4>1
        <4> QED
          BY <1>4, <1>8, <3>3, <4>2, <4>3
      <3>4. CASE k > L + 1 /\ k <= L + 1 + z
        <4>1. /\ k \in (L - r + 1)..(L - r + Block) /\ k \in (L + 2)..(L + 1 + z)
              /\ k - (L - r) \in (pos + 1)..(Block - LenBytes)
          BY <1>1, <1>12, <2>2, <3>0, <3>4
        <4>2. y[k] = last[k - (L - r)]
          BY <2>6, <4>1
        <4>3. last[k - (L - r)] = Zero
          BY <2>3, <4>1
        <4> QED
          BY <1>4, <4>1, <4>2, <4>3
      <3>5. CASE k > L + 1 + z
        <4>1. /\ k \in (L - r + 1)..(L - r + Block)
              /\ k \in (L + z + 2)..(L + 1 + z + LenBytes)
              /\ k - (L - r) \in (Block - LenBytes + 1)..Block
              /\ (k - (L - r)) - (Block - LenBytes) = k - (L + 1 + z)
          BY <1>1, <1>12, <2>2, <3>0, <3>5
        <4>2. y[k] = last[k - (L - r)]
          BY <2>6, <4>1
        <4>3. last[k - (L - r)] = field[(k - (L - r)) - (Block - LenBytes)]
          BY <2>3, <4>1
        <4>4. p[k] = field[k - (L + 1 + z)]
          BY <1>4, <4>1
        <4> QED
          BY <4>1, <4>2, <4>3, <4>4
      <3> QED
        <4>1. k \in Int /\ L \in Int /\ r \in Int /\ z \in Int
          BY <1>1, <1>12, <3>0
        <4>2. k <= L - r \/ (k > L - r /\ k <= L) \/ k = L + 1 \/ (k > L + 1 /\ k <= L + 1 + z)
                \/ k > L + 1 + z
          BY <4>1
        <4> QED
          BY <3>1, <3>2, <3>3, <3>4, <3>5, <4>2
    <2>9. y = p
      BY <1>4, <2>6, <2>7, <2>8, SeqEqual
    <2> QED
      BY <2>1, <2>4, <2>9 DEF y, p
  <1>11. CASE pos > Block - LenBytes
    <2> DEFINE zeros == Zeros(Block - pos)
               before == PutAt(marked, pos, zeros)
               last == PutAt(PutAt(marked, 0, Zeros(Block - LenBytes - 0)),
                             Block - LenBytes, field)
               start == c.absorbed \o before
               y == start \o last
    <2>1. Sha1Final(c) = y
      BY <1>2, <1>6, <1>11 DEF Sha1Final, marked, mark, field
    <2>2. pos \in 1..Block /\ z = 2 * Block - LenBytes - pos /\ pos = r + 1
          /\ 0 \in 0..(Block - LenBytes)
      BY <1>1, <1>5, <1>11
    <2>3. /\ last \in Seq(S) /\ Len(last) = Block
          /\ \A k \in (0 + 1)..(Block - LenBytes) : last[k] = Zero
          /\ \A k \in (Block - LenBytes + 1)..Block : last[k] = field[k - (Block - LenBytes)]
      BY <1>9, <2>2
    <2> HIDE DEF last, pos
    <2>4. /\ zeros \in Seq(S) /\ Len(zeros) = Block - pos
          /\ \A k \in 1..(Block - pos) : zeros[k] = Zero
          /\ pos \in Nat
      <3> DEFINE gap == Block - pos
      <3>1. gap \in Nat /\ pos \in Nat
        BY <1>1, <2>2
      <3> HIDE DEF gap
      <3>2. Zeros(gap) \in Seq(S) /\ Len(Zeros(gap)) = gap /\ \A k \in 1..gap : Zeros(gap)[k] = Zero
        BY <3>1, ZerosSeq
      <3> QED
        BY <3>1, <3>2 DEF gap
    <2> HIDE DEF zeros
    <2>5. IsPut(S, before, marked, pos, zeros)
      BY <1>8, <2>4, Put
    <2> HIDE DEF before
    <2>6. /\ before \in Seq(S) /\ Len(before) = Block
          /\ \A k \in 1..Block :
               before[k] = IF k - pos \in 1..(Block - pos) THEN zeros[k - pos] ELSE marked[k]
      <3>1. /\ before \in [1..Block -> S]
            /\ \A k \in 1..Block :
                 before[k] = IF k - pos \in 1..(Block - pos) THEN zeros[k - pos] ELSE marked[k]
        BY <2>4, <2>5 DEF IsPut
      <3> QED
        BY <3>1, BufferSeq
    <2>7. IsJoin(S, start, c.absorbed, before)
      BY <1>2, <2>6, Joined
    <2> HIDE DEF start
    <2>8. /\ start \in Seq(S) /\ Len(start) = L - r + Block
          /\ \A k \in 1..(L - r) : start[k] = c.absorbed[k]
          /\ \A k \in (L - r + 1)..(L - r + Block) : start[k] = before[k - (L - r)]
      BY <1>3, <2>6, <2>7 DEF IsJoin
    <2>9. IsJoin(S, y, start, last)
      BY <2>3, <2>8, Joined
    <2> HIDE DEF y
    <2>10. /\ y \in Seq(S) /\ Len(y) = L - r + Block + Block
           /\ \A k \in 1..(L - r + Block) : y[k] = start[k]
           /\ \A k \in (L - r + Block + 1)..(L - r + Block + Block) :
                y[k] = last[k - (L - r + Block)]
      BY <2>3, <2>8, <2>9 DEF IsJoin
    <2>11. /\ Len(y) = Len(p)
           /\ L + 1 + z = L - r + Block + (Block - LenBytes)
           /\ L + 1 <= L - r + Block
      <3>1. Len(y) = L - r + Block + Block
        BY <2>10
      <3> QED
        BY <1>1, <1>12, <2>2, <3>1
    <2>12. ASSUME NEW k \in 1..Len(y) PROVE y[k] = p[k]
      <3>0. k \in 1..(L - r + Block + Block)
        BY <2>10
      <3>1. CASE k <= L - r
        <4>1. k \in 1..(L - r) /\ k \in 1..L /\ k \in 1..(L - r + Block)
          BY <1>1, <3>0, <3>1
        <4> QED
          BY <1>3, <1>4, <2>8, <2>10, <4>1
      <3>2. CASE k > L - r /\ k <= L
        <4>1. k \in 1..L /\ k \in 1..(L - r + Block) /\ k \in (L - r + 1)..(L - r + Block)
              /\ k - (L - r) \in 1..r /\ k - (L - r) \in 1..Block
              /\ ~((k - (L - r)) - pos \in 1..(Block - pos)) /\ L - r + (k - (L - r)) = k
          BY <1>1, <2>2, <3>0, <3>2
        <4>2. y[k] = marked[k - (L - r)]
          BY <2>6, <2>8, <2>10, <4>1
        <4> QED
          BY <1>4, <1>8, <4>1, <4>2
      <3>3. CASE k = L + 1
        <4>1. k \in 1..(L - r + Block) /\ k \in (L - r + 1)..(L - r + Block)
              /\ k - (L - r) = pos /\ pos \in 1..Block /\ ~(pos - pos \in 1..(Block - pos))
          BY <1>1, <2>2, <3>0, <3>3
        <4>2. y[k] = marked[pos]
          BY <2>6, <2>8, <2>10, <4>1
        <4> QED
          BY <1>4, <1>8, <2>2, <3>3, <4>2
      <3>4. CASE k > L + 1 /\ k <= L - r + Block
        <4>1. k \in 1..(L - r + Block) /\ k \in (L - r + 1)..(L - r + Block)
              /\ k - (L - r) \in 1..Block /\ (k - (L - r)) - pos \in 1..(Block - pos)
              /\ k \in (L + 2)..(L + 1 + z)
          BY <1>1, <1>12, <2>2, <2>11, <3>0, <3>4
        <4>2. y[k] = zeros[(k - (L - r)) - pos]
          BY <2>6, <2>8, <2>10, <4>1
        <4> QED
          BY <1>4, <2>4, <4>1, <4>2
      <3>5. CASE k > L - r + Block /\ k <= L + 1 + z
        <4>1. /\ k \in (L - r + Block + 1)..(L - r + Block + Block)
              /\ k \in (L + 2)..(L + 1 + z)
              /\ k - (L - r + Block) \in (0 + 1)..(Block - LenBytes)
          BY <1>1, <1>12, <2>2, <2>11, <3>0, <3>5
        <4>2. y[k] = last[k - (L - r + Block)]
          BY <2>10, <4>1
        <4>3. last[k - (L - r + Block)] = Zero
          BY <2>3, <4>1
        <4> QED
          BY <1>4, <4>1, <4>2, <4>3
      <3>6. CASE k > L + 1 + z
        <4>1. /\ k \in (L - r + Block + 1)..(L - r + Block + Block)
              /\ k \in (L + z + 2)..(L + 1 + z + LenBytes)
              /\ k - (L - r + Block) \in (Block - LenBytes + 1)..Block
              /\ (k - (L - r + Block)) - (Block - LenBytes) = k - (L + 1 + z)
          BY <1>1, <1>12, <2>2, <2>11, <3>0, <3>6
        <4>2. y[k] = last[k - (L - r + Block)]
          BY <2>10, <4>1
        <4>3. last[k - (L - r + Block)] = field[(k - (L - r + Block)) - (Block - LenBytes)]
          BY <2>3, <4>1
        <4>4. p[k] = field[k - (L + 1 + z)]
          BY <1>4, <4>1
        <4> QED
          BY <4>1, <4>2, <4>3, <4>4
      <3> QED
        BY <1>1, <1>12, <3>0, <3>1, <3>2, <3>3, <3>4, <3>5, <3>6
    <2>13. y = p
      BY <1>4, <2>10, <2>11, <2>12, SeqEqual
    <2> QED
      BY <2>1, <2>13 DEF p
  <1> QED
    BY <1>10, <1>11

LEMMA WholeBlocks ==
    ASSUME NEW L \in Nat
    PROVE  (L + 1 + ZerosFor(L) + LenBytes) % Block = 0
  <1>1. PICK q \in Nat, r \in 0..Block - 1 : L = Block * q + r /\ L % Block = r
    BY Divided, DigestAssumption, SMTT(60)
  <1>2. Block \in Nat \ {0} /\ LenBytes \in 1..Block
    BY DigestAssumption
  <1> DEFINE z == ZerosFor(L)
             a == L + 1 + z + LenBytes
  <1>3. /\ r + 1 + LenBytes <= Block => z = Block - LenBytes - r - 1
        /\ r + 1 + LenBytes > Block => z = 2 * Block - LenBytes - r - 1
        /\ z \in Nat
    <2>1. /\ (L % Block) + 1 + LenBytes <= Block => z = Block - LenBytes - (L % Block) - 1
          /\ (L % Block) + 1 + LenBytes > Block => z = 2 * Block - LenBytes - (L % Block) - 1
          /\ z \in 0..Block - 1
      BY ZerosAre
    <2> HIDE DEF z
    <2> QED
      BY <1>1, <1>2, <2>1
  <1> HIDE DEF z
  <1>4. PICK p \in Nat : a = Block * p + 0
    <2>1. CASE r + 1 + LenBytes <= Block
      <3>1. a = Block * (q + 1) + 0
        BY <1>1, <1>2, <1>3, <2>1
      <3> QED
        BY <3>1
    <2>2. CASE r + 1 + LenBytes > Block
      <3>1. a = Block * (q + 2) + 0
        BY <1>1, <1>2, <1>3, <2>2
      <3> QED
        BY <3>1
    <2> QED
      BY <1>2, <2>1, <2>2
  <1>5. a \in Nat /\ 0 \in 0..Block - 1
    BY <1>2, <1>3
  <1> HIDE DEF a
  <1>6. a % Block = 0
    BY <1>2, <1>4, <1>5, DivIs
  <1> QED
    BY <1>6 DEF a, z

\* The final function of MD5 gives the padded message.
LEMMA Md5FinalIs ==
    ASSUME NEW S, NEW c, NEW m, Mark \in S, Zero \in S,
           \A bits \in Nat : LengthField(bits) \in Seq(S), Holds(S, c, m)
    PROVE  Md5Final(c) = Padded(m)
  <1> DEFINE L == Len(m)
             r == L % Block
             z == ZerosFor(L)
             bits == (8 * L) % (Word * Word)
             field == LengthField(bits)
             mark == <<Mark>>
             zeros == Zeros(z)
             tail == mark \o zeros
             padded == Md5Update(c, tail)
             final == Md5Update(padded, field)
             v == m \o tail
             w == v \o field
  <1>1. /\ L \in Nat /\ Block \in Nat \ {0} /\ LenBytes \in 1..Block
        /\ r \in 0..L /\ r < Block /\ m \in Seq(S)
    BY LenProperties, Remains, DigestAssumption DEF Holds
  <1>2. c.bits = bits /\ bits \in Nat
    BY DEF Holds, Context
  <1>3. /\ r + 1 + LenBytes <= Block => z = Block - LenBytes - r - 1
        /\ r + 1 + LenBytes > Block => z = 2 * Block - LenBytes - r - 1
        /\ z \in Nat
    <2>1. /\ r + 1 + LenBytes <= Block => z = Block - LenBytes - r - 1
          /\ r + 1 + LenBytes > Block => z = 2 * Block - LenBytes - r - 1
          /\ z \in 0..Block - 1
      BY <1>1, ZerosAre
    <2> HIDE DEF z, r
    <2> QED
      BY <1>1, <2>1
  <1>4. Md5Position(c) = r
    BY <1>1, <1>2, Positions
  <1>5. (L + 1 + z + LenBytes) % Block = 0
    BY <1>1, WholeBlocks
  <1>6. field \in Seq(S) /\ Len(field) = LenBytes
    BY <1>2, FieldLength
  <1>7. Padded(m) = ((m \o mark) \o zeros) \o field
    BY DEF Padded, ZerosFor
  <1> HIDE DEF r, z, bits, field
  <1>8. Md5Final(c) = final.absorbed
    <2> DEFINE upto == (IF r < Block - LenBytes THEN Block ELSE 2 * Block) - LenBytes
    <2>1. upto - r - 1 = z
      <3>1. CASE r < Block - LenBytes
        BY <1>1, <1>3, <3>1
      <3>2. CASE ~(r < Block - LenBytes)
        BY <1>1, <1>3, <3>2
      <3> QED
        BY <3>1, <3>2
    <2> QED
      BY <1>2, <1>4, <2>1 DEF Md5Final, field
  <1>9. zeros \in Seq(S) /\ Len(zeros) = z
    BY <1>3, ZerosSeq
  <1>10. mark \in Seq(S) /\ Len(mark) = 1
    OBVIOUS
  <1> HIDE DEF mark, zeros
  <1>11. tail \in Seq(S) /\ Len(tail) = 1 + z
    <2>1. IsJoin(S, tail, mark, zeros)
      BY <1>9, <1>10, Joined
    <2> HIDE DEF tail
    <2> QED
      BY <1>9, <1>10, <2>1 DEF IsJoin
  <1>12. (m \o mark) \o zeros = v
    <2>1. m \in Seq(S) /\ mark \in Seq(S) /\ zeros \in Seq(S)
      BY <1>1, <1>9, <1>10
    <2>2. Grouped(m, mark, zeros)
      BY <2>1, Regroup
    <2> QED
      BY <2>2 DEF Grouped
  <1> HIDE DEF tail
  <1>13. Holds(S, padded, v)
    BY <1>11, Update
  <1>14. v \in Seq(S) /\ Len(v) = L + (1 + z)
    BY <1>1, <1>11, Joined DEF IsJoin
  <1> HIDE DEF padded, v
  <1>15. Holds(S, final, w)
    BY <1>6, <1>13, Update
  <1>16. w \in Seq(S) /\ Len(w) = L + 1 + z + LenBytes
    <2>1. IsJoin(S, w, v, field)
      BY <1>6, <1>14, Joined
    <2> HIDE DEF w, L
    <2> QED
      BY <1>1, <1>3, <1>6, <1>14, <2>1 DEF IsJoin
  <1> HIDE DEF final, w, L
  <1>17. Holding(final.absorbed, final.buffer, w, 0) /\ final.absorbed \in Seq(S)
    BY <1>5, <1>15, <1>16 DEF Holds, Context
  <1>18. Len(final.absorbed) = Len(w) /\ \A k \in 1..Len(w) : final.absorbed[k] = w[k]
    <2>1. Len(w) \in Nat
      BY <1>16, LenProperties
    <2>2. Len(w) - 0 = Len(w)
      BY <2>1
    <2> QED
      BY <1>17, <2>2 DEF Holding
  <1>19. final.absorbed = w
    BY <1>16, <1>17, <1>18, SeqEqual
  <1> QED
    BY <1>7, <1>8, <1>12, <1>19 DEF w

LEMMA Congruent ==
    ASSUME NEW w \in Nat \ {0}, NEW a \in Nat, NEW b \in Nat, a % w = b % w, a < b
    PROVE  b - a >= w
  <1>1. PICK p \in Nat, s \in 0..w - 1 : a = w * p + s /\ a % w = s
    BY Divided
  <1>2. PICK q \in Nat, t \in 0..w - 1 : b = w * q + t /\ b % w = t
    BY Divided
  <1>3. s = t
    BY <1>1, <1>2
  <1>4. CASE q <= p
    BY <1>1, <1>2, <1>3, <1>4, MulMono
  <1>5. CASE q >= p + 1
    <2>1. w * (p + 1) <= w * q /\ w * (p + 1) = w * p + w
      BY <1>5, MulMono
    <2>2. w * p \in Nat /\ w * q \in Nat
      OBVIOUS
    <2> QED
      BY <1>1, <1>2, <1>3, <2>1, <2>2
  <1> QED
    BY <1>4, <1>5

\* Two messages of different length have different bits or number of blocks.
LEMMA LengthsTell ==
    ASSUME NEW L \in Nat, NEW K \in Nat, L + ZerosFor(L) = K + ZerosFor(K),
           (8 * L) % (Word * Word) = (8 * K) % (Word * Word)
    PROVE  ~(L < K)
  <1> SUFFICES ASSUME L < K PROVE FALSE
    OBVIOUS
  <1> DEFINE w == Word * Word
             a == 8 * L
             b == 8 * K
  <1>1. PICK e \in Nat \ {0} : Word = 8 * (Block * e)
    BY Words
  <1>2. Word \in Nat \ {0} /\ Block \in Nat \ {0}
    BY DigestAssumption
  <1>3. w >= 8 * Block /\ w \in Nat \ {0}
    <2>1. Block * e >= Block
      BY <1>2
    <2>2. Word >= 8 * Block
      BY <1>1, <1>2, <2>1
    <2>3. w >= Word
      BY <1>2
    <2> QED
      BY <1>2, <2>2, <2>3
  <1>12. w \in Nat \ {0}
    BY <1>3
  <1>4. ZerosFor(L) \in 0..Block - 1 /\ ZerosFor(K) \in 0..Block - 1
    BY ZerosAre
  <1>5. b - a < 8 * Block /\ b > a /\ a \in Nat /\ b \in Nat
    BY <1>2, <1>4
  <1>6. a % w = b % w
    OBVIOUS
  <1> HIDE DEF w, a, b
  <1>7. b - a >= w
    BY <1>5, <1>6, <1>12, Congruent
  <1>8. b - a < w
    <2> DEFINE d == 8 * Block
    <2>1. d \in Nat
      BY <1>2
    <2> HIDE DEF d
    <2>2. b - a < d /\ w >= d
      BY <1>3, <1>5 DEF d
    <2> QED
      BY <1>5, <1>12, <2>1, <2>2
  <1> QED
    BY <1>5, <1>7, <1>8, <1>12

\* Padding loses nothing, whatever the bytes of the messages.
LEMMA PaddedInjective ==
    ASSUME NEW S, Mark \in S, Zero \in S, \A bits \in Nat : LengthField(bits) \in Seq(S),
           NEW m \in Seq(S), NEW n \in Seq(S), Padded(m) = Padded(n)
    PROVE  m = n
  <1> DEFINE L == Len(m)
             K == Len(n)
             p == Padded(m)
             f == (8 * L) % (Word * Word)
             g == (8 * K) % (Word * Word)
             y == ZerosFor(L)
             z == ZerosFor(K)
  <1>1. L \in Nat /\ K \in Nat /\ LenBytes \in Nat \ {0} /\ LenBytes \in 1..LenBytes
    BY LenProperties, DigestAssumption
  <1>2. /\ Len(p) = L + 1 + y + LenBytes /\ y \in Nat
        /\ \A k \in 1..L : p[k] = m[k]
        /\ \A k \in (L + y + 2)..(L + 1 + y + LenBytes) : p[k] = LengthField(f)[k - (L + 1 + y)]
    BY PaddedAt
  <1>3. /\ Len(p) = K + 1 + z + LenBytes /\ z \in Nat
        /\ \A k \in 1..K : p[k] = n[k]
        /\ \A k \in (K + z + 2)..(K + 1 + z + LenBytes) : p[k] = LengthField(g)[k - (K + 1 + z)]
    BY PaddedAt
  <1> HIDE DEF p, y, z, f, g, L, K
  <1>10. y \in Nat /\ z \in Nat
    BY <1>2, <1>3
  <1>4. L + y = K + z
    BY <1>1, <1>2, <1>3
  <1>5. f = g
    <2>1. LengthField(f)[LenBytes] = <<"length", LenBytes, f>>
      BY <1>1 DEF LengthField
    <2>2. LengthField(g)[LenBytes] = <<"length", LenBytes, g>>
      BY <1>1 DEF LengthField
    <2>3. /\ L + 1 + y + LenBytes \in (L + y + 2)..(L + 1 + y + LenBytes)
          /\ (L + 1 + y + LenBytes) - (L + 1 + y) = LenBytes
      BY <1>1, <1>10
    <2>4. p[L + 1 + y + LenBytes] = LengthField(f)[LenBytes]
      BY <1>2, <2>3
    <2>5. /\ K + 1 + z + LenBytes \in (K + z + 2)..(K + 1 + z + LenBytes)
          /\ (K + 1 + z + LenBytes) - (K + 1 + z) = LenBytes
      BY <1>1, <1>10
    <2>6. p[K + 1 + z + LenBytes] = LengthField(g)[LenBytes]
      BY <1>3, <2>5
    <2>7. L + 1 + y + LenBytes = K + 1 + z + LenBytes
      BY <1>2, <1>3
    <2> QED
      BY <2>1, <2>2, <2>4, <2>6, <2>7
  <1>6. ~(L < K)
    BY <1>1, <1>4, <1>5, LengthsTell DEF f, g, y, z
  <1>7. ~(K < L)
    BY <1>1, <1>4, <1>5, LengthsTell DEF f, g, y, z
  <1>8. L = K
    BY <1>1, <1>6, <1>7
  <1>9. Len(m) = Len(n) /\ \A k \in 1..Len(m) : m[k] = n[k]
    BY <1>2, <1>3, <1>8 DEF L, K
  <1> QED
    BY <1>9, SeqEqual

-----------------------------------------------------------------------------
\* The contexts of the applets: what they hold of the file they read.

Byte == FileBytes \cup {Mark, Zero, Stale}
          \cup {<<"length", k, bits>> : k \in 1..LenBytes, bits \in Nat}

Taken(c, m) ==
    IF Crc THEN c \in Context(Byte) /\ c.absorbed = m /\ m \in Seq(Byte) ELSE Holds(Byte, c, m)

LEMMA Bytes ==
    /\ Mark \in Byte /\ Zero \in Byte /\ Stale \in Byte
    /\ \A bits \in Nat : LengthField(bits) \in Seq(Byte)
    /\ \A m \in Seq(FileBytes) : m \in Seq(Byte)
  <1>1. Mark \in Byte /\ Zero \in Byte /\ Stale \in Byte
    BY DEF Byte
  <1>2. ASSUME NEW bits \in Nat PROVE LengthField(bits) \in Seq(Byte)
    <2>1. LengthField(bits) \in [1..LenBytes -> Byte]
      BY DEF LengthField, Byte
    <2> QED
      BY <2>1, DigestAssumption
  <1>3. ASSUME NEW m \in Seq(FileBytes) PROVE m \in Seq(Byte)
    <2>1. FileBytes \subseteq Byte
      BY DEF Byte
    <2> QED
      BY <2>1, SeqMonotonic
  <1> QED
    BY <1>1, <1>2, <1>3

LEMMA Fresher ==
    ASSUME NEW junk \in Byte
    PROVE  Holds(Byte, Fresh(junk), <<>>) /\ Fresh(junk) \in Context(Byte)
  <1>1. Fresh(junk) \in Context(Byte)
    BY DEF Fresh, Context
  <1>2. Len(<<>>) = 0 /\ <<>> \in Seq(Byte) /\ 0 % Block = 0
    BY DivIs, DigestAssumption
  <1>3. Word * Word \in Nat \ {0}
    BY DigestAssumption
  <1>4. 0 % (Word * Word) = 0
    <2> DEFINE w == Word * Word
    <2>1. w \in Nat \ {0} /\ 0 = w * 0 + 0 /\ 0 \in 0..w - 1
      BY <1>3
    <2> HIDE DEF w
    <2>2. 0 % w = 0
      BY <2>1, DivIs
    <2> QED
      BY <2>2 DEF w
  <1>5. Holding(<<>>, Fresh(junk).buffer, <<>>, 0)
    BY <1>2 DEF Holding
  <1> QED
    BY <1>1, <1>2, <1>4, <1>5 DEF Holds, Fresh

LEMMA Begins ==
    ASSUME applet \in Applets
    PROVE  Taken(NewContext, <<>>)
  <1>1. applet \in {"md5sum", "sha1sum", "sha224sum", "sha256sum", "crc32"}
    BY ChecksumAssumption
  <1>2. NewContext \in {Fresh(Stale), Fresh(Zero)}
    BY <1>1 DEF NewContext, Md5, Crc, Md5Init, CrcInit, Sha1Init, Sha224Init, Sha256Init
  <1>3. Crc => NewContext = Fresh(Zero)
    BY DEF NewContext, Md5, Crc, CrcInit
  <1>4. Fresh(Zero).absorbed = <<>> /\ <<>> \in Seq(Byte)
    BY DEF Fresh
  <1> QED
    BY <1>2, <1>3, <1>4, Bytes, Fresher DEF Taken

LEMMA Continues ==
    ASSUME applet \in Applets, NEW m, NEW data \in Seq(Byte), Taken(ctx, m)
    PROVE  Taken(Updated(data), m \o data)
  <1>1. applet \in {"md5sum", "sha1sum", "sha224sum", "sha256sum", "crc32"}
    BY ChecksumAssumption
  <1>2. CASE Crc
    <2>1. Updated(data) = [ctx EXCEPT !.absorbed = @ \o data]
      BY <1>2 DEF Updated, Crc, Md5, CrcUpdate
    <2>2. ctx \in Context(Byte) /\ ctx.absorbed = m /\ m \in Seq(Byte)
      BY <1>2 DEF Taken
    <2>3. m \o data \in Seq(Byte)
      BY <2>2, ConcatProperties
    <2> QED
      BY <1>2, <2>1, <2>2, <2>3 DEF Taken, Context
  <1>3. CASE ~Crc
    <2>1. Holds(Byte, ctx, m)
      BY <1>3 DEF Taken
    <2>2. Updated(data) \in {Sha1Update(ctx, data), Md5Update(ctx, data)}
      BY <1>1, <1>3 DEF Updated, Crc, Md5, Sha224Update, Sha256Update
    <2>3. /\ Holds(Byte, Sha1Update(ctx, data), m \o data)
          /\ Holds(Byte, Md5Update(ctx, data), m \o data)
      BY <2>1, Update
    <2> QED
      BY <1>3, <2>2, <2>3 DEF Taken
  <1> QED
    BY <1>2, <1>3

LEMMA Ends ==
    ASSUME applet \in Applets, NEW m, Taken(ctx, m)
    PROVE  Finished = Reference(m)
  <1>1. applet \in {"md5sum", "sha1sum", "sha224sum", "sha256sum", "crc32"}
    BY ChecksumAssumption
  <1>2. CASE Crc
    BY <1>2 DEF Finished, Crc, Md5, CrcFinal, Taken, Reference
  <1>3. CASE ~Crc
    <2>1. Holds(Byte, ctx, m)
      BY <1>3 DEF Taken
    <2>2. Finished \in {Sha1Final(ctx), Md5Final(ctx)}
      BY <1>1, <1>3 DEF Finished, Crc, Md5, Sha224Final, Sha256Final
    <2>3. Mark \in Byte /\ Zero \in Byte /\ \A bits \in Nat : LengthField(bits) \in Seq(Byte)
      BY Bytes
    <2>4. Sha1Final(ctx) = Padded(m) /\ Md5Final(ctx) = Padded(m)
      BY <2>1, <2>3, Sha1FinalIs, Md5FinalIs
    <2> QED
      BY <1>3, <2>2, <2>4 DEF Reference
  <1> QED
    BY <1>2, <1>3

LEMMA Longer ==
    ASSUME NEW S, NEW s \in Seq(S), NEW o \in 0..Len(s), NEW n \in 1..(Len(s) - o)
    PROVE  /\ SubSeq(s, o + 1, o + n) \in Seq(S)
           /\ SubSeq(s, 1, o) \o SubSeq(s, o + 1, o + n) = SubSeq(s, 1, o + n)
  <1> DEFINE a == SubSeq(s, 1, o)
             b == SubSeq(s, o + 1, o + n)
             c == SubSeq(s, 1, o + n)
             u == a \o b
             L == Len(s)
  <1>1. L \in Nat
    BY LenProperties
  <1>2. o \in 0..L /\ n \in 1..(L - o) /\ o + n \in 1..L
    BY <1>1
  <1>3. a \in Seq(S) /\ Len(a) = o /\ \A i \in 1..o : a[i] = s[i]
    <2>1. 1 \in 1..(L + 1) /\ o \in (1 - 1)..L
      BY <1>1
    <2>2. /\ a \in Seq(S) /\ Len(a) = o - 1 + 1
          /\ \A i \in 1..(o - 1 + 1) : a[i] = s[1 + i - 1]
      BY <2>1, Part
    <2> QED
      BY <1>2, <2>2
  <1>4. b \in Seq(S) /\ Len(b) = n /\ \A i \in 1..n : b[i] = s[o + i]
    <2>1. o + 1 \in 1..(L + 1) /\ o + n \in ((o + 1) - 1)..L
      BY <1>1, <1>2
    <2>2. /\ b \in Seq(S) /\ Len(b) = (o + n) - (o + 1) + 1
          /\ \A i \in 1..((o + n) - (o + 1) + 1) : b[i] = s[(o + 1) + i - 1]
      BY <2>1, Part
    <2>3. (o + n) - (o + 1) + 1 = n /\ \A i \in 1..n : (o + 1) + i - 1 = o + i
      BY <1>1, <1>2
    <2> QED
      BY <2>2, <2>3
  <1>5. c \in Seq(S) /\ Len(c) = o + n /\ \A i \in 1..(o + n) : c[i] = s[i]
    <2>1. 1 \in 1..(L + 1) /\ o + n \in (1 - 1)..L
      BY <1>1, <1>2
    <2>2. /\ c \in Seq(S) /\ Len(c) = o + n - 1 + 1
          /\ \A i \in 1..(o + n - 1 + 1) : c[i] = s[1 + i - 1]
      BY <2>1, Part
    <2> QED
      BY <1>2, <2>2
  <1> HIDE DEF a, b, c
  <1>6. IsJoin(S, u, a, b)
    BY <1>3, <1>4, Joined
  <1> HIDE DEF u, L
  <1>7. /\ u \in Seq(S) /\ Len(u) = o + n
        /\ \A i \in 1..o : u[i] = a[i]
        /\ \A i \in (o + 1)..(o + n) : u[i] = b[i - o]
    BY <1>3, <1>4, <1>6 DEF IsJoin
  <1>8. ASSUME NEW i \in 1..(o + n) PROVE u[i] = c[i]
    <2>1. CASE i <= o
      BY <1>2, <1>3, <1>5, <1>7, <2>1
    <2>2. CASE i > o
      <3>1. i \in (o + 1)..(o + n) /\ i - o \in 1..n /\ o + (i - o) = i
        BY <1>1, <1>2, <2>2
      <3>2. u[i] = b[i - o]
        BY <1>7, <3>1
      <3>3. b[i - o] = s[i]
        BY <1>4, <3>1
      <3> QED
        BY <1>5, <3>2, <3>3
    <2> QED
      BY <1>1, <1>2, <2>1, <2>2
  <1>9. u = c
    BY <1>5, <1>7, <1>8, SeqEqual
  <1> QED
    BY <1>4, <1>9 DEF u, a, b, c

LEMMA WholePart ==
    ASSUME NEW S, NEW s \in Seq(S)
    PROVE  SubSeq(s, 1, 0) = <<>> /\ SubSeq(s, 1, Len(s)) = s
  <1>1. Len(s) \in Nat
    BY LenProperties
  <1>2. SubSeq(s, 1, 0) \in Seq(S) /\ Len(SubSeq(s, 1, 0)) = 0
    BY <1>1, Part, 1 \in 1..(Len(s) + 1), 0 \in (1 - 1)..Len(s)
  <1>3. SubSeq(s, 1, 0) = <<>>
    BY <1>2, EmptySeq
  <1>4. /\ SubSeq(s, 1, Len(s)) \in Seq(S) /\ Len(SubSeq(s, 1, Len(s))) = Len(s)
        /\ \A i \in 1..Len(s) : SubSeq(s, 1, Len(s))[i] = s[i]
    <2>1. 1 \in 1..(Len(s) + 1) /\ Len(s) \in (1 - 1)..Len(s)
      BY <1>1
    <2>2. /\ SubSeq(s, 1, Len(s)) \in Seq(S) /\ Len(SubSeq(s, 1, Len(s))) = Len(s) - 1 + 1
          /\ \A i \in 1..(Len(s) - 1 + 1) : SubSeq(s, 1, Len(s))[i] = s[1 + i - 1]
      BY <2>1, Part
    <2> QED
      BY <1>1, <2>2
  <1> QED
    BY <1>3, <1>4, SeqEqual

LEMMA LeastOfTwo ==
    ASSUME NEW a \in Int, NEW b \in Int
    PROVE  Min({a, b}) \in {a, b} /\ Min({a, b}) <= a /\ Min({a, b}) <= b
  <1>1. \E x \in {a, b} : \A y \in {a, b} : x <= y
    BY a <= b \/ b <= a
  <1> QED
    BY <1>1 DEF Min

-----------------------------------------------------------------------------
\* What every state keeps: the file that is hashed is there, and the
\* context holds what was read of it.

Folder(f) == f \in [DOMAIN f -> Seq(FileBytes)] /\ <<>> \notin DOMAIN f

TypeInv ==
    /\ applet \in Applets /\ asked \in Seq(ToSet(asked)) /\ Folder(files)
    /\ mode \in {"compute", "check"} /\ pc \in {"next", "read", "hashed", "exit"}
    /\ at \in Nat \ {0}

Hashing ==
    /\ pc \in {"read", "hashed"} => name \in DOMAIN files
    /\ pc = "read" => /\ offset \in 0..Len(files[name])
                      /\ Taken(ctx, SubSeq(files[name], 1, offset))
    /\ pc = "hashed" => digest = Reference(files[name])

IInv == TypeInv /\ Hashing

LEMMA FolderOf ==
    ASSUME NEW f \in Folders
    PROVE  Folder(f)
  BY FoldersAssumption DEF Folder

\* The files stay typed when one of them changes or goes.
LEMMA FolderKept ==
    ASSUME NEW f, Folder(f), NEW n \in DOMAIN f
    PROVE  /\ \A m \in Seq(FileBytes) : Folder([f EXCEPT ![n] = m])
           /\ Folder([m \in DOMAIN f \ {n} |-> f[m]])
  BY DEF Folder

LEMMA InitIInv == SumInit => IInv
  <1> SUFFICES ASSUME NEW a \in Applets, NEW o \in Options, NEW names \in OperandLists,
                      NEW folder \in Folders, SumStart(a, o, names, folder)
               PROVE  IInv
    BY DEF SumInit
  <1> USE DEF SumStart
  <1>1. Folder(files)
    BY FolderOf
  <1> QED
    BY <1>1, OperandsAssumption DEF IInv, TypeInv, Hashing

\* Opening a file that is there and giving one up.
LEMMA StartIInv ==
    ASSUME IInv, NEW n, Start(n)
    PROVE  IInv'
  <1> USE DEF Start, Unchanging, Openable
  <1>1. TypeInv'
    BY DEF IInv, TypeInv
  <1>2. files[n] \in Seq(FileBytes)
    BY DEF IInv, TypeInv, Folder
  <1>3. Taken(NewContext, <<>>)
    BY Begins DEF IInv, TypeInv
  <1>4. SubSeq(files[n], 1, 0) = <<>> /\ Len(files[n]) \in Nat
    BY <1>2, WholePart, LenProperties
  <1>5. Taken(ctx', SubSeq(files'[name'], 1, offset')) /\ offset' \in 0..Len(files'[name'])
    <2>1. ctx' = NewContext /\ offset' = 0 /\ name' = n /\ files' = files
      OBVIOUS
    <2>2. SubSeq(files'[name'], 1, offset') = <<>> /\ offset' \in 0..Len(files'[name'])
      BY <1>4, <2>1
    <2> QED
      BY <1>3, <2>1, <2>2
  <1>6. UNCHANGED applet /\ name' \in DOMAIN files' /\ pc' = "read"
    OBVIOUS
  <1>7. Hashing'
    BY <1>5, <1>6 DEF Hashing, Taken, Crc
  <1> QED
    BY <1>1, <1>7 DEF IInv

LEMMA GiveUpIInv ==
    ASSUME IInv, GiveUp
    PROVE  IInv'
  BY DEF IInv, TypeInv, Hashing, GiveUp, Unchanging

LEMMA ReadIInv ==
    ASSUME IInv, ReadChunk
    PROVE  IInv'
  <1> DEFINE s == files[name]
  <1>1. TypeInv'
    BY DEF IInv, TypeInv, ReadChunk, Unchanging
  <1>2. /\ pc = "read" /\ name \in DOMAIN files /\ applet \in Applets
        /\ s \in Seq(FileBytes) /\ offset \in 0..Len(s) /\ Taken(ctx, SubSeq(s, 1, offset))
    BY DEF IInv, TypeInv, Hashing, Folder, ReadChunk
  <1>3. Len(s) \in Nat /\ Chunk \in Nat \ {0}
    BY <1>2, LenProperties, ChecksumAssumption
  <1>4. PICK n \in IF Md5 THEN 1..Min({Chunk, Len(s) - offset})
                          ELSE {Min({Chunk, Len(s) - offset})} \ {0} :
              ctx' = Updated(SubSeq(s, offset + 1, offset + n)) /\ offset' = offset + n
    BY DEF ReadChunk
  <1> HIDE DEF s
  <1>5. n \in 1..(Len(s) - offset)
    <2> DEFINE left == Len(s) - offset
               most == Min({Chunk, left})
    <2>4. left \in Int /\ Chunk \in Int
      BY <1>2, <1>3
    <2>1. most \in {Chunk, left} /\ most <= left
      <3> HIDE DEF left
      <3> QED
        BY <2>4, LeastOfTwo
    <2>2. most \in Nat
      BY <1>2, <1>3, <2>1
    <2> HIDE DEF most
    <2>3. n \in IF Md5 THEN 1..most ELSE {most} \ {0}
      BY DEF most
    <2> QED
      BY <1>2, <1>3, <2>1, <2>2, <2>3
  <1>6. s \in Seq(Byte)
    BY <1>2, Bytes
  <1> DEFINE data == SubSeq(s, offset + 1, offset + n)
  <1>7. data \in Seq(Byte) /\ SubSeq(s, 1, offset) \o data = SubSeq(s, 1, offset + n)
    BY <1>2, <1>5, <1>6, Longer
  <1> HIDE DEF data
  <1>8. Taken(Updated(data), SubSeq(s, 1, offset) \o data)
    BY <1>2, <1>7, Continues
  <1>9. Taken(ctx', SubSeq(s, 1, offset'))
    BY <1>4, <1>7, <1>8 DEF data
  <1>10. offset' \in 0..Len(s)
    BY <1>2, <1>3, <1>4, <1>5
  <1>11. UNCHANGED <<files, name, pc, applet>>
    BY DEF ReadChunk, Unchanging
  <1>12. Hashing'
    BY <1>2, <1>9, <1>10, <1>11 DEF Hashing, Taken, Crc, s
  <1> QED
    BY <1>1, <1>12 DEF IInv

LEMMA EndIInv ==
    ASSUME IInv, ReadEnds
    PROVE  IInv'
  <1>1. TypeInv'
    BY DEF IInv, TypeInv, ReadEnds, Unchanging
  <1>2. /\ name \in DOMAIN files /\ files[name] \in Seq(FileBytes) /\ applet \in Applets
        /\ Taken(ctx, SubSeq(files[name], 1, Len(files[name])))
    BY DEF IInv, TypeInv, Hashing, Folder, ReadEnds
  <1>3. SubSeq(files[name], 1, Len(files[name])) = files[name]
    BY <1>2, WholePart
  <1>4. Finished = Reference(files[name])
    BY <1>2, <1>3, Ends
  <1> QED
    BY <1>1, <1>2, <1>4 DEF IInv, Hashing, ReadEnds, Unchanging, Reference, Crc

LEMMA BetweenIInv ==
    ASSUME IInv, Between
    PROVE  IInv'
  <1>1. Folder(files)
    BY DEF IInv, TypeInv
  <1>2. Folder(files)'
    <2>1. CASE UNCHANGED files
      BY <1>1, <2>1 DEF Folder
    <2>2. CASE \E n \in DOMAIN files, folder \in Folders :
                 n \in DOMAIN folder /\ files' = [files EXCEPT ![n] = folder[n]]
      <3>1. PICK n \in DOMAIN files, folder \in Folders :
                   n \in DOMAIN folder /\ files' = [files EXCEPT ![n] = folder[n]]
        BY <2>2
      <3>2. folder[n] \in Seq(FileBytes)
        BY <3>1, FolderOf DEF Folder
      <3> QED
        BY <1>1, <3>1, <3>2, FolderKept
    <2>3. CASE \E n \in DOMAIN files : files' = [m \in DOMAIN files \ {n} |-> files[m]]
      BY <1>1, <2>3, FolderKept
    <2> QED
      BY <2>1, <2>2, <2>3 DEF Between
  <1> QED
    BY <1>2 DEF IInv, TypeInv, Hashing, Between

LEMMA NextIInv == IInv /\ [SumNext]_sumVars => IInv'
  <1> SUFFICES ASSUME IInv, [SumNext]_sumVars PROVE IInv'
    OBVIOUS
  <1> USE DEF IInv, TypeInv, Hashing, Unchanging
  <1>1. CASE OpenOperand
    BY <1>1, StartIInv DEF OpenOperand
  <1>2. CASE OperandFails
    BY <1>2, GiveUpIInv DEF OperandFails
  <1>3. CASE PrintLine
    BY <1>3 DEF PrintLine
  <1>4. CASE ComputeEnds
    BY <1>4 DEF ComputeEnds, Leave
  <1>5. CASE ReadChunk
    BY <1>5, ReadIInv
  <1>6. CASE Md5ReadFails \/ ShaReadFails
    BY <1>6, GiveUpIInv DEF Md5ReadFails, ShaReadFails
  <1>7. CASE ReadEnds
    BY <1>7, EndIInv
  <1>8. CASE Between
    BY <1>8, BetweenIInv
  <1>9. CASE RejectLine
    BY <1>9 DEF RejectLine, Skip, Checking
  <1>10. CASE MissingFile
    BY <1>10 DEF MissingFile, Skip, Checking
  <1>11. CASE OpenFails
    <2>1. CASE GiveUp
      BY <2>1, GiveUpIInv
    <2>2. CASE ~GiveUp
      BY <1>11, <2>2 DEF OpenFails
    <2> QED
      BY <2>1, <2>2
  <1>12. CASE OpenListed
    BY <1>12, StartIInv DEF OpenListed
  <1>13. CASE Compare
    BY <1>13 DEF Compare, Skip
  <1>14. CASE ListUnopened \/ ListUnread
    BY <1>14 DEF ListUnopened, ListUnread, Leave
  <1>15. CASE CheckEnds
    BY <1>15 DEF CheckEnds, Leave
  <1>16. CASE UNCHANGED sumVars
    BY <1>16 DEF sumVars, Folder, Taken, Crc, Reference
  <1> QED
    BY <1>1, <1>2, <1>3, <1>4, <1>5, <1>6, <1>7, <1>8, <1>9, <1>10, <1>11, <1>12,
       <1>13, <1>14, <1>15, <1>16 DEF SumNext

\* However the reads cut a file, its digest is that of the padded whole
\* (DigestIsReference).
THEOREM DigestsAreTrue == SumSpec => []DigestIsReference
  <1>1. IInv => DigestIsReference
    BY DEF IInv, Hashing, DigestIsReference
  <1> QED
    BY <1>1, InitIInv, NextIInv, PTL DEF SumSpec

-----------------------------------------------------------------------------
\* The list while it is printed.

IsList(s) == s \in Seq(ToSet(s))

LEMMA SeqIsList ==
    ASSUME NEW S, NEW s \in Seq(S)
    PROVE  IsList(s)
  <1>1. s \in [1..Len(s) -> S] /\ DOMAIN s = 1..Len(s) /\ Len(s) \in Nat
    BY LenProperties
  <1>2. s \in [1..Len(s) -> ToSet(s)]
    BY <1>1 DEF ToSet
  <1> QED
    BY <1>1, <1>2, SeqDef DEF IsList

LEMMA ListDomain ==
    ASSUME NEW s, IsList(s)
    PROVE  DOMAIN s = 1..Len(s) /\ Len(s) \in Nat
  BY LenProperties DEF IsList

LEMMA ListAppend ==
    ASSUME NEW s, NEW e, IsList(s)
    PROVE  /\ IsList(Append(s, e)) /\ Len(s) \in Nat
           /\ DOMAIN s = 1..Len(s) /\ DOMAIN Append(s, e) = 1..(Len(s) + 1)
           /\ Append(s, e)[Len(s) + 1] = e
           /\ \A k \in 1..Len(s) : Append(s, e)[k] = s[k]
  <1> DEFINE S == ToSet(s) \cup {e}
  <1>1. s \in Seq(S) /\ e \in S
    BY SeqMonotonic DEF IsList
  <1>2. Len(s) \in Nat /\ DOMAIN s = 1..Len(s)
    BY <1>1, LenProperties
  <1>3. /\ Append(s, e) \in Seq(S) /\ Len(Append(s, e)) = Len(s) + 1
        /\ \A k \in 1..Len(s) : Append(s, e)[k] = s[k]
        /\ Append(s, e)[Len(s) + 1] = e
    BY <1>1, AppendProperties
  <1>4. DOMAIN Append(s, e) = 1..Len(Append(s, e))
    BY <1>3, LenProperties
  <1> QED
    BY <1>2, <1>3, <1>4, SeqIsList

Told == 1..(at - 1) \ failed

\* What was printed so far, and why a status is what it is.
Telling ==
    mode = "compute" =>
        /\ IsList(list) /\ Listed(Told)
        /\ \A k \in DOMAIN list : list[k].name \in DOMAIN files
        /\ at \in 1..(Len(asked) + 1) /\ failed \subseteq 1..at
        /\ pc \in {"read", "hashed"} => at <= Len(asked) /\ name = asked[at]
        /\ pc # "exit" => failed \subseteq 1..(at - 1) /\ (Md5 => failed = {})
        /\ (exitStatus = 0 <=> (Crc \/ failed = {}))
        /\ pc = "exit" => IF Md5 /\ failed # {} THEN failed = {at} ELSE at = Len(asked) + 1

LEMMA InitTelling == SumInit => Telling
  <1> SUFFICES ASSUME NEW a \in Applets, NEW o \in Options, NEW names \in OperandLists,
                      NEW folder \in Folders, SumStart(a, o, names, folder)
               PROVE  Telling
    BY DEF SumInit
  <1> USE DEF SumStart
  <1>1. IsList(list)
    BY EmptySeq, SeqIsList
  <1>2. Told = {} /\ DOMAIN list = {}
    BY DEF Told
  <1>3. Listed(Told)
    <2> DEFINE read == [k \in DOMAIN list |-> 0]
    <2>1. read \in [DOMAIN list -> Told] /\ ToSet(read) = {}
      BY <1>2 DEF ToSet
    <2> QED
      BY <1>2, <2>1 DEF Listed
  <1>4. Len(asked) \in Nat
    BY OperandsAssumption, LenProperties
  <1> QED
    BY <1>1, <1>2, <1>3, <1>4 DEF Telling

\* A step that prints nothing.
LEMMA SameTold ==
    ASSUME Listed(Told), Told' = Told, UNCHANGED <<list, asked, files, applet, opts>>
    PROVE  Listed(Told)'
  BY DEF Listed, LineOf, Form, Reference, Crc

LEMMA StartTelling ==
    ASSUME IInv, Telling, OpenOperand
    PROVE  Telling'
  <1> USE DEF OpenOperand, Computing, Start, Unchanging
  <1>1. asked \in Seq(ToSet(asked))
    BY DEF IInv, TypeInv
  <1>2. Len(asked) \in Nat /\ at \in 1..Len(asked)
    BY <1>1, LenProperties
  <1>3. Told' = Told
    BY DEF Told
  <1>4. Listed(Told)'
    BY <1>3, SameTold DEF Telling
  <1>5. pc' = "read" /\ name' = asked[at] /\ mode = "compute" /\ pc = "next"
    OBVIOUS
  <1> QED
    BY <1>2, <1>4, <1>5 DEF Telling, Md5, Crc

LEMMA GiveUpTelling ==
    ASSUME IInv, Telling, GiveUp, pc \in {"next", "read"},
           mode = "compute" => at \in DOMAIN asked
    PROVE  Telling'
  <1> SUFFICES ASSUME mode = "compute" PROVE Telling'
    BY DEF Telling, GiveUp, Unchanging
  <1> USE DEF GiveUp, Unchanging
  <1>1. asked \in Seq(ToSet(asked)) /\ at \in Nat
    BY DEF IInv, TypeInv
  <1>2. Len(asked) \in Nat /\ at \in 1..Len(asked)
    BY <1>1, LenProperties
  <1>3. /\ failed \subseteq 1..(at - 1) /\ (Md5 => failed = {}) /\ Listed(Told)
        /\ (exitStatus = 0 <=> (Crc \/ failed = {}))
        /\ IsList(list) /\ \A k \in DOMAIN list : list[k].name \in DOMAIN files
    BY DEF Telling
  <1>4. Told' = Told
    <2>1. at' \in {at, at + 1} /\ failed' = failed \cup {at}
      OBVIOUS
    <2> QED
      BY <1>1, <2>1 DEF Told
  <1>5. Listed(Told)'
    BY <1>3, <1>4, SameTold
  <1>6. failed' = failed \cup {at} /\ failed' \subseteq 1..at
    BY <1>1, <1>3
  <1>7. exitStatus' = 0 <=> (Crc \/ failed' = {})
    BY <1>3
  <1>8. CASE Md5
    BY <1>1, <1>2, <1>3, <1>5, <1>6, <1>7, <1>8 DEF Telling, Md5, Crc
  <1>9. CASE ~Md5
    BY <1>1, <1>2, <1>3, <1>5, <1>6, <1>7, <1>9 DEF Telling, Md5, Crc
  <1> QED
    BY <1>8, <1>9

LEMMA PrintTelling ==
    ASSUME IInv, Telling, PrintLine
    PROVE  Telling'
  <1> USE DEF PrintLine, Unchanging
  <1> DEFINE line == LineOf(asked[at])
             L == Len(list)
  <1>1. asked \in Seq(ToSet(asked)) /\ at \in Nat /\ Len(asked) \in Nat
    BY LenProperties DEF IInv, TypeInv
  <1>2. /\ failed \subseteq 1..(at - 1) /\ (Md5 => failed = {}) /\ Listed(Told)
        /\ (exitStatus = 0 <=> (Crc \/ failed = {})) /\ at \in 1..Len(asked)
        /\ IsList(list) /\ \A k \in DOMAIN list : list[k].name \in DOMAIN files
        /\ name = asked[at]
    BY <1>1 DEF Telling
  <1>3. digest = Reference(files[name]) /\ name \in DOMAIN files
    BY DEF IInv, Hashing
  <1>4. list' = Append(list, line)
    BY <1>2, <1>3 DEF LineOf
  <1>5. line.name \in DOMAIN files
    BY <1>2, <1>3 DEF LineOf
  <1>6. Told' = Told \cup {at}
    BY <1>1, <1>2 DEF Told
  <1> HIDE DEF line
  <1>7. /\ IsList(list') /\ L \in Nat /\ DOMAIN list = 1..L /\ DOMAIN list' = 1..(L + 1)
        /\ list'[L + 1] = line /\ \A k \in 1..L : list'[k] = list[k]
    BY <1>2, <1>4, ListAppend
  <1> HIDE DEF L
  <1>8. Listed(Told)'
    <2>1. PICK read \in [DOMAIN list -> Told] :
              /\ \A j, k \in DOMAIN list : j < k => read[j] < read[k]
              /\ ToSet(read) = Told
              /\ \A k \in DOMAIN list : list[k] = LineOf(asked[read[k]])
      BY <1>2 DEF Listed
    <2> DEFINE next == [k \in 1..(L + 1) |-> IF k = L + 1 THEN at ELSE read[k]]
    <2>2. read \in [1..L -> Told] /\ \A k \in 1..L : read[k] \in Told
      BY <1>7, <2>1
    <2>3. next[L + 1] = at /\ \A k \in 1..L : next[k] = read[k]
      BY <1>7
    <2>4. DOMAIN next = 1..(L + 1) /\ next \in [1..(L + 1) -> Told \cup {at}]
      BY <1>7, <2>2
    <2> HIDE DEF next
    <2>5. ASSUME NEW j \in 1..(L + 1), NEW k \in 1..(L + 1), j < k
          PROVE  next[j] < next[k]
      <3>1. j \in 1..L /\ next[j] = read[j] /\ read[j] \in Told
        BY <1>7, <2>2, <2>3, <2>5
      <3>2. CASE k = L + 1
        <4>1. read[j] < at
          BY <1>1, <3>1 DEF Told
        <4> QED
          BY <2>3, <3>1, <3>2, <4>1
      <3>3. CASE k # L + 1
        <4>1. k \in 1..L
          BY <1>7, <3>3
        <4> QED
          BY <1>7, <2>1, <2>3, <2>5, <3>1, <4>1
      <3> QED
        BY <3>2, <3>3
    <2>6. ToSet(next) = Told \cup {at}
      <3>1. ToSet(next) \subseteq Told \cup {at}
        BY <2>4 DEF ToSet
      <3>2. ASSUME NEW o \in Told PROVE o \in ToSet(next)
        <4>1. PICK k \in 1..L : o = read[k]
          BY <1>7, <2>1 DEF ToSet
        <4>2. k \in 1..(L + 1) /\ next[k] = o
          BY <1>7, <2>3, <4>1
        <4> QED
          BY <2>4, <4>2 DEF ToSet
      <3>3. at \in ToSet(next)
        BY <1>7, <2>3, <2>4, L + 1 \in 1..(L + 1) DEF ToSet
      <3> QED
        BY <3>1, <3>2, <3>3
    <2>7. ASSUME NEW k \in 1..(L + 1) PROVE list'[k] = LineOf(asked[next[k]])
      <3>1. CASE k = L + 1
        BY <1>7, <2>3, <3>1 DEF line
      <3>2. CASE k # L + 1
        <4>1. k \in 1..L
          BY <1>7, <3>2
        <4> QED
          BY <1>7, <2>1, <2>3, <4>1
      <3> QED
        BY <3>1, <3>2
    <2>8. PICK chosen \in [1..(L + 1) -> Told \cup {at}] :
              /\ \A j, k \in 1..(L + 1) : j < k => chosen[j] < chosen[k]
              /\ ToSet(chosen) = Told \cup {at}
              /\ \A k \in 1..(L + 1) : list'[k] = LineOf(asked[chosen[k]])
      BY <2>4, <2>5, <2>6, <2>7
    <2>9. \A k \in 1..(L + 1) : list'[k] = LineOf(asked[chosen[k]])'
      BY <2>8 DEF LineOf, Form, Reference, Crc
    <2>10. /\ chosen \in [DOMAIN list' -> Told']
           /\ \A j, k \in DOMAIN list' : j < k => chosen[j] < chosen[k]
           /\ ToSet(chosen) = Told'
           /\ \A k \in DOMAIN list' : list'[k] = LineOf(asked[chosen[k]])'
      BY <1>6, <1>7, <2>8, <2>9
    <2> QED
      BY <2>10 DEF Listed
  <1>9. ASSUME NEW k \in DOMAIN list' PROVE list'[k].name \in DOMAIN files'
    <2>1. CASE k = L + 1
      BY <1>5, <1>7, <2>1
    <2>2. CASE k # L + 1
      <3>1. k \in 1..L
        BY <1>7, <2>2
      <3> QED
        BY <1>2, <1>7, <3>1
    <2> QED
      BY <2>1, <2>2
  <1>10. /\ at' \in 1..(Len(asked) + 1) /\ failed' \subseteq 1..(at' - 1)
         /\ failed' \subseteq 1..at' /\ UNCHANGED <<asked, exitStatus, failed, applet>>
         /\ pc' = "next"
    BY <1>1, <1>2
  <1> HIDE DEF PrintLine
  <1> QED
    BY <1>2, <1>7, <1>8, <1>9, <1>10 DEF Telling, Md5, Crc

\* Reading goes on or ends, and nothing is told.
LEMMA ReadTelling ==
    ASSUME Telling, ReadChunk \/ ReadEnds
    PROVE  Telling'
  <1>1. /\ UNCHANGED <<list, asked, files, applet, opts, mode, at, failed, exitStatus, name>>
        /\ pc = "read" /\ pc' \in {"read", "hashed"}
    BY DEF ReadChunk, ReadEnds, Unchanging
  <1>2. Told' = Told
    BY <1>1 DEF Told
  <1>3. mode = "compute" => Listed(Told)'
    BY <1>1, <1>2, SameTold DEF Telling
  <1> QED
    BY <1>1, <1>3 DEF Telling, Md5, Crc

LEMMA EndTelling ==
    ASSUME IInv, Telling, ComputeEnds
    PROVE  Telling'
  <1> USE DEF ComputeEnds, Leave, Unchanging
  <1>1. Told' = Told
    BY DEF Told
  <1>2. Listed(Told)'
    BY <1>1, SameTold DEF Telling
  <1>3. Len(asked) \in Nat
    BY LenProperties DEF IInv, TypeInv
  <1>4. at' = Len(asked) + 1 /\ (Md5 => failed' = {})
    BY <1>3 DEF Telling
  <1> QED
    BY <1>2, <1>4 DEF Telling, Md5, Crc

LEMMA NextTelling == IInv /\ Telling /\ [SumNext]_sumVars => Telling'
  <1> SUFFICES ASSUME IInv, Telling, [SumNext]_sumVars PROVE Telling'
    OBVIOUS
  <1>0. mode = "compute" /\ pc \in {"read", "hashed"} => at \in DOMAIN asked
    <2>1. asked \in Seq(ToSet(asked)) /\ at \in Nat \ {0}
      BY DEF IInv, TypeInv
    <2> QED
      BY <2>1, LenProperties DEF Telling
  <1>1. CASE OpenOperand
    BY <1>1, StartTelling
  <1>2. CASE OperandFails
    <2>1. pc \in {"next", "read"} /\ at \in DOMAIN asked /\ GiveUp
      BY <1>2 DEF OperandFails, Computing
    <2> QED
      BY <2>1, GiveUpTelling
  <1>3. CASE PrintLine
    BY <1>3, PrintTelling
  <1>4. CASE ComputeEnds
    BY <1>4, EndTelling
  <1>5. CASE ReadChunk \/ ReadEnds
    BY <1>5, ReadTelling
  <1>6. CASE Md5ReadFails \/ ShaReadFails
    <2>1. pc = "read" /\ GiveUp
      BY <1>6 DEF Md5ReadFails, ShaReadFails
    <2>2. pc \in {"next", "read"}
      BY <2>1
    <2>3. mode = "compute" => at \in DOMAIN asked
      BY <1>0, <2>1
    <2> QED
      BY <2>1, <2>2, <2>3, GiveUpTelling
  <1>7. CASE Between
    BY <1>7 DEF Between, Telling
  <1>8. CASE RejectLine \/ MissingFile \/ OpenListed \/ Compare
    BY <1>8 DEF RejectLine, MissingFile, OpenListed, Compare, Skip, Checking, Start,
                Unchanging, Telling
  <1>9. CASE OpenFails
    <2>1. mode = "check" /\ UNCHANGED mode
      BY <1>9 DEF OpenFails, Checking, GiveUp, Unchanging
    <2> QED
      BY <2>1 DEF Telling
  <1>10. CASE ListUnopened \/ ListUnread \/ CheckEnds
    BY <1>10 DEF ListUnopened, ListUnread, CheckEnds, Unchanging, Telling
  <1>11. CASE UNCHANGED sumVars
    <2>1. UNCHANGED <<list, asked, files, applet, opts, mode, at, failed, exitStatus, name, pc>>
      BY <1>11 DEF sumVars
    <2>2. Told' = Told
      BY <2>1 DEF Told
    <2>3. mode = "compute" => Listed(Told)'
      BY <2>1, <2>2, SameTold DEF Telling
    <2> QED
      BY <2>1, <2>3 DEF Telling, Md5, Crc
  <1> QED
    BY <1>1, <1>2, <1>3, <1>4, <1>5, <1>6, <1>7, <1>8, <1>9, <1>10, <1>11 DEF SumNext

\* A printed list holds one true line for each operand that could be read,
\* and the status says whether that is all of them (ListTellsFiles).
THEOREM ListsAreTrue == SumSpec => []ListTellsFiles
  <1>1. IInv /\ Telling => ListTellsFiles
    <2> SUFFICES ASSUME IInv, Telling, mode = "compute", pc = "exit"
                 PROVE  LET last == IF Md5 /\ failed # {} THEN Min(failed) - 1 ELSE Len(asked)
                        IN /\ Listed(1..last \ failed)
                           /\ (exitStatus = 0) = (Crc \/ failed = {})
      BY DEF ListTellsFiles
    <2> DEFINE last == IF Md5 /\ failed # {} THEN Min(failed) - 1 ELSE Len(asked)
    <2>1. /\ Listed(Told) /\ (exitStatus = 0 <=> (Crc \/ failed = {}))
          /\ IF Md5 /\ failed # {} THEN failed = {at} ELSE at = Len(asked) + 1
      BY DEF Telling
    <2>2. Len(asked) \in Nat /\ at \in Nat
      BY LenProperties DEF IInv, TypeInv
    <2>3. 1..last \ failed = Told
      <3>1. CASE Md5 /\ failed # {}
        <4>1. \A x \in {at} : \A y \in {at} : x <= y
          BY <2>2
        <4>2. Min(failed) = at
          BY <2>1, <3>1, <4>1 DEF Min
        <4>3. last = at - 1
          BY <3>1, <4>2
        <4> QED
          BY <4>3 DEF Told
      <3>2. CASE ~(Md5 /\ failed # {})
        <4>1. last = at - 1
          BY <2>1, <2>2, <3>2
        <4> QED
          BY <4>1 DEF Told
      <3> QED
        BY <3>1, <3>2
    <2>4. (exitStatus = 0) = (Crc \/ failed = {})
      BY <2>1
    <2> QED
      BY <2>1, <2>3, <2>4
  <1>2. SumInit => IInv /\ Telling
    BY InitIInv, InitTelling
  <1>3. IInv /\ Telling /\ [SumNext]_sumVars => (IInv /\ Telling)'
    BY NextIInv, NextTelling
  <1> QED
    BY <1>1, <1>2, <1>3, PTL DEF SumSpec

-----------------------------------------------------------------------------
\* The list while it is checked.

TrueLine(line) ==
    /\ line.form = Form /\ line.name \in DOMAIN printed.files
    /\ line.digest = Reference(printed.files[line.name])

\* The list is the one that was printed, but for lines that were spoilt.
OfPrinted ==
    mode = "check" =>
        /\ IsList(list) /\ IsList(printed.list) /\ DOMAIN list = DOMAIN printed.list
        /\ Folder(printed.files)
        /\ \A i \in DOMAIN printed.list : TrueLine(printed.list[i])
        /\ \A i \in DOMAIN list : list[i] \in {printed.list[i], Bad}

Kept(i) ==
    /\ list[i] = printed.list[i] /\ list[i].name \in DOMAIN files
    /\ files[list[i].name] = printed.files[list[i].name]

Strict == ReadsBack /\ opts.strict /\ ~Forgiving

\* A status of 0 stands for the lines so far, and a list that is as it was
\* spoils none.
Verdict ==
    mode = "check" /\ Strict =>
        /\ pc \in {"read", "hashed"} =>
             at \in DOMAIN list /\ name = Named(list[at]) /\ name # <<>>
        /\ exitStatus = 0 => \A i \in DOMAIN list : i < at => Kept(i)
        /\ pc = "exit" /\ exitStatus = 0 /\ ~(Md5 /\ listCut) => at > Len(list)
        /\ AsBefore /\ failed = {} /\ ~listCut => exitStatus = 0

LEMMA ListSpoilt ==
    ASSUME NEW s, IsList(s), NEW i \in DOMAIN s, NEW e
    PROVE  /\ IsList([s EXCEPT ![i] = e]) /\ DOMAIN [s EXCEPT ![i] = e] = DOMAIN s
           /\ \A k \in DOMAIN s : [s EXCEPT ![i] = e][k] \in {s[k], e}
  <1> DEFINE S == ToSet(s) \cup {e}
  <1>1. s \in Seq(S) /\ e \in S
    BY SeqMonotonic DEF IsList
  <1>2. DOMAIN s = 1..Len(s)
    BY <1>1, LenProperties
  <1>3. [s EXCEPT ![i] = e] \in Seq(S)
    BY <1>1, <1>2, ExceptSeq
  <1> QED
    BY <1>3, SeqIsList

LEMMA SameEnd ==
    ASSUME NEW a \in Nat, NEW b \in Nat, 1..a = 1..b
    PROVE  a = b
  <1>1. ~(a < b)
    <2>1. a < b => b \in 1..b /\ b \notin 1..a
      OBVIOUS
    <2> QED
      BY <2>1
  <1>2. ~(b < a)
    <2>1. b < a => a \in 1..a /\ a \notin 1..b
      OBVIOUS
    <2> QED
      BY <2>1
  <1> QED
    BY <1>1, <1>2

LEMMA ListsEqual ==
    ASSUME NEW s, NEW t, IsList(s), IsList(t), DOMAIN s = DOMAIN t, \A k \in DOMAIN s : s[k] = t[k]
    PROVE  s = t
  <1> DEFINE S == ToSet(s) \cup ToSet(t)
  <1>1. s \in Seq(S) /\ t \in Seq(S)
    BY SeqMonotonic DEF IsList
  <1>2. DOMAIN s = 1..Len(s) /\ DOMAIN t = 1..Len(t) /\ Len(s) \in Nat /\ Len(t) \in Nat
    BY <1>1, LenProperties
  <1>3. Len(s) = Len(t)
    <2>1. 1..Len(s) = 1..Len(t)
      BY <1>2
    <2> QED
      BY <1>2, <2>1, SameEnd
  <1> QED
    BY <1>1, <1>2, <1>3, SeqEqual

LEMMA SameContents ==
    ASSUME NEW m \in Seq(FileBytes), NEW n \in Seq(FileBytes), Reference(m) = Reference(n)
    PROVE  m = n
  <1>1. /\ m \in Seq(Byte) /\ n \in Seq(Byte) /\ Mark \in Byte /\ Zero \in Byte
        /\ \A bits \in Nat : LengthField(bits) \in Seq(Byte)
    BY Bytes
  <1>2. CASE Crc
    BY <1>2 DEF Reference
  <1>3. CASE ~Crc
    <2>1. Padded(m) = Padded(n)
      BY <1>3 DEF Reference
    <2> QED
      BY <1>1, <2>1, PaddedInjective
  <1> QED
    BY <1>2, <1>3

\* A list that reads back gives the name of every line but a spoilt one.
LEMMA NamedIs ==
    ASSUME applet \in Applets, OfPrinted, mode = "check", ReadsBack, NEW i \in DOMAIN list
    PROVE  /\ Found = list
           /\ Named(list[i]) = IF list[i] = printed.list[i] THEN list[i].name ELSE <<>>
           /\ list[i] = printed.list[i] => TrueLine(list[i]) /\ list[i].name # <<>>
  <1>1. applet \in {"md5sum", "sha1sum", "sha224sum", "sha256sum", "crc32"}
    BY ChecksumAssumption
  <1>2. Found = list
    BY DEF Found, ReadsBack
  <1>3. list[i] = printed.list[i] => TrueLine(list[i]) /\ list[i].name # <<>>
    BY DEF OfPrinted, TrueLine, Folder
  <1>4. ASSUME list[i] = printed.list[i] PROVE Named(list[i]) = list[i].name
    <2>1. list[i].form = Form
      BY <1>3, <1>4 DEF TrueLine
    <2>2. CASE Md5
      <3>1. Form = "text"
        BY <2>2 DEF ReadsBack
      <3>2. Md5Named(list[i]) = list[i].name
        BY <2>1, <3>1 DEF Md5Named
      <3> QED
        BY <2>2, <3>2 DEF Named, Md5, Crc
    <2>3. CASE Crc
      BY <2>3 DEF Named, CrcNamed, Md5, Crc
    <2>4. CASE ~Md5 /\ ~Crc
      <3>1. Form = "binary" /\ ~opts.tagged /\ NameBlank \notin ToSet(list[i].name)
        BY <1>4, <2>4 DEF ReadsBack, OfPrinted
      <3>2. Sha1Named(list[i]) = FirstWord(list[i].name)
        <4>1. ~opts.tagged /\ list[i].form = "binary"
          BY <2>1, <3>1
        <4> QED
          BY <4>1 DEF Sha1Named
      <3>3. FirstWord(list[i].name) = list[i].name
        BY <3>1 DEF FirstWord, ToSet
      <3>4. Named(list[i]) = Sha1Named(list[i])
        BY <1>1, <2>4 DEF Named, Md5, Crc, Sha224Named, Sha256Named
      <3> QED
        BY <3>2, <3>3, <3>4
    <2> QED
      BY <2>2, <2>3, <2>4
  <1>5. ASSUME list[i] # printed.list[i] PROVE Named(list[i]) = <<>>
    <2>1. list[i] = Bad
      BY <1>5 DEF OfPrinted
    <2>2. Bad.form = "bad" /\ Bad.name = <<>>
      BY DEF Bad
    <2>3. Md5Named(Bad) = <<>> /\ CrcNamed(Bad) = <<>> /\ Sha1Named(Bad) = <<>>
      BY <2>2 DEF Md5Named, CrcNamed, Sha1Named
    <2>4. Named(Bad) = <<>>
      BY <1>1, <2>3 DEF Named, Md5, Crc, Sha224Named, Sha256Named
    <2> QED
      BY <2>1, <2>4
  <1> QED
    BY <1>2, <1>3, <1>4, <1>5

LEMMA BetweenPrinted ==
    ASSUME IInv, Telling, Between
    PROVE  OfPrinted' /\ Verdict'
  <1> USE DEF Between
  <1>1. /\ IsList(list) /\ Listed(Told) /\ Folder(files)
        /\ \A k \in DOMAIN list : list[k].name \in DOMAIN files
    BY DEF Telling, IInv, TypeInv
  <1>2. printed'.list = list /\ printed'.files = files /\ UNCHANGED <<applet, opts>>
    OBVIOUS
  <1>3. /\ IsList(list') /\ DOMAIN list' = DOMAIN list
        /\ \A k \in DOMAIN list : list'[k] \in {list[k], Bad}
    <2>1. CASE UNCHANGED list
      BY <1>1, <2>1
    <2>2. CASE \E i \in DOMAIN list : list' = [list EXCEPT ![i] = Bad]
      <3>1. PICK i \in DOMAIN list : list' = [list EXCEPT ![i] = Bad]
        BY <2>2
      <3>2. IsList(list)
        BY <1>1
      <3> HIDE DEF Between
      <3> QED
        BY <3>1, <3>2, ListSpoilt
    <2> QED
      BY <2>1, <2>2
  <1>4. ASSUME NEW k \in DOMAIN list
        PROVE  list[k].form = Form /\ list[k].digest = Reference(files[list[k].name])
    BY <1>1 DEF Listed, LineOf
  <1>5. \A k \in DOMAIN printed'.list : TrueLine(printed.list[k])'
    BY <1>1, <1>2, <1>4 DEF TrueLine, Form, Reference, Crc
  <1>6. OfPrinted'
    BY <1>1, <1>2, <1>3, <1>5 DEF OfPrinted, Folder
  <1>7. DOMAIN list' \subseteq Nat \ {0}
    BY <1>1, <1>3, ListDomain
  <1>8. pc' = "next" /\ exitStatus' = 0 /\ at' = 1
    OBVIOUS
  <1>9. \A i \in DOMAIN list' : ~(i < at')
    BY <1>7, <1>8
  <1> QED
    BY <1>6, <1>8, <1>9 DEF Verdict

\* While a list is checked it stays what it is.
LEMMA SamePrinted ==
    ASSUME OfPrinted, mode = "check", UNCHANGED <<applet, opts, mode, list, printed>>
    PROVE  OfPrinted'
  BY DEF OfPrinted, TrueLine, Form, Reference, Crc, Folder

LEMMA SameStrict ==
    ASSUME UNCHANGED <<applet, opts, printed>>
    PROVE  Strict' <=> Strict
  BY DEF Strict, ReadsBack, Form, Forgiving, Crc, Md5

LEMMA FoundIs ==
    ASSUME Strict
    PROVE  Found = list
  BY DEF Strict, ReadsBack, Found

\* The line that is looked at, of a list that is as it was.
LEMMA AtLine ==
    ASSUME applet \in Applets, OfPrinted, mode = "check", Strict, at \in DOMAIN list
    PROVE  /\ Found = list
           /\ Named(list[at]) # <<>> =>
                /\ list[at] = printed.list[at] /\ Named(list[at]) = list[at].name
                /\ TrueLine(list[at])
           /\ AsBefore => /\ Named(list[at]) = list[at].name /\ Named(list[at]) # <<>>
                          /\ Named(list[at]) \in DOMAIN files /\ TrueLine(list[at])
                          /\ files[Named(list[at])] = printed.files[Named(list[at])]
  <1>1. /\ Found = list
        /\ Named(list[at]) = IF list[at] = printed.list[at] THEN list[at].name ELSE <<>>
        /\ list[at] = printed.list[at] => TrueLine(list[at]) /\ list[at].name # <<>>
    BY NamedIs DEF Strict
  <1>2. ASSUME AsBefore
        PROVE  /\ list[at] = printed.list[at] /\ list[at].name \in DOMAIN files
               /\ files[list[at].name] = printed.files[list[at].name]
    BY <1>2 DEF AsBefore
  <1> QED
    BY <1>1, <1>2

\* A step of the check that goes on to the next line with a status that is
\* not 0 is one a list that is as it was does not take without a failure.
LEMMA SpoilVerdict ==
    ASSUME OfPrinted, Verdict, mode = "check", UNCHANGED <<applet, opts, mode, list, files, printed>>,
           Strict => exitStatus' # 0 /\ ~(AsBefore /\ failed' = {} /\ ~listCut'),
           pc' \in {"next", "exit"}
    PROVE  Verdict'
  <1>1. Strict' <=> Strict
    BY SameStrict
  <1>2. AsBefore' <=> AsBefore
    BY DEF AsBefore
  <1> QED
    BY <1>1, <1>2 DEF Verdict

LEMMA GiveUpVerdict ==
    ASSUME OfPrinted, Verdict, mode = "check", GiveUp
    PROVE  Verdict'
  <1>1. /\ UNCHANGED <<applet, opts, mode, list, files, printed>>
        /\ exitStatus' # 0 /\ failed' # {} /\ pc' = "next"
    BY DEF GiveUp, Unchanging
  <1> QED
    BY <1>1, SpoilVerdict

LEMMA OpenVerdict ==
    ASSUME IInv, OfPrinted, Verdict, OpenListed
    PROVE  Verdict'
  <1> SUFFICES ASSUME Strict' PROVE Verdict'
    BY DEF Verdict
  <1>1. /\ mode = "check" /\ at \in DOMAIN Found /\ pc = "next"
        /\ Named(Found[at]) # <<>> /\ name' = Named(Found[at]) /\ pc' = "read"
        /\ UNCHANGED <<applet, opts, asked, mode, list, files, printed, at, exitStatus, failed, listCut>>
    BY DEF OpenListed, Checking, Start, Unchanging
  <1>2. Strict
    BY <1>1, SameStrict
  <1>3. Found = list
    BY <1>2, FoundIs
  <1>4. Named(list[at])' = Named(list[at]) /\ (AsBefore' <=> AsBefore)
    BY <1>1 DEF Named, Md5, Crc, Md5Named, CrcNamed, Sha1Named, Sha224Named, Sha256Named,
                FirstWord, AsBefore
  <1> QED
    BY <1>1, <1>2, <1>3, <1>4 DEF Verdict, Kept

\* A line that is rejected or whose file is missing.
LEMMA SkipVerdict ==
    ASSUME IInv, OfPrinted, Verdict, RejectLine \/ MissingFile
    PROVE  Verdict'
  <1>1. /\ mode = "check" /\ at \in DOMAIN Found /\ applet \in Applets /\ pc' = "next"
        /\ UNCHANGED <<applet, opts, mode, list, files, printed>>
    BY DEF RejectLine, MissingFile, Checking, Skip, Unchanging, IInv, TypeInv
  <1>2. ASSUME Strict PROVE exitStatus' # 0 /\ ~AsBefore
    <2>1. Found = list /\ at \in DOMAIN list
      BY <1>1, <1>2, FoundIs
    <2>2. AsBefore => Named(list[at]) # <<>> /\ Named(list[at]) \in DOMAIN files
      BY <1>1, <1>2, <2>1, AtLine
    <2>3. CASE RejectLine
      BY <1>2, <2>1, <2>2, <2>3 DEF RejectLine, Skip, Strict
    <2>4. CASE MissingFile
      BY <1>2, <2>1, <2>2, <2>4 DEF MissingFile, Skip, Strict, Openable
    <2> QED
      BY <2>3, <2>4
  <1> QED
    BY <1>1, <1>2, SpoilVerdict

LEMMA OpenFailsVerdict ==
    ASSUME OfPrinted, Verdict, OpenFails
    PROVE  Verdict'
  <1>1. CASE GiveUp
    BY <1>1, GiveUpVerdict DEF OpenFails, Checking
  <1>2. CASE ~GiveUp
    <2>1. ~Strict /\ UNCHANGED <<applet, opts, printed>>
      BY <1>2 DEF OpenFails, Strict, Unchanging
    <2>2. ~Strict'
      BY <2>1, SameStrict
    <2> QED
      BY <2>2 DEF Verdict
  <1> QED
    BY <1>1, <1>2

\* Reading goes on or ends.
LEMMA ReadVerdict ==
    ASSUME Verdict, ReadChunk \/ ReadEnds
    PROVE  Verdict'
  <1> SUFFICES ASSUME Strict', mode' = "check" PROVE Verdict'
    BY DEF Verdict
  <1>1. /\ UNCHANGED <<applet, opts, mode, list, files, printed, at, exitStatus, failed, listCut, name>>
        /\ pc = "read" /\ pc' \in {"read", "hashed"}
    BY DEF ReadChunk, ReadEnds, Unchanging
  <1>2. Strict /\ mode = "check"
    BY <1>1, SameStrict
  <1>3. Named(list[at])' = Named(list[at]) /\ (AsBefore' <=> AsBefore)
    BY <1>1 DEF Named, Md5, Crc, Md5Named, CrcNamed, Sha1Named, Sha224Named, Sha256Named,
                FirstWord, AsBefore
  <1> QED
    BY <1>1, <1>2, <1>3 DEF Verdict, Kept

\* Equal digests are digests of equal files.
LEMMA CompareVerdict ==
    ASSUME IInv, OfPrinted, Verdict, Compare
    PROVE  Verdict'
  <1>1. /\ UNCHANGED <<applet, opts, mode, list, files, printed, failed, listCut, name>>
        /\ pc = "hashed" /\ pc' = "next" /\ mode = "check" /\ at' = at + 1
        /\ exitStatus' = IF digest = Found[at].digest THEN exitStatus ELSE 1
    BY DEF Compare, Skip, Unchanging
  <1> SUFFICES ASSUME Strict' PROVE Verdict'
    BY DEF Verdict
  <1>2. Strict /\ Found = list
    BY <1>1, SameStrict, FoundIs
  <1>3. /\ at \in DOMAIN list /\ name = Named(list[at]) /\ name # <<>>
        /\ exitStatus = 0 => \A i \in DOMAIN list : i < at => Kept(i)
        /\ AsBefore /\ failed = {} /\ ~listCut => exitStatus = 0
    BY <1>1, <1>2 DEF Verdict
  <1>4. /\ name \in DOMAIN files /\ digest = Reference(files[name]) /\ applet \in Applets
        /\ Folder(files) /\ Folder(printed.files) /\ at \in Nat
    BY <1>1 DEF IInv, TypeInv, Hashing, OfPrinted
  <1>5. /\ list[at] = printed.list[at] /\ name = list[at].name /\ TrueLine(list[at])
        /\ AsBefore => files[name] = printed.files[name]
    BY <1>1, <1>2, <1>3, <1>4, AtLine
  <1>6. name \in DOMAIN printed.files /\ list[at].digest = Reference(printed.files[name])
    BY <1>5 DEF TrueLine
  <1>7. digest = list[at].digest => Kept(at)
    <2>1. files[name] \in Seq(FileBytes) /\ printed.files[name] \in Seq(FileBytes)
      BY <1>4, <1>6 DEF Folder
    <2>2. digest = list[at].digest => files[name] = printed.files[name]
      BY <1>4, <1>6, <2>1, SameContents
    <2> QED
      BY <1>4, <1>5, <2>2 DEF Kept
  <1>8. AsBefore => digest = list[at].digest
    BY <1>4, <1>5, <1>6
  <1>9. AsBefore' <=> AsBefore
    BY <1>1 DEF AsBefore
  <1>10. exitStatus' = 0 => exitStatus = 0 /\ digest = list[at].digest
    BY <1>1, <1>2
  <1>11. DOMAIN list \subseteq Nat
    BY <1>1, ListDomain DEF OfPrinted
  <1>12. exitStatus' = 0 => \A i \in DOMAIN list : i < at' => Kept(i)
    <2>1. \A i \in DOMAIN list : i < at' => i < at \/ i = at
      BY <1>1, <1>4, <1>11
    <2> QED
      BY <1>3, <1>7, <1>10, <2>1
  <1>13. AsBefore' /\ failed' = {} /\ ~listCut' => exitStatus' = 0
    BY <1>1, <1>2, <1>3, <1>8, <1>9
  <1> QED
    BY <1>1, <1>12, <1>13 DEF Verdict, Kept

\* The list cannot be read, or is at its end.
LEMMA CutVerdict ==
    ASSUME OfPrinted, Verdict, ListUnopened \/ ListUnread
    PROVE  Verdict'
  <1>1. /\ UNCHANGED <<applet, opts, mode, list, files, printed, at, failed>>
        /\ mode = "check" /\ pc' = "exit" /\ listCut' = TRUE
        /\ exitStatus' = 0 => exitStatus = 0 /\ Md5
    BY DEF ListUnopened, ListUnread, Leave, Md5, Crc
  <1>2. Strict' <=> Strict
    BY <1>1, SameStrict
  <1> QED
    BY <1>1, <1>2 DEF Verdict, Kept, Md5

LEMMA CheckEndsVerdict ==
    ASSUME IInv, OfPrinted, Verdict, CheckEnds
    PROVE  Verdict'
  <1>1. /\ UNCHANGED <<applet, opts, mode, list, files, printed, at, failed, listCut, exitStatus>>
        /\ mode = "check" /\ pc' = "exit" /\ at > Len(Found)
    BY DEF CheckEnds, Leave, Unchanging
  <1>2. Strict' <=> Strict
    BY <1>1, SameStrict
  <1>3. Strict => at > Len(list)
    BY <1>1, FoundIs
  <1>4. AsBefore' <=> AsBefore
    BY <1>1 DEF AsBefore
  <1> QED
    BY <1>1, <1>2, <1>3, <1>4 DEF Verdict, Kept

LEMMA IdleVerdict ==
    ASSUME Verdict, UNCHANGED sumVars
    PROVE  Verdict'
  <1>1. UNCHANGED <<applet, opts, files, mode, pc, at, name, list, exitStatus, failed, listCut, printed>>
    BY DEF sumVars
  <1>2. Strict' <=> Strict
    BY <1>1, SameStrict
  <1>3. Named(list[at])' = Named(list[at]) /\ (AsBefore' <=> AsBefore)
    BY <1>1 DEF Named, Md5, Crc, Md5Named, CrcNamed, Sha1Named, Sha224Named, Sha256Named,
                FirstWord, AsBefore
  <1> QED
    BY <1>1, <1>2, <1>3 DEF Verdict, Kept, Md5

CheckInv == OfPrinted /\ Verdict

LEMMA NextCheckInv == IInv /\ Telling /\ CheckInv /\ [SumNext]_sumVars => CheckInv'
  <1> SUFFICES ASSUME IInv, Telling, OfPrinted, Verdict, [SumNext]_sumVars
               PROVE  OfPrinted' /\ Verdict'
    BY DEF CheckInv
  <1>1. CASE Between
    BY <1>1, BetweenPrinted
  <1>2. CASE ~Between /\ mode = "compute"
    <2>1. mode' = "compute"
      BY <1>2 DEF SumNext, sumVars, OpenOperand, OperandFails, PrintLine, ComputeEnds, ReadChunk,
                  Md5ReadFails, ShaReadFails, ReadEnds, RejectLine, MissingFile, OpenFails,
                  OpenListed, Compare, ListUnopened, ListUnread, CheckEnds, Start, GiveUp, Skip,
                  Checking, Unchanging
    <2> QED
      BY <2>1 DEF OfPrinted, Verdict
  <1>3. CASE ~Between /\ mode # "compute"
    <2>0. mode = "check"
      BY <1>3 DEF IInv, TypeInv
    <2>1. UNCHANGED <<applet, opts, mode, list, printed>>
      BY <1>3, <2>0 DEF SumNext, sumVars, OpenOperand, OperandFails, PrintLine, ComputeEnds, ReadChunk,
                  Md5ReadFails, ShaReadFails, ReadEnds, RejectLine, MissingFile, OpenFails,
                  OpenListed, Compare, ListUnopened, ListUnread, CheckEnds, Start, GiveUp, Skip,
                  Computing, Checking, Leave, Unchanging
    <2>2. OfPrinted'
      BY <2>0, <2>1, SamePrinted
    <2>3. Verdict'
      <3>1. CASE ReadChunk \/ ReadEnds
        BY <3>1, ReadVerdict
      <3>2. CASE Md5ReadFails \/ ShaReadFails
        BY <2>0, <3>2, GiveUpVerdict DEF Md5ReadFails, ShaReadFails
      <3>3. CASE RejectLine \/ MissingFile
        BY <3>3, SkipVerdict
      <3>4. CASE OpenFails
        BY <3>4, OpenFailsVerdict
      <3>5. CASE OpenListed
        BY <3>5, OpenVerdict
      <3>6. CASE Compare
        BY <3>6, CompareVerdict
      <3>7. CASE ListUnopened \/ ListUnread
        BY <3>7, CutVerdict
      <3>8. CASE CheckEnds
        BY <3>8, CheckEndsVerdict
      <3>9. CASE OpenOperand \/ OperandFails \/ PrintLine \/ ComputeEnds
        BY <2>0, <3>9 DEF OpenOperand, OperandFails, PrintLine, ComputeEnds, Computing
      <3>10. CASE UNCHANGED sumVars
        BY <3>10, IdleVerdict
      <3> QED
        BY <1>3, <3>1, <3>2, <3>3, <3>4, <3>5, <3>6, <3>7, <3>8, <3>9, <3>10 DEF SumNext
    <2> QED
      BY <2>2, <2>3
  <1> QED
    BY <1>1, <1>2, <1>3

\* A check that succeeds vouches for every line and file of the list, and a
\* list that is as it was succeeds where no call fails (CheckIsTrue).
THEOREM ChecksAreTrue == SumSpec => []CheckIsTrue
  <1>1. IInv /\ CheckInv => CheckIsTrue
    <2> SUFFICES ASSUME IInv, OfPrinted, Verdict, mode = "check", pc = "exit", Strict
                 PROVE  /\ exitStatus = 0 /\ ~(Md5 /\ listCut) => AsBefore
                        /\ AsBefore /\ failed = {} /\ ~listCut => exitStatus = 0
      BY DEF CheckIsTrue, CheckInv, Strict
    <2>1. /\ IsList(list) /\ IsList(printed.list) /\ DOMAIN list = DOMAIN printed.list
          /\ DOMAIN list = 1..Len(list) /\ Len(list) \in Nat
      BY ListDomain DEF OfPrinted
    <2>2. ASSUME exitStatus = 0, ~(Md5 /\ listCut) PROVE AsBefore
      <3>1. at > Len(list) /\ \A i \in DOMAIN list : i < at => Kept(i)
        BY <2>2 DEF Verdict
      <3>2. \A i \in DOMAIN list : Kept(i)
        <4>1. at \in Nat
          BY DEF IInv, TypeInv
        <4>2. \A i \in DOMAIN list : i < at
          BY <2>1, <3>1, <4>1
        <4> QED
          BY <3>1, <4>2
      <3>3. list = printed.list
        BY <2>1, <3>2, ListsEqual DEF Kept
      <3> QED
        BY <3>2, <3>3 DEF AsBefore, Kept
    <2> QED
      BY <2>2 DEF Verdict
  <1>2. SumInit => IInv /\ Telling /\ CheckInv
    <2>1. SumInit => mode = "compute"
      BY DEF SumInit, SumStart
    <2> QED
      BY <2>1, InitIInv, InitTelling DEF CheckInv, OfPrinted, Verdict
  <1>3. IInv /\ Telling /\ CheckInv /\ [SumNext]_sumVars => (IInv /\ Telling /\ CheckInv)'
    BY NextIInv, NextTelling, NextCheckInv
  <1> QED
    BY <1>1, <1>2, <1>3, PTL DEF SumSpec
====
