-------------------------- MODULE ProtoFormatProofs --------------------------
(***************************************************************************)
(* Proofs that the decoders read the wire format, for every width of a     *)
(* word and every bytes: Unmarshal takes exactly the messages of the       *)
(* reference and reads from them what the reference says they say, and it  *)
(* reads back what Marshal writes.                                         *)
(***************************************************************************)
EXTENDS ProtoCodecProofs

-----------------------------------------------------------------------------
(* Parts of bytes, as UpTo, After and every slice dAtA[a:b] cut them.       *)

Part(s, a, b) == SubSeq(s, a + 1, b)

LEMMA PartElements ==
  ASSUME NEW s \in Seq(Byte), NEW a \in Nat, NEW b \in Nat, a <= b, b <= Len(s)
  PROVE  /\ Part(s, a, b) \in Seq(Byte)
         /\ Len(Part(s, a, b)) = b - a
         /\ DOMAIN Part(s, a, b) = 1..b - a
         /\ \A k \in 1..b - a : Part(s, a, b)[k] = s[a + k]
<1>1. Len(s) \in Nat /\ \A i \in 1..Len(s) : s[i] \in Byte
  OBVIOUS
<1>2. \A i \in a + 1..b : s[i] \in Byte
  BY <1>1
<1>3. a + 1 \in Int /\ b \in Int
  OBVIOUS
<1>4. /\ Part(s, a, b) \in Seq(Byte)
      /\ Len(Part(s, a, b)) = IF a + 1 <= b THEN b - (a + 1) + 1 ELSE 0
      /\ \A i \in 1..b - (a + 1) + 1 : Part(s, a, b)[i] = s[(a + 1) + i - 1]
  BY <1>2, <1>3, SubSeqProperties DEF Part
<1>5. Len(Part(s, a, b)) = b - a
  BY <1>4
<1>6. ASSUME NEW k \in 1..b - a
      PROVE  Part(s, a, b)[k] = s[a + k]
  <2>1. k \in 1..b - (a + 1) + 1 /\ (a + 1) + k - 1 = a + k
    OBVIOUS
  <2> QED
    BY <1>4, <2>1
<1>7. DOMAIN Part(s, a, b) = 1..b - a
  BY <1>4, <1>5, LenProperties
<1> QED
  BY <1>4, <1>5, <1>6, <1>7

LEMMA PartOfPart ==
  ASSUME NEW s \in Seq(Byte), NEW a \in Nat, NEW b \in Nat, a <= b, b <= Len(s),
         NEW c \in Nat, NEW d \in Nat, c <= d, d <= b - a
  PROVE  Part(Part(s, a, b), c, d) = Part(s, a + c, a + d)
<1> DEFINE t == Part(s, a, b)
<1>1. /\ t \in Seq(Byte) /\ Len(t) = b - a
      /\ \A k \in 1..b - a : t[k] = s[a + k]
  BY PartElements
<1> HIDE DEF t
<1>2. /\ Part(t, c, d) \in Seq(Byte) /\ Len(Part(t, c, d)) = d - c
      /\ \A k \in 1..d - c : Part(t, c, d)[k] = t[c + k]
  BY <1>1, PartElements
<1> DEFINE e == a + c
           g == a + d
<1>3. e \in Nat /\ g \in Nat /\ e <= g /\ g <= Len(s) /\ g - e = d - c
  OBVIOUS
<1>4. /\ Part(s, e, g) \in Seq(Byte) /\ Len(Part(s, e, g)) = d - c
      /\ \A k \in 1..d - c : Part(s, e, g)[k] = s[e + k]
  <2> HIDE DEF e, g
  <2>1. /\ Part(s, e, g) \in Seq(Byte) /\ Len(Part(s, e, g)) = g - e
        /\ \A k \in 1..g - e : Part(s, e, g)[k] = s[e + k]
    BY <1>3, PartElements
  <2> QED
    BY <1>3, <2>1
<1>5. ASSUME NEW k \in 1..d - c
      PROVE  Part(t, c, d)[k] = Part(s, a + c, a + d)[k]
  <2>1. c + k \in 1..b - a /\ a + (c + k) = (a + c) + k
    OBVIOUS
  <2>2. t[c + k] = s[a + (c + k)]
    BY <1>1, <2>1
  <2> QED
    BY <1>2, <1>4, <2>1, <2>2
<1> DEFINE u == Part(t, c, d)
           v == Part(s, a + c, a + d)
<1>6. u \in Seq(Byte) /\ v \in Seq(Byte) /\ Len(u) = Len(v)
  BY <1>2, <1>4
<1>7. \A k \in 1..Len(u) : u[k] = v[k]
  BY <1>2, <1>5
<1> HIDE DEF u, v
<1>8. u = v
  BY <1>6, <1>7, SeqEqual
<1> QED
  BY <1>8 DEF u, v, t

LEMMA UpToIsPart ==
  ASSUME NEW s \in Seq(Byte), NEW n \in Nat
  PROVE  UpTo(s, n) = Part(s, 0, n) /\ After(s, n) = Part(s, n, Len(s))
<1>1. 0 + 1 = 1
  OBVIOUS
<1> QED
  BY <1>1 DEF UpTo, After, Part

-----------------------------------------------------------------------------
(* The varint at an index.                                                  *)

VarintAt(data, i, n) ==
    /\ n \in 1..MaxVarintBytes
    /\ i + n <= Len(data)
    /\ data[i + n] < 128
    /\ \A k \in 1..n - 1 : data[i + k] >= 128

LEMMA MaxVarintBytesIsNat == MaxVarintBytes \in Nat /\ MaxVarintBytes >= 1
BY WireAssumption DEF MaxVarintBytes

\* No varint goes on behind the end of another one.
LEMMA VarintAtStops ==
  ASSUME NEW data \in Seq(Byte), NEW i \in Nat, NEW n, NEW m,
         VarintAt(data, i, n), VarintAt(data, i, m)
  PROVE  ~(n < m)
<1> SUFFICES ASSUME n < m
             PROVE  FALSE
  OBVIOUS
<1> DEFINE b == data[i + n]
<1>1. n \in Nat /\ m \in Nat /\ n >= 1 /\ m >= 1
  BY MaxVarintBytesIsNat DEF VarintAt
<1>2. b \in Byte
  BY <1>1 DEF VarintAt
<1>3. n \in 1..m - 1
  BY <1>1
<1>4. b >= 128 /\ b < 128
  BY <1>3 DEF VarintAt
<1> HIDE DEF b
<1> QED
  BY <1>2, <1>4 DEF Byte

LEMMA VarintAtIsOne ==
  ASSUME NEW data \in Seq(Byte), NEW i \in Nat, NEW n, NEW m,
         VarintAt(data, i, n), VarintAt(data, i, m)
  PROVE  n = m
<1>1. n \in Nat /\ m \in Nat
  BY MaxVarintBytesIsNat DEF VarintAt
<1>2. ~(n < m) /\ ~(m < n)
  BY VarintAtStops
<1> QED
  BY <1>1, <1>2

\* The reference's varint is the one at the index.
LEMMA IsVarintOfPart ==
  ASSUME NEW data \in Seq(Byte), NEW i \in Nat, NEW j \in Nat, i <= j, j <= Len(data)
  PROVE  IsVarint(Part(data, i, j)) <=> VarintAt(data, i, j - i)
<1> DEFINE p == Part(data, i, j)
           n == j - i
<1>1. /\ p \in Seq(Byte) /\ Len(p) = n /\ DOMAIN p = 1..n
      /\ \A k \in 1..n : p[k] = data[i + k]
  BY PartElements
<1>2. n \in Nat /\ i + n = j
  OBVIOUS
<1> HIDE DEF p, n
<1>3. ASSUME IsVarint(p)
      PROVE  VarintAt(data, i, n)
  <2>1. n \in 1..MaxVarintBytes
    BY <1>1, <1>3 DEF IsVarint
  <2>2. n \in 1..n
    BY <1>2, <2>1, MaxVarintBytesIsNat
  <2>3. p[n] < 128
    BY <1>1, <1>3, <2>2, Zenon DEF IsVarint
  <2>4. data[i + n] < 128
    BY <1>1, <2>2, <2>3, Zenon
  <2>5. ASSUME NEW k \in 1..n - 1
        PROVE  data[i + k] >= 128
    <3> DEFINE b == p[k]
    <3>1. k \in 1..n /\ k # n
      BY <1>2
    <3>2. ~(b < 128)
      BY <1>1, <1>3, <3>1, Zenon DEF IsVarint
    <3>3. b \in Byte /\ b = data[i + k]
      BY <1>1, <3>1
    <3> HIDE DEF b
    <3>4. b >= 128
      BY <3>2, <3>3 DEF Byte
    <3> QED
      BY <3>3, <3>4, Zenon
  <2> QED
    BY <1>2, <2>1, <2>4, <2>5 DEF VarintAt
<1>4. ASSUME VarintAt(data, i, n)
      PROVE  IsVarint(p)
  <2>1. n \in 1..MaxVarintBytes /\ data[i + n] < 128
    BY <1>4 DEF VarintAt
  <2>2. ASSUME NEW k \in 1..n
        PROVE  p[k] < 128 <=> k = n
    <3> DEFINE b == p[k]
    <3>1. b \in Byte /\ b = data[i + k]
      BY <1>1
    <3>2. CASE k = n
      BY <2>1, <3>1, <3>2, Zenon
    <3>3. CASE k # n
      <4>1. k \in 1..n - 1
        BY <1>2, <3>3
      <4>2. b >= 128
        BY <1>4, <3>1, <4>1, Zenon DEF VarintAt
      <4> HIDE DEF b
      <4>3. ~(b < 128)
        BY <3>1, <4>2 DEF Byte
      <4> QED
        BY <3>3, <4>3 DEF b
    <3> QED
      BY <3>2, <3>3
  <2> QED
    BY <1>1, <2>1, <2>2, Zenon DEF IsVarint
<1> QED
  BY <1>3, <1>4 DEF p, n

\* What the loop that reads a varint returns.
LEMMA ReadVarintFound ==
  ASSUME NEW data \in Seq(Byte), NEW i \in Nat, NEW n, VarintAt(data, i, n)
  PROVE  ReadVarint(data, i) = [ok |-> TRUE, next |-> i + n,
                                value |-> VarintValue(Part(data, i, i + n))]
<1> DEFINE ends == {m \in 1..MaxVarintBytes :
                      /\ i + m <= Len(data)
                      /\ data[i + m] < 128
                      /\ \A k \in 1..m - 1 : data[i + k] >= 128}
           e == CHOOSE m \in ends : TRUE
<1>1. ReadVarint(data, i)
        = IF ends = {}
          THEN [ok |-> FALSE, next |-> i, value |-> 0]
          ELSE [ok |-> TRUE, next |-> i + e,
                value |-> VarintValue(SubSeq(data, i + 1, i + e))]
  BY DEF ReadVarint
<1>2. n \in ends
  BY Zenon DEF VarintAt
<1>3. e \in ends
  BY <1>2
<1>4. VarintAt(data, i, e)
  BY <1>3, Zenon DEF VarintAt
<1> HIDE DEF ends, e
<1>5. e = n
  BY <1>4, VarintAtIsOne
<1> QED
  BY <1>1, <1>2, <1>5 DEF Part

LEMMA ReadVarintMissing ==
  ASSUME NEW data, NEW i, ~\E n : VarintAt(data, i, n)
  PROVE  ReadVarint(data, i) = [ok |-> FALSE, next |-> i, value |-> 0]
<1> DEFINE ends == {m \in 1..MaxVarintBytes :
                      /\ i + m <= Len(data)
                      /\ data[i + m] < 128
                      /\ \A k \in 1..m - 1 : data[i + k] >= 128}
           e == CHOOSE m \in ends : TRUE
<1>1. ReadVarint(data, i)
        = IF ends = {}
          THEN [ok |-> FALSE, next |-> i, value |-> 0]
          ELSE [ok |-> TRUE, next |-> i + e,
                value |-> VarintValue(SubSeq(data, i + 1, i + e))]
  BY DEF ReadVarint
<1>2. ends = {}
  BY Zenon DEF VarintAt
<1> HIDE DEF ends, e
<1> QED
  BY <1>1, <1>2

LEMMA ReadVarintCases ==
  ASSUME NEW data \in Seq(Byte), NEW i \in Nat, NEW r, r = ReadVarint(data, i)
  PROVE  \/ /\ ~r.ok /\ r.next = i /\ r.value = 0
            /\ \A n : ~VarintAt(data, i, n)
         \/ /\ r.ok
            /\ \E n \in 1..MaxVarintBytes :
                  /\ VarintAt(data, i, n) /\ i + n <= Len(data)
                  /\ r.next = i + n
                  /\ r.value = VarintValue(Part(data, i, i + n))
<1>1. CASE \E n : VarintAt(data, i, n)
  <2>1. PICK n : VarintAt(data, i, n)
    BY <1>1
  <2>2. n \in 1..MaxVarintBytes /\ i + n <= Len(data)
    BY <2>1 DEF VarintAt
  <2> DEFINE v == VarintValue(Part(data, i, i + n))
  <2>3. r = [ok |-> TRUE, next |-> i + n, value |-> v]
    BY <2>1, ReadVarintFound
  <2> HIDE DEF v
  <2>4. r.ok /\ r.next = i + n /\ r.value = v
    BY <2>3
  <2> QED
    BY <2>1, <2>2, <2>4 DEF v
<1>2. CASE ~\E n : VarintAt(data, i, n)
  <2>1. r = [ok |-> FALSE, next |-> i, value |-> 0]
    BY <1>2, ReadVarintMissing
  <2> QED
    BY <1>2, <2>1
<1> QED
  BY <1>1, <1>2

\* The same varint is read from the rest of the bytes, which a skip function gets.
LEMMA VarintAtOfRest ==
  ASSUME NEW data \in Seq(Byte), NEW p \in Nat, p <= Len(data), NEW i \in Nat, NEW n
  PROVE  VarintAt(Part(data, p, Len(data)), i, n) <=> VarintAt(data, p + i, n)
<1> DEFINE L == Len(data)
           rest == Part(data, p, L)
<1>1. L \in Nat /\ p <= L /\ L <= Len(data)
  OBVIOUS
<1>2. /\ rest \in Seq(Byte) /\ Len(rest) = L - p
      /\ \A k \in 1..L - p : rest[k] = data[p + k]
  <2> HIDE DEF L
  <2> QED
    BY <1>1, PartElements
<1> HIDE DEF rest, L
<1>3. ASSUME n \in 1..MaxVarintBytes, (p + i) + n <= L
      PROVE  VarintAt(rest, i, n) <=> VarintAt(data, p + i, n)
  <2>1. n \in Nat /\ n >= 1
    BY <1>3, MaxVarintBytesIsNat
  <2>2. ASSUME NEW k \in 1..n
        PROVE  rest[i + k] = data[(p + i) + k]
    <3>1. i + k \in 1..L - p /\ p + (i + k) = (p + i) + k
      BY <1>1, <1>3, <2>1
    <3> QED
      BY <1>2, <3>1
  <2>3. n \in 1..n /\ \A k \in 1..n - 1 : k \in 1..n
    BY <2>1
  <2>4. i + n <= Len(rest)
    BY <1>1, <1>2, <1>3, <2>1
  <2>5. rest[i + n] = data[(p + i) + n]
    BY <2>2, <2>3
  <2>6. \A k \in 1..n - 1 : rest[i + k] = data[(p + i) + k]
    BY <2>2, <2>3
  <2> QED
    BY <1>3, <2>4, <2>5, <2>6, Zenon DEF VarintAt, L
<1>4. ASSUME VarintAt(rest, i, n)
      PROVE  n \in 1..MaxVarintBytes /\ (p + i) + n <= L
  <2>1. n \in 1..MaxVarintBytes /\ i + n <= Len(rest)
    BY <1>4 DEF VarintAt
  <2> QED
    BY <1>1, <1>2, <2>1, MaxVarintBytesIsNat
<1>5. ASSUME VarintAt(data, p + i, n)
      PROVE  n \in 1..MaxVarintBytes /\ (p + i) + n <= L
  BY <1>5 DEF VarintAt, L
<1> QED
  BY <1>3, <1>4, <1>5 DEF rest, L

\* r is read at i of the data from p on, and q at the same place of all of it.
BothRead(data, p, i, r, at, q) ==
    /\ data \in Seq(Byte) /\ p \in Nat /\ p <= Len(data) /\ i \in Nat
    /\ r = ReadVarint(Part(data, p, Len(data)), i)
    /\ at = p + i /\ q = ReadVarint(data, at)

LEMMA ReadVarintOfRest ==
  ASSUME NEW data, NEW p, NEW i, NEW r, NEW at, NEW q, BothRead(data, p, i, r, at, q)
  PROVE  (r.ok <=> q.ok) /\ q.next = p + r.next /\ r.value = q.value
<1> USE DEF BothRead
<1> DEFINE L == Len(data)
           rest == Part(data, p, L)
<1>1. rest \in Seq(Byte) /\ Len(rest) = L - p /\ p + i \in Nat /\ L \in Nat
  <2>1. L \in Nat /\ p <= L /\ L <= Len(data)
    OBVIOUS
  <2> HIDE DEF L
  <2> QED
    BY <2>1, PartElements
<1>2. \A n : VarintAt(rest, i, n) <=> VarintAt(data, p + i, n)
  BY VarintAtOfRest
<1>5. r = ReadVarint(rest, i)
  OBVIOUS
<1> HIDE DEF rest, L
<1>3. CASE \E n : VarintAt(rest, i, n)
  <2>1. PICK n : VarintAt(rest, i, n)
    BY <1>3
  <2>2. VarintAt(data, p + i, n)
    BY <1>2, <2>1
  <2>3. n \in Nat /\ i + n <= L - p
    BY <1>1, <2>1, MaxVarintBytesIsNat DEF VarintAt
  <2>4. Part(rest, i, i + n) = Part(data, (p + i), (p + i) + n)
    <3>1. i + n \in Nat /\ i <= i + n /\ i + n <= L - p
      BY <2>3
    <3>2. Part(rest, i, i + n) = Part(data, p + i, p + (i + n))
      BY <1>1, <3>1, PartOfPart DEF rest, L
    <3>3. p + (i + n) = (p + i) + n
      BY <2>3
    <3> QED
      BY <3>2, <3>3, Zenon
  <2> DEFINE v == VarintValue(Part(rest, i, i + n))
             j == p + i
  <2>5. r = [ok |-> TRUE, next |-> i + n, value |-> v]
    BY <1>1, <1>5, <2>1, ReadVarintFound
  <2>6. ReadVarint(data, j) = [ok |-> TRUE, next |-> j + n,
                               value |-> VarintValue(Part(data, j, j + n))]
    <3>1. j \in Nat /\ VarintAt(data, j, n)
      BY <1>1, <2>2
    <3> HIDE DEF j
    <3> QED
      BY <3>1, ReadVarintFound
  <2>7. q = [ok |-> TRUE, next |-> (p + i) + n, value |-> v]
    BY <2>4, <2>6, Zenon
  <2> HIDE DEF v, j
  <2>8. r.ok = TRUE /\ r.next = i + n /\ r.value = v
    BY <2>5
  <2>9. q.ok = TRUE /\ q.next = (p + i) + n /\ q.value = v
    BY <2>7
  <2>10. (p + i) + n = p + (i + n)
    BY <2>3
  <2> QED
    BY <2>8, <2>9, <2>10, Zenon
<1>4. CASE ~\E n : VarintAt(rest, i, n)
  <2>1. r = [ok |-> FALSE, next |-> i, value |-> 0]
    BY <1>4, <1>5, ReadVarintMissing
  <2>2. q = [ok |-> FALSE, next |-> p + i, value |-> 0]
    BY <1>2, <1>4, ReadVarintMissing
  <2>3. r.ok = FALSE /\ r.next = i /\ r.value = 0 /\ q.ok = FALSE /\ q.next = p + i /\ q.value = 0
    BY <2>1, <2>2
  <2> QED
    BY <2>3, Zenon
<1> QED
  BY <1>3, <1>4

-----------------------------------------------------------------------------
(* The token at an index, as the decoders read it and as the reference       *)
(* defines it.                                                              *)

LEMMA HeadOfPart ==
  ASSUME NEW data \in Seq(Byte), NEW q \in Nat, NEW j \in Nat, q <= j, j <= Len(data),
         NEW n \in 1..j - q
  PROVE  /\ UpTo(Part(data, q, j), n) = Part(data, q, q + n)
         /\ After(Part(data, q, j), n) = Part(data, q + n, j)
         /\ IsVarint(UpTo(Part(data, q, j), n)) <=> VarintAt(data, q, n)
<1> DEFINE rest == Part(data, q, j)
<1>1. rest \in Seq(Byte) /\ Len(rest) = j - q
  BY PartElements
<1>2. n \in Nat /\ q + n \in Nat /\ q <= q + n /\ q + n <= Len(data) /\ (q + n) - q = n
  OBVIOUS
<1>3. UpTo(rest, n) = Part(rest, 0, n) /\ After(rest, n) = Part(rest, n, j - q)
  <2>1. UpTo(rest, n) = Part(rest, 0, n) /\ After(rest, n) = Part(rest, n, Len(rest))
    <3> HIDE DEF rest
    <3> QED
      BY <1>1, <1>2, UpToIsPart
  <2> QED
    BY <1>1, <2>1, Zenon
<1>4. Part(rest, 0, n) = Part(data, q, q + n)
  <2>1. 0 \in Nat /\ 0 <= n /\ n <= j - q
    OBVIOUS
  <2>2. Part(rest, 0, n) = Part(data, q + 0, q + n)
    BY <1>2, <2>1, PartOfPart
  <2>3. q + 0 = q
    OBVIOUS
  <2> QED
    BY <2>2, <2>3, Zenon
<1>5. Part(rest, n, j - q) = Part(data, q + n, j)
  <2> DEFINE d == j - q
  <2>1. d \in Nat /\ n <= d /\ d <= j - q /\ q + d = j
    OBVIOUS
  <2>2. Part(rest, n, d) = Part(data, q + n, q + d)
    <3> HIDE DEF d
    <3> QED
      BY <1>2, <2>1, PartOfPart
  <2> QED
    BY <2>1, <2>2, Zenon
<1>6. IsVarint(Part(data, q, q + n)) <=> VarintAt(data, q, n)
  <2> DEFINE e == q + n
  <2>1. e \in Nat /\ q <= e /\ e <= Len(data) /\ e - q = n
    BY <1>2
  <2>2. IsVarint(Part(data, q, e)) <=> VarintAt(data, q, e - q)
    <3> HIDE DEF e
    <3> QED
      BY <2>1, IsVarintOfPart
  <2> QED
    BY <2>1, <2>2, Zenon
<1> QED
  BY <1>3, <1>4, <1>5, <1>6, Zenon

\* What follows a tag whose wire type is w and which ends at q, r being the
\* varint there: whether it is there, and where it ends if the data does not.
PayloadOk(w, r) ==
    /\ w \in 0..5
    /\ w \in {0, 2} => r.ok
    /\ w = 2 => Int_(r.value) >= 0

PayloadEnd(w, q, r) ==
    CASE w = 0 -> r.next
      [] w = 1 -> q + 8
      [] w = 2 -> r.next + Int_(r.value)
      [] w = 5 -> q + 4
      [] OTHER -> q

LEMMA PayloadOfPart ==
  ASSUME NEW data \in Seq(Byte), NEW q \in Nat, NEW j \in Nat, q <= j, j <= Len(data),
         NEW w \in 0..7, NEW r, r = ReadVarint(data, q)
  PROVE  HasPayload(w, Part(data, q, j)) <=> PayloadOk(w, r) /\ j = PayloadEnd(w, q, r)
<1> DEFINE rest == Part(data, q, j)
<1>1. /\ rest \in Seq(Byte) /\ Len(rest) = j - q /\ DOMAIN rest = 1..j - q
      /\ rest = <<>> <=> j = q
  <2>1. rest \in Seq(Byte) /\ Len(rest) = j - q /\ DOMAIN rest = 1..j - q
    BY PartElements
  <2> HIDE DEF rest
  <2> QED
    BY <2>1, EmptySeq
<1>2. \/ ~r.ok /\ \A n : ~VarintAt(data, q, n)
      \/ r.ok /\ \E n \in 1..MaxVarintBytes :
                    /\ VarintAt(data, q, n) /\ q + n <= Len(data)
                    /\ r.next = q + n /\ r.value = VarintValue(Part(data, q, q + n))
  BY ReadVarintCases
<1>3. /\ r.next \in Nat /\ r.value \in Nat /\ r.value < WordEnd /\ Int_(r.value) \in Int
  BY ReadVarintProperties, SignedWord DEF Int_
<1>4. CASE w = 0
  <2>1. PayloadOk(w, r) <=> r.ok
    BY <1>4 DEF PayloadOk
  <2>2. PayloadEnd(w, q, r) = r.next
    BY <1>4 DEF PayloadEnd
  <2>3. HasPayload(w, rest) <=> VarintAt(data, q, j - q)
    <3>1. IsVarint(rest) <=> VarintAt(data, q, j - q)
      BY IsVarintOfPart
    <3> HIDE DEF rest
    <3> QED
      BY <1>4, <3>1 DEF HasPayload
  <2>4. ASSUME VarintAt(data, q, j - q)
        PROVE  r.ok /\ j = r.next
    <3>1. PICK n \in 1..MaxVarintBytes : r.ok /\ VarintAt(data, q, n) /\ r.next = q + n
      BY <1>2, <2>4
    <3>2. n = j - q /\ n \in Nat
      BY <2>4, <3>1, VarintAtIsOne, MaxVarintBytesIsNat
    <3> QED
      BY <3>1, <3>2
  <2>5. ASSUME r.ok, j = r.next
        PROVE  VarintAt(data, q, j - q)
    <3>1. PICK n \in 1..MaxVarintBytes : VarintAt(data, q, n) /\ r.next = q + n
      BY <1>2, <2>5
    <3>2. n = j - q
      BY <2>5, <3>1, MaxVarintBytesIsNat
    <3> QED
      BY <3>1, <3>2
  <2> QED
    BY <2>1, <2>2, <2>3, <2>4, <2>5, Zenon
<1>5. CASE w = 2
  <2> DEFINE v == Int_(r.value)
  <2>1. PayloadOk(w, r) <=> r.ok /\ v >= 0
    BY <1>5 DEF PayloadOk
  <2>2. PayloadEnd(w, q, r) = r.next + v
    BY <1>5 DEF PayloadEnd
  <2>3. HasPayload(w, rest) <=>
          \E n \in 1..j - q : /\ IsVarint(UpTo(rest, n))
                              /\ Signed(VarintValue(UpTo(rest, n)), WordBits) = (j - q) - n
    <3> HIDE DEF rest
    <3> QED
      BY <1>1, <1>5 DEF HasPayload
  <2>4. HasPayload(w, rest) <=>
          \E n \in 1..j - q : /\ VarintAt(data, q, n)
                              /\ Int_(VarintValue(Part(data, q, q + n))) = (j - q) - n
    BY <2>3, HeadOfPart, Zenon DEF Int_
  <2>5. ASSUME NEW n \in 1..j - q, VarintAt(data, q, n),
               Int_(VarintValue(Part(data, q, q + n))) = (j - q) - n
        PROVE  r.ok /\ v >= 0 /\ j = r.next + v
    <3>1. PICK m \in 1..MaxVarintBytes :
             /\ r.ok /\ VarintAt(data, q, m) /\ r.next = q + m
             /\ r.value = VarintValue(Part(data, q, q + m))
      BY <1>2, <2>5
    <3>2. n = m
      BY <2>5, <3>1, VarintAtIsOne
    <3>3. v = (j - q) - n /\ r.next = q + n
      BY <2>5, <3>1, <3>2
    <3> HIDE DEF v
    <3> QED
      BY <3>1, <3>3
  <2>6. ASSUME r.ok, v >= 0, j = r.next + v
        PROVE  \E n \in 1..j - q : /\ VarintAt(data, q, n)
                                   /\ Int_(VarintValue(Part(data, q, q + n))) = (j - q) - n
    <3>1. PICK n \in 1..MaxVarintBytes :
             /\ VarintAt(data, q, n) /\ r.next = q + n
             /\ r.value = VarintValue(Part(data, q, q + n))
      BY <1>2, <2>6
    <3>2. v \in Int /\ v = Int_(VarintValue(Part(data, q, q + n)))
      BY <1>3, <3>1
    <3> HIDE DEF v
    <3>3. n \in 1..j - q /\ v = (j - q) - n
      BY <2>6, <3>1, <3>2, MaxVarintBytesIsNat
    <3> QED
      BY <3>1, <3>2, <3>3, Zenon
  <2> HIDE DEF rest, v
  <2> QED
    BY <2>1, <2>2, <2>4, <2>5, <2>6, Zenon DEF rest
<1>6. CASE w \in {1, 3, 4, 5, 6, 7}
  <2>1. PayloadOk(w, r) <=> w \in {1, 3, 4, 5}
    BY <1>6 DEF PayloadOk
  <2>2. HasPayload(w, rest) <=> \/ w = 1 /\ j - q = 8
                                \/ w \in {3, 4} /\ j = q
                                \/ w = 5 /\ j - q = 4
    <3> HIDE DEF rest
    <3> QED
      BY <1>1, <1>6 DEF HasPayload
  <2>3. PayloadEnd(w, q, r) = IF w = 1 THEN q + 8 ELSE IF w = 5 THEN q + 4 ELSE q
    BY <1>6 DEF PayloadEnd
  <2> HIDE DEF rest
  <2> QED
    BY <1>6, <2>1, <2>2, <2>3 DEF rest
<1> QED
  BY <1>4, <1>5, <1>6

Tag(data, p)      == ReadVarint(data, p)
Number(data, p)   == ReadVarint(data, Tag(data, p).next)
WireType(data, p) == Tag(data, p).value % 8
TokenOk(data, p)  == Tag(data, p).ok /\ PayloadOk(WireType(data, p), Number(data, p))
TokenEnd(data, p) == PayloadEnd(WireType(data, p), Tag(data, p).next, Number(data, p))

LEMMA TokenParts ==
  ASSUME NEW data \in Seq(Byte), NEW p \in Nat
  PROVE  /\ Tag(data, p).ok \in BOOLEAN /\ Tag(data, p).next \in Nat
         /\ Tag(data, p).value \in Nat /\ Tag(data, p).value < WordEnd
         /\ Tag(data, p).ok => Tag(data, p).next > p /\ Tag(data, p).next <= Len(data)
         /\ WireType(data, p) \in 0..7
         /\ Number(data, p).ok \in BOOLEAN /\ Number(data, p).next \in Nat
         /\ Number(data, p).value \in Nat /\ Number(data, p).value < WordEnd
         /\ Int_(Number(data, p).value) \in Int
         /\ Number(data, p).ok => /\ Number(data, p).next > Tag(data, p).next
                                  /\ Number(data, p).next <= Len(data)
<1> DEFINE t == Tag(data, p)
           n == Number(data, p)
<1>1. /\ t.ok \in BOOLEAN /\ t.next \in Nat /\ t.value \in Nat /\ t.value < WordEnd
      /\ t.ok => t.next > p /\ t.next <= Len(data)
  BY ReadVarintProperties DEF Tag
<1>2. n = ReadVarint(data, t.next)
  BY DEF Number
<1>3. WireType(data, p) = t.value % 8
  BY DEF WireType
<1> HIDE DEF t, n
<1>4. /\ n.ok \in BOOLEAN /\ n.next \in Nat /\ n.value \in Nat /\ n.value < WordEnd
      /\ n.ok => n.next > t.next /\ n.next <= Len(data)
  BY <1>1, <1>2, ReadVarintProperties
<1>5. Int_(n.value) \in Int
  BY <1>4, SignedWord DEF Int_
<1>6. WireType(data, p) \in 0..7
  BY <1>1, <1>3
<1> QED
  BY <1>1, <1>4, <1>5, <1>6 DEF t, n

LEMMA TokenEndIsAhead ==
  ASSUME NEW data \in Seq(Byte), NEW p \in Nat, TokenOk(data, p)
  PROVE  TokenEnd(data, p) \in Nat /\ TokenEnd(data, p) > p
<1> DEFINE t == Tag(data, p)
           n == Number(data, p)
           w == WireType(data, p)
           e == PayloadEnd(w, t.next, n)
<1>1. /\ t.ok /\ t.next \in Nat /\ t.next > p /\ w \in 0..5
      /\ w \in {0, 2} => n.next \in Nat /\ n.next > t.next
      /\ w = 2 => Int_(n.value) \in Int /\ Int_(n.value) >= 0
  BY TokenParts DEF TokenOk, PayloadOk
<1>2. /\ w = 0 => e = n.next
      /\ w = 1 => e = t.next + 8
      /\ w = 2 => e = n.next + Int_(n.value)
      /\ w = 5 => e = t.next + 4
      /\ w \in {3, 4} => e = t.next
  BY DEF PayloadEnd
<1> HIDE DEF t, n, w, e
<1>3. e \in Nat /\ e > p
  BY <1>1, <1>2
<1> QED
  BY <1>3 DEF TokenEnd, t, n, w, e

LEMMA TagLengthsOfPart ==
  ASSUME NEW data \in Seq(Byte), NEW p \in Nat, NEW j \in Nat, p <= j, j <= Len(data)
  PROVE  TagLengths(Part(data, p, j)) = {n \in 1..j - p : VarintAt(data, p, n)}
<1> DEFINE b == Part(data, p, j)
<1>1. DOMAIN b = 1..j - p
  BY PartElements
<1>2. \A n \in 1..j - p : IsVarint(UpTo(b, n)) <=> VarintAt(data, p, n)
  BY HeadOfPart
<1> HIDE DEF b
<1>3. TagLengths(b) = {n \in 1..j - p : IsVarint(UpTo(b, n))}
  BY <1>1, Zenon DEF TagLengths
<1> QED
  BY <1>2, <1>3 DEF b

\* Bytes are a token of the reference when the decoders' token ends with them.
LEMMA IsTokenOfPart ==
  ASSUME NEW data \in Seq(Byte), NEW p \in Nat, NEW j \in Nat, p <= j, j <= Len(data)
  PROVE  IsToken(Part(data, p, j)) <=> TokenOk(data, p) /\ j = TokenEnd(data, p)
<1> DEFINE b == Part(data, p, j)
           t == Tag(data, p)
<1>1. IsToken(b) <=> \E n \in 1..j - p :
          /\ VarintAt(data, p, n)
          /\ HasPayload(VarintValue(Part(data, p, p + n)) % 8, Part(data, p + n, j))
  <2>1. TagLengths(b) = {n \in 1..j - p : VarintAt(data, p, n)}
    BY TagLengthsOfPart
  <2>2. \A n \in 1..j - p : /\ UpTo(b, n) = Part(data, p, p + n)
                            /\ After(b, n) = Part(data, p + n, j)
    BY HeadOfPart
  <2> HIDE DEF b
  <2> QED
    BY <2>1, <2>2, Zenon DEF IsToken
<1>2. \/ ~t.ok /\ \A n : ~VarintAt(data, p, n)
      \/ t.ok /\ \E n \in 1..MaxVarintBytes :
                    /\ VarintAt(data, p, n) /\ p + n <= Len(data)
                    /\ t.next = p + n /\ t.value = VarintValue(Part(data, p, p + n))
  BY ReadVarintCases DEF Tag
<1>3. ASSUME NEW n \in 1..MaxVarintBytes, VarintAt(data, p, n), p + n <= j,
             t.next = p + n, t.value = VarintValue(Part(data, p, p + n))
      PROVE  HasPayload(VarintValue(Part(data, p, p + n)) % 8, Part(data, p + n, j))
               <=> PayloadOk(WireType(data, p), Number(data, p)) /\ j = TokenEnd(data, p)
  <2> DEFINE q == t.next
             w == WireType(data, p)
             r == Number(data, p)
  <2>1. q \in Nat /\ q <= j /\ w \in 0..7
    BY <1>3, TokenParts
  <2>2. r = ReadVarint(data, q)
    BY DEF Number
  <2>3. w = VarintValue(Part(data, p, p + n)) % 8
    BY <1>3, Zenon DEF WireType
  <2>4. TokenEnd(data, p) = PayloadEnd(w, q, r)
    BY Zenon DEF TokenEnd
  <2>5. q = p + n
    BY <1>3
  <2> HIDE DEF q, w, r
  <2>6. HasPayload(w, Part(data, q, j)) <=> PayloadOk(w, r) /\ j = PayloadEnd(w, q, r)
    BY <2>1, <2>2, PayloadOfPart
  <2> QED
    BY <2>3, <2>4, <2>5, <2>6, Zenon DEF w, r
<1>4. ASSUME IsToken(b)
      PROVE  TokenOk(data, p) /\ j = TokenEnd(data, p)
  <2>1. PICK n \in 1..j - p :
          /\ VarintAt(data, p, n)
          /\ HasPayload(VarintValue(Part(data, p, p + n)) % 8, Part(data, p + n, j))
    BY <1>1, <1>4
  <2>2. PICK m \in 1..MaxVarintBytes :
          /\ t.ok /\ VarintAt(data, p, m)
          /\ t.next = p + m /\ t.value = VarintValue(Part(data, p, p + m))
    BY <1>2, <2>1
  <2>3. m = n
    BY <2>1, <2>2, VarintAtIsOne
  <2>4. p + n <= j /\ n \in 1..MaxVarintBytes
    BY <2>2, <2>3
  <2> HIDE DEF b, t
  <2>5. t.next = p + n /\ t.value = VarintValue(Part(data, p, p + n))
    BY <2>2, <2>3, Zenon
  <2>6. PayloadOk(WireType(data, p), Number(data, p)) /\ j = TokenEnd(data, p)
    BY <1>3, <2>1, <2>4, <2>5, Zenon
  <2> QED
    BY <2>2, <2>6, Zenon DEF TokenOk, t
<1>5. ASSUME TokenOk(data, p), j = TokenEnd(data, p)
      PROVE  IsToken(b)
  <2>1. t.ok /\ PayloadOk(WireType(data, p), Number(data, p))
    BY <1>5 DEF TokenOk
  <2>2. PICK n \in 1..MaxVarintBytes :
          /\ VarintAt(data, p, n)
          /\ t.next = p + n /\ t.value = VarintValue(Part(data, p, p + n))
    BY <1>2, <2>1
  <2>3. t.next <= j
    <3> DEFINE w == WireType(data, p)
               r == Number(data, p)
               e == PayloadEnd(w, t.next, r)
    <3>1. /\ t.next \in Nat /\ w \in 0..5
          /\ w \in {0, 2} => r.next \in Nat /\ r.next > t.next
          /\ w = 2 => Int_(r.value) \in Int /\ Int_(r.value) >= 0
      BY <2>1, TokenParts DEF PayloadOk
    <3>2. /\ w = 0 => e = r.next
          /\ w = 1 => e = t.next + 8
          /\ w = 2 => e = r.next + Int_(r.value)
          /\ w = 5 => e = t.next + 4
          /\ w \in {3, 4} => e = t.next
      BY DEF PayloadEnd
    <3>3. j = e
      BY <1>5, Zenon DEF TokenEnd
    <3> HIDE DEF t, w, r, e
    <3> QED
      BY <3>1, <3>2, <3>3
  <2>4. n \in 1..j - p /\ p + n <= j
    BY <2>2, <2>3, MaxVarintBytesIsNat
  <2> HIDE DEF b, t
  <2>5. HasPayload(VarintValue(Part(data, p, p + n)) % 8, Part(data, p + n, j))
    BY <1>3, <1>5, <2>1, <2>2, <2>4, Zenon
  <2> QED
    BY <1>1, <2>2, <2>4, <2>5, Zenon
<1> QED
  BY <1>4, <1>5 DEF b

\* The parts of that token.
LEMMA TokenOfPart ==
  ASSUME NEW data \in Seq(Byte), NEW p \in Nat, NEW j \in Nat, p <= j, j <= Len(data),
         TokenOk(data, p), j = TokenEnd(data, p),
         NEW tok, tok = Token(Part(data, p, j))
  PROVE  /\ tok.field = FieldNum(Tag(data, p).value)
         /\ tok.wireType = WireType(data, p)
         /\ WireType(data, p) = 2 => tok.content = Part(data, Number(data, p).next, j)
<1> DEFINE b  == Part(data, p, j)
           t  == Tag(data, p)
           n  == CHOOSE i \in TagLengths(b) : TRUE
           rest == After(b, n)
           tl == TagLengths(rest)
           good(i) == (i = 0 /\ tl = {}) \/ i \in tl
           size == IF rest = <<>> THEN 0 ELSE CHOOSE i \in 0..Len(rest) : good(i)
<1>1. tok = [field    |-> Signed(VarintValue(UpTo(b, n)) \div 8, FieldBits),
             wireType |-> VarintValue(UpTo(b, n)) % 8,
             content  |-> After(rest, size)]
  BY DEF Token
<1>2. TagLengths(b) = {i \in 1..j - p : VarintAt(data, p, i)}
  BY TagLengthsOfPart
<1>3. IsToken(b)
  BY IsTokenOfPart
<1>4. n \in 1..j - p /\ VarintAt(data, p, n)
  <2>1. TagLengths(b) # {}
    BY <1>3 DEF IsToken
  <2> QED
    BY <1>2, <2>1
<1>5. UpTo(b, n) = Part(data, p, p + n) /\ rest = Part(data, p + n, j)
  BY <1>4, HeadOfPart
<1>6. t = [ok |-> TRUE, next |-> p + n, value |-> VarintValue(Part(data, p, p + n))]
  BY <1>4, ReadVarintFound DEF Tag
<1> HIDE DEF b, n
<1>7. t.next = p + n /\ t.value = VarintValue(UpTo(b, n))
  BY <1>5, <1>6
<1> HIDE DEF t
<1>8. tok.field = FieldNum(t.value) /\ tok.wireType = t.value % 8
  BY <1>1, <1>7 DEF FieldNum
<1>9. ASSUME WireType(data, p) = 2
      PROVE  tok.content = Part(data, Number(data, p).next, j)
  <2> DEFINE q == t.next
             r == Number(data, p)
  <2>1. /\ r.ok /\ r.next \in Nat /\ r.value \in Nat /\ Int_(r.value) \in Int
        /\ Int_(r.value) >= 0 /\ j = r.next + Int_(r.value)
    BY <1>9, TokenParts DEF TokenOk, TokenEnd, PayloadOk, PayloadEnd
  <2>2. q \in Nat /\ q = p + n /\ q <= j /\ r = ReadVarint(data, q)
    BY <1>4, <1>7 DEF Number, t
  <2>3. rest = Part(data, q, j) /\ Len(rest) = j - q
    <3>1. rest = Part(data, q, j)
      BY <1>5, <2>2, Zenon
    <3>2. Len(Part(data, q, j)) = j - q
      BY <2>2, PartElements
    <3> QED
      BY <3>1, <3>2, Zenon
  <2> HIDE DEF q, r
  <2>4. PICK m \in 1..MaxVarintBytes : VarintAt(data, q, m) /\ r.next = q + m
    BY <2>1, <2>2, ReadVarintCases, SMTT(30)
  <2>5. m \in 1..j - q
    BY <2>1, <2>2, <2>4, MaxVarintBytesIsNat
  <2> HIDE DEF rest
  <2>6. TagLengths(rest) = {i \in 1..j - q : VarintAt(data, q, i)}
    BY <2>2, <2>3, TagLengthsOfPart
  <2>7. tl = {m}
    BY <2>2, <2>4, <2>5, <2>6, VarintAtIsOne
  <2> HIDE DEF tl
  <2>8. size = m
    <3>1. rest # <<>>
      BY <2>3, <2>5, EmptySeq
    <3>2. m \in 0..Len(rest) /\ good(m)
      BY <2>3, <2>5, <2>7
    <3>3. \A i \in 0..Len(rest) : good(i) => i = m
      BY <2>7
    <3>4. (CHOOSE i \in 0..Len(rest) : good(i)) = m
      <4> HIDE DEF good
      <4> QED
        BY <3>2, <3>3
    <3> QED
      BY <3>1, <3>4, Zenon
  <2>9. After(rest, m) = Part(data, q + m, j)
    BY <2>2, <2>3, <2>5, HeadOfPart
  <2>10. tok.content = After(rest, m)
    <3> HIDE DEF size
    <3> QED
      BY <1>1, <2>8
  <2> QED
    BY <2>4, <2>9, <2>10, Zenon DEF r
<1> QED
  BY <1>8, <1>9, Zenon DEF WireType, t

-----------------------------------------------------------------------------
(* Cutting bytes into tokens.                                               *)

Whole(data, i) == TokenOk(data, i) /\ TokenEnd(data, i) <= Len(data)

\* The only token that begins at an index.
LEMMA EndsAreOne ==
  ASSUME NEW data \in Seq(Byte), NEW i \in Nat, i <= Len(data)
  PROVE  Ends(data, i) = IF Whole(data, i) THEN {TokenEnd(data, i)} ELSE {}
<1> DEFINE L == Len(data)
           e == TokenEnd(data, i)
<1>1. L \in Nat
  OBVIOUS
<1>2. ASSUME NEW j \in i + 1..L
      PROVE  IsToken(SubSeq(data, i + 1, j)) <=> TokenOk(data, i) /\ j = e
  <2>1. j \in Nat /\ i <= j /\ j <= Len(data)
    BY <1>1
  <2>2. IsToken(Part(data, i, j)) <=> TokenOk(data, i) /\ j = e
    BY <2>1, IsTokenOfPart
  <2> QED
    BY <2>2, Zenon DEF Part
<1>3. TokenOk(data, i) => e \in Nat /\ e > i
  BY TokenEndIsAhead
<1>4. Ends(data, i) = {j \in i + 1..L : TokenOk(data, i) /\ j = e}
  BY <1>2, Zenon DEF Ends
<1>5. Whole(data, i) <=> TokenOk(data, i) /\ e <= L
  BY DEF Whole
<1> HIDE DEF L, e
<1>6. CASE TokenOk(data, i) /\ e <= L
  <2>1. e \in i + 1..L
    BY <1>1, <1>3, <1>6
  <2>2. {j \in i + 1..L : TokenOk(data, i) /\ j = e} = {e}
    BY <1>6, <2>1
  <2> QED
    BY <1>4, <1>5, <1>6, <2>2, Zenon DEF e
<1>7. CASE ~(TokenOk(data, i) /\ e <= L)
  <2>1. \A j \in i + 1..L : ~(TokenOk(data, i) /\ j = e)
    BY <1>1, <1>7
  <2>2. {j \in i + 1..L : TokenOk(data, i) /\ j = e} = {}
    BY <2>1
  <2> QED
    BY <1>4, <1>5, <1>7, <2>2, Zenon
<1> QED
  BY <1>6, <1>7

CutFrom(data, f, i) ==
    IF i = Len(data) THEN <<>>
    ELSE IF Ends(data, i) = {} THEN <<Rubbish>>
    ELSE LET j == CHOOSE e \in Ends(data, i) : TRUE
         IN  <<Token(SubSeq(data, i + 1, j))>> \o f[j]

IsCut(data, B, f) == f = [i \in B |-> CutFrom(data, f, i)]

Cut(data) == CHOOSE f : IsCut(data, 0..Len(data), f)

LEMMA TokensAreCut ==
  ASSUME NEW data
  PROVE  Tokens(data) = Cut(data)[0]
BY Zenon DEF Tokens, Cut, IsCut, CutFrom

\* The last n + 1 indices.
LastOnes(data, n) == {i \in 0..Len(data) : i + n >= Len(data)}

LEMMA NextCut ==
  ASSUME NEW data \in Seq(Byte), NEW n \in Nat, NEW i \in LastOnes(data, n + 1),
         NEW e \in Ends(data, i)
  PROVE  e \in LastOnes(data, n)
<1>1. Len(data) \in Nat
  OBVIOUS
<1> QED
  BY <1>1 DEF LastOnes, Ends

LEMMA CutExists ==
  ASSUME NEW data \in Seq(Byte), NEW m \in Nat
  PROVE  \E f : IsCut(data, LastOnes(data, m), f)
<1> DEFINE P == {n \in Nat : \E f : IsCut(data, LastOnes(data, n), f)}
<1>1. 0 \in P
  <2> DEFINE f == [i \in LastOnes(data, 0) |-> <<>>]
  <2>1. \A i \in LastOnes(data, 0) : i = Len(data)
    BY DEF LastOnes
  <2>2. f = [i \in LastOnes(data, 0) |-> CutFrom(data, f, i)]
    BY <2>1 DEF CutFrom
  <2> QED
    BY <2>2 DEF IsCut
<1>2. ASSUME NEW n \in Nat, n \in P
      PROVE  n + 1 \in P
  <2>1. PICK f : IsCut(data, LastOnes(data, n), f)
    BY <1>2
  <2> DEFINE A == LastOnes(data, n)
             B == LastOnes(data, n + 1)
             h == [i \in B |-> CutFrom(data, f, i)]
  <2>2. ASSUME NEW i \in A
        PROVE  i \in B /\ h[i] = f[i]
    <3>1. i \in B
      BY DEF LastOnes
    <3>2. f[i] = CutFrom(data, f, i)
      BY <2>1 DEF IsCut
    <3> QED
      BY <3>1, <3>2
  <2>3. ASSUME NEW i \in B
        PROVE  CutFrom(data, f, i) = CutFrom(data, h, i)
    <3> DEFINE j == CHOOSE e \in Ends(data, i) : TRUE
    <3>1. CASE i = Len(data) \/ Ends(data, i) = {}
      BY <3>1 DEF CutFrom
    <3>2. CASE Ends(data, i) # {}
      <4>1. j \in Ends(data, i)
        BY <3>2
      <4>2. j \in A
        <5> HIDE DEF j
        <5> QED
          BY <4>1, NextCut
      <4> HIDE DEF A, B, h, j
      <4>3. h[j] = f[j]
        BY <2>2, <4>2
      <4> QED
        BY <4>3, Zenon DEF CutFrom, j
    <3> QED
      BY <3>1, <3>2
  <2>4. h = [i \in B |-> CutFrom(data, h, i)]
    <3> DEFINE hh == [i \in B |-> CutFrom(data, h, i)]
    <3>1. \A i \in B : h[i] = CutFrom(data, f, i) /\ hh[i] = CutFrom(data, h, i)
      OBVIOUS
    <3>2. \A i \in B : h[i] = hh[i]
      BY <2>3, <3>1
    <3>3. h = [i \in B |-> h[i]]
      OBVIOUS
    <3>4. hh = [i \in B |-> hh[i]]
      OBVIOUS
    <3> HIDE DEF h, hh, B
    <3>5. h = hh
      BY <3>2, <3>3, <3>4
    <3> QED
      BY <3>5 DEF hh
  <2>5. IsCut(data, B, h)
    BY <2>4, Zenon DEF IsCut
  <2> HIDE DEF h
  <2> QED
    BY <2>5
<1> HIDE DEF P
<1>3. Nat \subseteq P
  BY <1>1, <1>2, NatSetInduction
<1> QED
  BY <1>3 DEF P

LEMMA CutIsCut ==
  ASSUME NEW data \in Seq(Byte), NEW i \in 0..Len(data)
  PROVE  Cut(data)[i] = CutFrom(data, Cut(data), i)
<1>1. Len(data) \in Nat /\ LastOnes(data, Len(data)) = 0..Len(data)
  BY DEF LastOnes
<1>2. \E f : IsCut(data, 0..Len(data), f)
  BY <1>1, CutExists
<1>3. IsCut(data, 0..Len(data), Cut(data))
  BY <1>2 DEF Cut
<1> QED
  BY <1>3 DEF IsCut

\* The tokens that data can have.
TokenSet(data) ==
    {Rubbish} \cup {Token(Part(data, i, j)) : i \in 0..Len(data), j \in 0..Len(data)}

LEMMA CutSteps ==
  ASSUME NEW data \in Seq(Byte), NEW i \in Nat, i < Len(data)
  PROVE  Cut(data)[i] = IF Whole(data, i)
                        THEN <<Token(Part(data, i, TokenEnd(data, i)))>> \o Cut(data)[TokenEnd(data, i)]
                        ELSE <<Rubbish>>
<1> DEFINE e == TokenEnd(data, i)
<1>1. i \in 0..Len(data) /\ i # Len(data) /\ i <= Len(data)
  OBVIOUS
<1>2. Cut(data)[i] = CutFrom(data, Cut(data), i)
  BY <1>1, CutIsCut
<1>3. Ends(data, i) = IF Whole(data, i) THEN {e} ELSE {}
  BY <1>1, EndsAreOne
<1> HIDE DEF e
<1>4. CASE Whole(data, i)
  <2>1. Ends(data, i) = {e}
    BY <1>3, <1>4
  <2>2. (CHOOSE x \in Ends(data, i) : TRUE) = e
    BY <2>1
  <2>3. Ends(data, i) # {}
    BY <2>1
  <2>4. CutFrom(data, Cut(data), i) = <<Token(SubSeq(data, i + 1, e))>> \o Cut(data)[e]
    BY <1>1, <2>2, <2>3, Zenon DEF CutFrom
  <2> QED
    BY <1>2, <1>4, <2>4, Zenon DEF Part, e
<1>5. CASE ~Whole(data, i)
  <2>1. Ends(data, i) = {}
    BY <1>3, <1>5
  <2>2. CutFrom(data, Cut(data), i) = <<Rubbish>>
    BY <1>1, <2>1, Zenon DEF CutFrom
  <2> QED
    BY <1>2, <1>5, <2>2, Zenon
<1> QED
  BY <1>4, <1>5

LEMMA CutEnds ==
  ASSUME NEW data \in Seq(Byte)
  PROVE  Cut(data)[Len(data)] = <<>>
<1>1. Len(data) \in 0..Len(data)
  OBVIOUS
<1>2. Cut(data)[Len(data)] = CutFrom(data, Cut(data), Len(data))
  BY <1>1, CutIsCut
<1> QED
  BY <1>2, Zenon DEF CutFrom

LEMMA CutIsSequence ==
  ASSUME NEW data \in Seq(Byte), NEW i \in 0..Len(data)
  PROVE  Cut(data)[i] \in Seq(TokenSet(data))
<1> DEFINE L == Len(data)
           S == TokenSet(data)
           P == {n \in Nat : \A k \in LastOnes(data, n) : Cut(data)[k] \in Seq(S)}
<1>1. L \in Nat
  OBVIOUS
<1>2. ASSUME NEW k \in 0..L, k = L
      PROVE  Cut(data)[k] \in Seq(S)
  BY <1>2, CutEnds, EmptySeq
<1>3. 0 \in P
  <2>1. \A k \in LastOnes(data, 0) : k \in 0..L /\ k = L
    BY <1>1 DEF LastOnes
  <2> HIDE DEF S, L
  <2> QED
    BY <1>2, <2>1
<1>4. ASSUME NEW n \in Nat, n \in P
      PROVE  n + 1 \in P
  <2> SUFFICES ASSUME NEW k \in LastOnes(data, n + 1), k # L
               PROVE  Cut(data)[k] \in Seq(S)
    <3>1. \A k \in LastOnes(data, n + 1) : k \in 0..L
      BY DEF LastOnes
    <3> HIDE DEF S, L
    <3> QED
      BY <1>2, <3>1
  <2>1. k \in Nat /\ k < Len(data) /\ k <= Len(data)
    BY <1>1 DEF LastOnes
  <2> DEFINE e == TokenEnd(data, k)
  <2>2. CASE Whole(data, k)
    <3>1. e \in Ends(data, k)
      BY <2>1, <2>2, EndsAreOne
    <3>2. e \in LastOnes(data, n)
      BY <3>1, NextCut
    <3>3. Cut(data)[e] \in Seq(S)
      BY <1>4, <3>2
    <3>4. e \in 0..Len(data) /\ k \in 0..Len(data)
      BY <2>1, <3>2 DEF LastOnes
    <3>5. <<Token(Part(data, k, e))>> \in Seq(S)
      <4>1. Token(Part(data, k, e)) \in S
        BY <3>4 DEF TokenSet
      <4> HIDE DEF S, e
      <4> QED
        BY <4>1
    <3>6. Cut(data)[k] = <<Token(Part(data, k, e))>> \o Cut(data)[e]
      BY <2>1, <2>2, CutSteps
    <3> HIDE DEF S, e
    <3> QED
      BY <3>3, <3>5, <3>6, ConcatProperties
  <2>3. CASE ~Whole(data, k)
    <3>1. Cut(data)[k] = <<Rubbish>>
      BY <2>1, <2>3, CutSteps
    <3>2. Rubbish \in S
      BY DEF TokenSet
    <3> HIDE DEF S
    <3> QED
      BY <3>1, <3>2
  <2> QED
    BY <2>2, <2>3
<1> HIDE DEF P
<1>5. Nat \subseteq P
  BY <1>3, <1>4, NatSetInduction
<1>6. i \in LastOnes(data, L)
  BY <1>1 DEF LastOnes
<1>7. L \in P
  BY <1>1, <1>5
<1> QED
  BY <1>6, <1>7 DEF P

-----------------------------------------------------------------------------
(* Where a decoder is: p bytes and r tokens of the data are behind it.       *)

At(data, p, r) ==
    /\ p \in 0..Len(data) /\ r \in Nat
    /\ Len(Tokens(data)) = r + Len(Cut(data)[p])
    /\ \A k \in 1..Len(Cut(data)[p]) : Tokens(data)[r + k] = Cut(data)[p][k]

LEMMA TokensAreSequence ==
  ASSUME NEW data \in Seq(Byte)
  PROVE  /\ Tokens(data) \in Seq(TokenSet(data)) /\ Len(Tokens(data)) \in Nat
         /\ DOMAIN Tokens(data) = 1..Len(Tokens(data))
<1>1. 0 \in 0..Len(data)
  OBVIOUS
<1>2. Tokens(data) \in Seq(TokenSet(data))
  BY <1>1, CutIsSequence, TokensAreCut
<1> QED
  BY <1>2, LenProperties

LEMMA AtStart ==
  ASSUME NEW data \in Seq(Byte)
  PROVE  At(data, 0, 0)
<1> DEFINE c == Cut(data)[0]
<1>1. 0 \in 0..Len(data) /\ 0 \in Nat
  OBVIOUS
<1>2. Tokens(data) = c
  BY TokensAreCut
<1>3. c \in Seq(TokenSet(data))
  BY <1>1, CutIsSequence
<1> HIDE DEF c
<1>4. Len(c) = 0 + Len(c) /\ \A k \in 1..Len(c) : c[0 + k] = c[k]
  BY <1>3, LenProperties
<1> QED
  BY <1>1, <1>2, <1>4, Zenon DEF At, c

LEMMA AtEnd ==
  ASSUME NEW data \in Seq(Byte), NEW r, At(data, Len(data), r)
  PROVE  r = Len(Tokens(data))
<1>1. r \in Nat /\ Len(Tokens(data)) = r + Len(Cut(data)[Len(data)])
  BY DEF At
<1>2. Len(Cut(data)[Len(data)]) = 0
  BY CutEnds, EmptySeq
<1> QED
  BY <1>1, <1>2

LEMMA AtRubbish ==
  ASSUME NEW data \in Seq(Byte), NEW p, NEW r, At(data, p, r), p < Len(data), ~Whole(data, p)
  PROVE  r + 1 \in DOMAIN Tokens(data) /\ Tokens(data)[r + 1] = Rubbish
<1>1. p \in Nat /\ r \in Nat
  BY DEF At
<1> DEFINE c == Cut(data)[p]
<1>2. c = <<Rubbish>>
  BY <1>1, CutSteps
<1>3. Len(c) = 1 /\ c[1] = Rubbish
  BY <1>2
<1>4. Len(Tokens(data)) = r + Len(c) /\ \A k \in 1..Len(c) : Tokens(data)[r + k] = c[k]
  BY DEF At
<1> HIDE DEF c
<1>5. Len(Tokens(data)) = r + 1 /\ Tokens(data)[r + 1] = Rubbish
  BY <1>3, <1>4
<1> QED
  BY <1>1, <1>5, TokensAreSequence

LEMMA AtWhole ==
  ASSUME NEW data \in Seq(Byte), NEW p, NEW r, At(data, p, r), p < Len(data), Whole(data, p),
         NEW t, t = Tokens(data)[r + 1]
  PROVE  /\ r + 1 \in DOMAIN Tokens(data)
         /\ TokenEnd(data, p) \in Nat /\ TokenEnd(data, p) > p /\ TokenEnd(data, p) <= Len(data)
         /\ At(data, TokenEnd(data, p), r + 1)
         /\ t.field = FieldNum(Tag(data, p).value) /\ t.wireType = WireType(data, p)
         /\ WireType(data, p) = 2 =>
                t.content = Part(data, Number(data, p).next, TokenEnd(data, p))
         /\ t # Rubbish
<1> DEFINE e == TokenEnd(data, p)
           u == Token(Part(data, p, e))
           c == Cut(data)[p]
           b == Cut(data)[e]
           T == Tokens(data)
<1>1. p \in Nat /\ r \in Nat
  BY DEF At
<1>2. e \in Nat /\ e > p /\ e <= Len(data) /\ TokenOk(data, p)
  BY <1>1, TokenEndIsAhead DEF Whole
<1>3. e \in 0..Len(data) /\ p <= e
  BY <1>1, <1>2
<1>4. b \in Seq(TokenSet(data)) /\ Len(b) \in Nat
  BY <1>3, CutIsSequence, LenProperties
<1>5. c = <<u>> \o b
  BY <1>1, CutSteps
<1>6. Len(T) = r + Len(c) /\ \A k \in 1..Len(c) : T[r + k] = c[k]
  BY DEF At
<1>7. /\ u.field = FieldNum(Tag(data, p).value) /\ u.wireType = WireType(data, p)
      /\ WireType(data, p) = 2 => u.content = Part(data, Number(data, p).next, e)
  BY <1>1, <1>2, <1>3, TokenOfPart
<1>8. u # Rubbish
  <2>1. u.wireType \in 0..5
    BY <1>2, <1>7 DEF TokenOk, PayloadOk
  <2>2. Rubbish.wireType = 7
    BY DEF Rubbish
  <2> HIDE DEF u
  <2> QED
    BY <2>1, <2>2
<1>9. u \in TokenSet(data)
  BY <1>1, <1>3 DEF TokenSet
<1> HIDE DEF e, u, c, b, T
<1>10. /\ Len(c) = 1 + Len(b) /\ c[1] = u
       /\ \A k \in 1..Len(b) : c[1 + k] = b[k]
  <2>1. <<u>> \in Seq(TokenSet(data)) /\ Len(<<u>>) = 1 /\ <<u>>[1] = u
    BY <1>9
  <2> DEFINE s == <<u>>
  <2>2. s \in Seq(TokenSet(data)) /\ Len(s) = 1 /\ s[1] = u /\ c = s \o b
    BY <1>5, <2>1
  <2> HIDE DEF s
  <2>3. /\ Len(c) = Len(s) + Len(b)
        /\ \A i \in 1..Len(s) + Len(b) : c[i] = IF i <= Len(s) THEN s[i] ELSE b[i - Len(s)]
    BY <1>4, <2>2, ConcatProperties
  <2>4. \A i \in 1..1 + Len(b) : c[i] = IF i <= 1 THEN s[i] ELSE b[i - 1]
    BY <2>2, <2>3
  <2>5. c[1] = u
    <3>1. 1 \in 1..1 + Len(b) /\ 1 <= 1
      BY <1>4
    <3>2. c[1] = s[1]
      BY <2>4, <3>1
    <3> QED
      BY <2>2, <3>2
  <2>6. ASSUME NEW k \in 1..Len(b)
        PROVE  c[1 + k] = b[k]
    <3>1. 1 + k \in 1..1 + Len(b) /\ ~(1 + k <= 1) /\ (1 + k) - 1 = k
      BY <1>4
    <3> QED
      BY <2>4, <3>1
  <2> QED
    BY <2>2, <2>3, <2>5, <2>6
<1>11. 1 \in 1..Len(c) /\ T[r + 1] = c[1]
  BY <1>4, <1>6, <1>10
<1>12. t = u
  BY <1>10, <1>11 DEF T
<1>13. r + 1 \in Nat /\ Len(T) = (r + 1) + Len(b)
  BY <1>1, <1>4, <1>6, <1>10
<1>14. ASSUME NEW k \in 1..Len(b)
       PROVE  T[(r + 1) + k] = b[k]
  <2>1. 1 + k \in 1..Len(c) /\ r + (1 + k) = (r + 1) + k
    BY <1>1, <1>4, <1>10
  <2>2. T[r + (1 + k)] = c[1 + k]
    BY <1>6, <2>1
  <2> QED
    BY <1>10, <2>1, <2>2
<1>15. At(data, e, r + 1)
  BY <1>3, <1>13, <1>14, Zenon DEF At, T, b
<1>16. r + 1 \in DOMAIN T
  BY <1>1, <1>4, <1>13, TokensAreSequence DEF T
<1> QED
  BY <1>2, <1>7, <1>8, <1>12, <1>15, <1>16, Zenon DEF e, T

\* What a token with a length says.
LEMMA WholeSays ==
  ASSUME NEW data \in Seq(Byte), NEW p, NEW r, At(data, p, r), p < Len(data),
         Whole(data, p), WireType(data, p) = 2
  PROVE  /\ Tokens(data)[r + 1].field = FieldNum(Tag(data, p).value)
         /\ Tokens(data)[r + 1].content = Part(data, Number(data, p).next, TokenEnd(data, p))
<1> DEFINE t == Tokens(data)[r + 1]
<1>1. t = Tokens(data)[r + 1]
  OBVIOUS
<1> HIDE DEF t
<1>2. /\ t.field = FieldNum(Tag(data, p).value)
      /\ t.content = Part(data, Number(data, p).next, TokenEnd(data, p))
  BY <1>1, AtWhole
<1> QED
  BY <1>2, Zenon DEF t

-----------------------------------------------------------------------------
(* Groups that are open.                                                    *)

CountOf(tokens, k, w) == Cardinality({i \in 1..k - 1 : tokens[i].wireType = w})

LEMMA DepthIsCounted ==
  ASSUME NEW tokens, NEW k
  PROVE  Depth(tokens, k) = CountOf(tokens, k, 3) - CountOf(tokens, k, 4)
BY Zenon DEF Depth, CountOf

LEMMA CountGrows ==
  ASSUME NEW tokens, NEW k \in Nat, k >= 1, NEW w
  PROVE  /\ CountOf(tokens, k, w) \in Nat
         /\ CountOf(tokens, k + 1, w) =
                CountOf(tokens, k, w) + (IF tokens[k].wireType = w THEN 1 ELSE 0)
<1> DEFINE A == {i \in 1..k - 1 : tokens[i].wireType = w}
           B == {i \in 1..(k + 1) - 1 : tokens[i].wireType = w}
<1>1. IsFiniteSet(A)
  <2>1. IsFiniteSet(1..k - 1)
    BY FS_Interval
  <2>2. A \subseteq 1..k - 1
    OBVIOUS
  <2> QED
    BY <2>1, <2>2, FS_Subset
<1>2. Cardinality(A) \in Nat
  BY <1>1, FS_CardinalityType
<1>3. k \notin A
  OBVIOUS
<1>4. tokens[k].wireType = w => B = A \cup {k}
  OBVIOUS
<1>5. tokens[k].wireType # w => B = A
  OBVIOUS
<1> HIDE DEF A, B
<1>6. tokens[k].wireType = w => Cardinality(B) = Cardinality(A) + 1
  BY <1>1, <1>3, <1>4, FS_AddElement
<1>7. tokens[k].wireType # w => Cardinality(B) = Cardinality(A) + 0
  BY <1>2, <1>5
<1>8. CountOf(tokens, k, w) = Cardinality(A) /\ CountOf(tokens, k + 1, w) = Cardinality(B)
  BY Zenon DEF CountOf, A, B
<1> QED
  BY <1>2, <1>6, <1>7, <1>8

Change(w) == IF w = 3 THEN 1 ELSE IF w = 4 THEN -1 ELSE 0

LEMMA DepthChanges ==
  ASSUME NEW tokens, NEW k \in Nat, k >= 1
  PROVE  /\ Depth(tokens, k) \in Int
         /\ Depth(tokens, k + 1) = Depth(tokens, k) + Change(tokens[k].wireType)
<1> DEFINE a == CountOf(tokens, k, 3)
           b == CountOf(tokens, k, 4)
           c == CountOf(tokens, k + 1, 3)
           d == CountOf(tokens, k + 1, 4)
           w == tokens[k].wireType
<1>1. a \in Nat /\ c = a + (IF w = 3 THEN 1 ELSE 0)
  BY CountGrows
<1>2. b \in Nat /\ d = b + (IF w = 4 THEN 1 ELSE 0)
  BY CountGrows
<1>3. Depth(tokens, k) = a - b /\ Depth(tokens, k + 1) = c - d
  BY DepthIsCounted
<1> HIDE DEF a, b, c, d, w
<1> QED
  BY <1>1, <1>2, <1>3 DEF Change, w

LEMMA NoDepthAtStart ==
  ASSUME NEW tokens
  PROVE  Depth(tokens, 1) = 0
<1>1. \A w : {i \in 1..1 - 1 : tokens[i].wireType = w} = {}
  OBVIOUS
<1>2. \A w : CountOf(tokens, 1, w) = 0
  BY <1>1, FS_EmptySet DEF CountOf
<1>3. CountOf(tokens, 1, 3) = 0 /\ CountOf(tokens, 1, 4) = 0
  BY <1>2
<1> QED
  BY <1>3, DepthIsCounted

-----------------------------------------------------------------------------
(* What a decoder of one message has read without an error: r tokens that a   *)
(* message may have, behind which d groups are open.                        *)

Fits(message, field, wireType) ==
    /\ wireType # 4
    /\ field > 0
    /\ field \in Known(message) => wireType = 2

ReadSoFar(message, data, p, r, d) ==
    /\ At(data, p, r)
    /\ Depth(Tokens(data), r + 1) = d
    /\ \A k \in 1..r :
          /\ Tokens(data)[k] # Rubbish
          /\ Depth(Tokens(data), k) = 0 =>
                Fits(message, Tokens(data)[k].field, Tokens(data)[k].wireType)

LEMMA ReadNothing ==
  ASSUME NEW message, NEW data \in Seq(Byte)
  PROVE  ReadSoFar(message, data, 0, 0, 0)
<1>1. At(data, 0, 0)
  BY AtStart
<1>2. Depth(Tokens(data), 0 + 1) = 0
  <2>1. 0 + 1 = 1
    OBVIOUS
  <2> QED
    BY <2>1, NoDepthAtStart, Zenon
<1>3. \A k \in 1..0 : FALSE
  OBVIOUS
<1> QED
  BY <1>1, <1>2, <1>3, Zenon DEF ReadSoFar

\* A whole token that fits is one more.
LEMMA ReadOneMore ==
  ASSUME NEW message, NEW data \in Seq(Byte), NEW p, NEW r, NEW d,
         ReadSoFar(message, data, p, r, d), p < Len(data), Whole(data, p),
         d = 0 => Fits(message, FieldNum(Tag(data, p).value), WireType(data, p))
  PROVE  ReadSoFar(message, data, TokenEnd(data, p), r + 1, d + Change(WireType(data, p)))
<1> DEFINE T == Tokens(data)
           e == TokenEnd(data, p)
           w == WireType(data, p)
           t == T[r + 1]
<1>1. At(data, p, r) /\ r \in Nat
  BY DEF ReadSoFar, At
<1>2. /\ At(data, e, r + 1) /\ t # Rubbish
      /\ t.field = FieldNum(Tag(data, p).value) /\ t.wireType = w
  BY <1>1, AtWhole
<1>3. Depth(T, r + 1) = d
  BY DEF ReadSoFar
<1>4. Depth(T, (r + 1) + 1) = d + Change(w)
  <2> DEFINE k == r + 1
  <2>1. k \in Nat /\ k >= 1
    BY <1>1
  <2> HIDE DEF k
  <2>2. Depth(T, k + 1) = Depth(T, k) + Change(T[k].wireType)
    BY <2>1, DepthChanges
  <2> QED
    BY <1>2, <1>3, <2>2, Zenon DEF k
<1>5. ASSUME NEW k \in 1..r + 1
      PROVE  T[k] # Rubbish /\ (Depth(T, k) = 0 => Fits(message, T[k].field, T[k].wireType))
  <2>1. CASE k \in 1..r
    BY <2>1, Zenon DEF ReadSoFar
  <2>2. CASE k = r + 1
    BY <1>2, <1>3, <2>2, Zenon
  <2> QED
    BY <1>1, <2>1, <2>2
<1> QED
  BY <1>2, <1>4, <1>5, Zenon DEF ReadSoFar

\* The reference refuses what the decoder cannot read here.
LEMMA ReadRubbish ==
  ASSUME NEW message, NEW data \in Seq(Byte), NEW p, NEW r, NEW d,
         ReadSoFar(message, data, p, r, d), p < Len(data), ~Whole(data, p)
  PROVE  ~IsMessage(data, Known(message))
<1>1. r + 1 \in DOMAIN Tokens(data) /\ Tokens(data)[r + 1] = Rubbish
  BY AtRubbish DEF ReadSoFar
<1> QED
  BY <1>1, Zenon DEF IsMessage

LEMMA ReadUnfit ==
  ASSUME NEW message, NEW data \in Seq(Byte), NEW p, NEW r,
         ReadSoFar(message, data, p, r, 0), p < Len(data), Whole(data, p),
         ~Fits(message, FieldNum(Tag(data, p).value), WireType(data, p))
  PROVE  ~IsMessage(data, Known(message))
<1> DEFINE T == Tokens(data)
           t == T[r + 1]
<1>1. At(data, p, r) /\ Depth(T, r + 1) = 0
  BY DEF ReadSoFar
<1>2. /\ r + 1 \in DOMAIN T
      /\ t.field = FieldNum(Tag(data, p).value) /\ t.wireType = WireType(data, p)
  BY <1>1, AtWhole
<1>3. r + 1 \in TopLevel(T)
  BY <1>1, <1>2, Zenon DEF TopLevel
<1>4. ~Fits(message, t.field, t.wireType)
  BY <1>2, Zenon
<1> QED
  BY <1>3, <1>4, Zenon DEF IsMessage, Fits

LEMMA ReadAll ==
  ASSUME NEW message, NEW data \in Seq(Byte), NEW r, NEW d,
         ReadSoFar(message, data, Len(data), r, d)
  PROVE  r = Len(Tokens(data)) /\ (IsMessage(data, Known(message)) <=> d = 0)
<1> DEFINE T == Tokens(data)
<1>1. r = Len(T)
  BY AtEnd DEF ReadSoFar
<1>2. DOMAIN T = 1..r
  BY <1>1, TokensAreSequence
<1>3. Depth(T, Len(T) + 1) = d
  BY <1>1, Zenon DEF ReadSoFar
<1>4. \A k \in DOMAIN T : T[k] # Rubbish
  BY <1>2, Zenon DEF ReadSoFar
<1>5. \A k \in TopLevel(T) : Fits(message, T[k].field, T[k].wireType)
  BY <1>2, Zenon DEF ReadSoFar, TopLevel
<1>6. IsMessage(data, Known(message)) <=> d = 0
  BY <1>3, <1>4, <1>5, Zenon DEF IsMessage, Fits
<1> QED
  BY <1>1, <1>6

-----------------------------------------------------------------------------
(* What the tokens say: embedded messages and the last authority.           *)

OfParams(message, tokens, k) ==
    /\ Depth(tokens, k) = 0
    /\ tokens[k].field \in Known(message)
    /\ Fields[message][tokens[k].field] = "params"

EmbeddedRead(message, tokens, r) ==
    \A k \in 1..r : OfParams(message, tokens, k) => IsMessage(tokens[k].content, {})

OfAuthority(tokens, r) == {k \in 1..r : Depth(tokens, k) = 0 /\ tokens[k].field = 1}

AuthorityOf(message, tokens, r) ==
    IF HasAuthority(message) /\ OfAuthority(tokens, r) # {}
    THEN tokens[Max(OfAuthority(tokens, r))].content ELSE NoBytes

LEMMA FieldNames ==
  ASSUME NEW message \in Messages
  PROVE  /\ \A n \in Known(message) : /\ n \in Nat /\ n > 0
                                      /\ Fields[message][n] \in {"authority", "params"}
                                      /\ Fields[message][n] = "authority" => n = 1
         /\ HasAuthority(message) => 1 \in Known(message) /\ Fields[message][1] = "authority"
         /\ \A n \in Known(message) : Fields[message][n] = "authority" => HasAuthority(message)
BY DEF Messages, Fields, Known, HasAuthority

LEMMA WellFormedIsRead ==
  ASSUME NEW message, NEW data \in Seq(Byte)
  PROVE  WellFormed(message, data) <=>
            /\ IsMessage(data, Known(message))
            /\ EmbeddedRead(message, Tokens(data), Len(Tokens(data)))
<1> DEFINE T == Tokens(data)
<1>1. DOMAIN T = 1..Len(T)
  BY TokensAreSequence
<1> HIDE DEF T
<1>2. (\A n \in Known(message) : Fields[message][n] = "params" =>
          \A k \in OfField(T, n) : IsMessage(T[k].content, {}))
        <=> EmbeddedRead(message, T, Len(T))
  BY <1>1, Zenon DEF OfField, TopLevel, EmbeddedRead, OfParams
<1> QED
  BY <1>2, Zenon DEF WellFormed, T

LEMMA SaidIsLast ==
  ASSUME NEW message, NEW data \in Seq(Byte)
  PROVE  SaidAuthority(message, data) = AuthorityOf(message, Tokens(data), Len(Tokens(data)))
<1> DEFINE T == Tokens(data)
<1>1. DOMAIN T = 1..Len(T)
  BY TokensAreSequence
<1> HIDE DEF T
<1>2. OfField(T, 1) = OfAuthority(T, Len(T))
  BY <1>1 DEF OfField, TopLevel, OfAuthority
<1> QED
  BY <1>2, Zenon DEF SaidAuthority, AuthorityOf, T

LEMMA EmbeddedReadOn ==
  ASSUME NEW message, NEW tokens, NEW r \in Nat, EmbeddedRead(message, tokens, r),
         OfParams(message, tokens, r + 1) => IsMessage(tokens[r + 1].content, {})
  PROVE  EmbeddedRead(message, tokens, r + 1)
<1>1. \A k \in 1..r + 1 : k \in 1..r \/ k = r + 1
  OBVIOUS
<1> QED
  BY <1>1, Zenon DEF EmbeddedRead

LEMMA AuthorityUnsaid ==
  ASSUME NEW message, NEW tokens, NEW r \in Nat,
         HasAuthority(message) => ~(Depth(tokens, r + 1) = 0 /\ tokens[r + 1].field = 1)
  PROVE  AuthorityOf(message, tokens, r + 1) = AuthorityOf(message, tokens, r)
<1>1. CASE HasAuthority(message)
  <2>1. OfAuthority(tokens, r + 1) = OfAuthority(tokens, r)
    <3>1. \A k \in 1..r + 1 : k \in 1..r \/ k = r + 1
      OBVIOUS
    <3>2. \A k \in 1..r : k \in 1..r + 1
      OBVIOUS
    <3>3. \A k : k \in OfAuthority(tokens, r + 1) <=> k \in OfAuthority(tokens, r)
      BY <1>1, <3>1, <3>2, Zenon DEF OfAuthority
    <3> QED
      BY <3>3, Zenon
  <2> QED
    BY <2>1, Zenon DEF AuthorityOf
<1>2. CASE ~HasAuthority(message)
  BY <1>2, Zenon DEF AuthorityOf
<1> QED
  BY <1>1, <1>2

LEMMA AuthoritySaid ==
  ASSUME NEW message, NEW tokens, NEW r \in Nat, HasAuthority(message),
         Depth(tokens, r + 1) = 0, tokens[r + 1].field = 1
  PROVE  AuthorityOf(message, tokens, r + 1) = tokens[r + 1].content
<1> DEFINE S == OfAuthority(tokens, r + 1)
<1>1. r + 1 \in S
  BY DEF OfAuthority
<1>2. \A k \in S : k \in Nat /\ k <= r + 1
  BY DEF OfAuthority
<1>3. Max(S) = r + 1
  <2> HIDE DEF S
  <2> DEFINE top_(x) == \A y \in S : x >= y
  <2>1. top_(r + 1)
    BY <1>2
  <2>2. \A x \in S : top_(x) => x = r + 1
    BY <1>1, <1>2
  <2>3. (CHOOSE x \in S : top_(x)) = r + 1
    <3> HIDE DEF top_
    <3> QED
      BY <1>1, <2>1, <2>2
  <2> QED
    BY <2>3, Zenon DEF Max
<1>4. S # {}
  BY <1>1
<1> HIDE DEF S
<1>5. AuthorityOf(message, tokens, r + 1) = tokens[Max(S)].content
  BY <1>4, Zenon DEF AuthorityOf, S
<1> QED
  BY <1>3, <1>5, Zenon

-----------------------------------------------------------------------------
(* The arithmetic of the decoders finds the end of the token, or that it is  *)
(* not in the data.                                                         *)

LEMMA IntsAreLarge == IntEnd >= 16
<1>1. WordBits - 5 \in Nat /\ (WordBits - 5) + 3 = WordBits - 2
      /\ (WordBits - 5) + 3 <= WordBits
  BY WireAssumption
<1>2. 2^(WordBits - 2) \in Int /\ 2^(WordBits - 2) >= 8
  BY <1>1, PowersGrow
<1>3. WordBits - 2 \in 0..WordBits + 6 /\ (WordBits - 2) + 1 = WordBits - 1
  BY WireAssumption
<1>4. 2^(WordBits - 1) = 2 * 2^(WordBits - 2)
  BY <1>3, PowersOfTwo
<1> QED
  BY <1>2, <1>4 DEF IntEnd

LEMMA PlusIsSum ==
  ASSUME NEW a \in Nat, NEW b \in Nat, a + b < IntEnd
  PROVE  Plus(a, b) = a + b
<1> DEFINE e == a + b
<1>1. e \in Nat /\ e < IntEnd /\ e < WordEnd
  BY WordSizes
<1>2. Plus(a, b) = Signed(e, WordBits)
  BY DEF Plus
<1> HIDE DEF e
<1>3. Signed(e, WordBits) = e
  BY <1>1, SignedWord
<1> QED
  BY <1>2, <1>3 DEF e

\* The content of a field is taken when its token is whole.
LEMMA ContentIsToken ==
  ASSUME NEW f \in Frames, Tag(f.data, f.index).ok, WireType(f.data, f.index) = 2,
         NEW c, c = Content(f, Tag(f.data, f.index).next)
  PROVE  /\ c.ok <=> Whole(f.data, f.index)
         /\ c.ok => /\ c.from = Number(f.data, f.index).next
                    /\ c.post = TokenEnd(f.data, f.index)
<1> DEFINE D == f.data
           L == Len(D)
           r == Number(D, f.index)
           v == Int_(r.value)
           s == Plus(r.next, v)
           e == TokenEnd(D, f.index)
<1>1. D \in Seq(Byte) /\ f.index \in Nat /\ L \in Nat /\ L < IntEnd
  BY FrameFields
<1>2. /\ r.ok \in BOOLEAN /\ r.next \in Nat /\ (r.ok => r.next <= L)
      /\ r.value \in Nat /\ r.value < WordEnd /\ v \in Int
  BY <1>1, TokenParts
<1>3. /\ c.ok = (r.ok /\ v >= 0 /\ s >= 0 /\ s <= L)
      /\ c.from = r.next /\ c.post = s
  BY Zenon DEF Content, Number
<1>4. v >= 0 => v < IntEnd
  BY <1>2, SignedWord, WordSizes DEF Int_
<1>5. e = r.next + v
  BY DEF TokenEnd, PayloadEnd
<1>6. Whole(D, f.index) <=> r.ok /\ v >= 0 /\ e <= L
  BY DEF Whole, TokenOk, PayloadOk
<1> HIDE DEF D, L, r, v, s, e
<1>7. ASSUME r.ok, v >= 0
      PROVE  /\ s \in Int
             /\ s >= 0 => s = e
             /\ e <= L => s = e /\ s >= 0
  <2>1. v \in Nat /\ v < IntEnd /\ r.next \in Nat /\ r.next < IntEnd
    BY <1>1, <1>2, <1>4, <1>7, WordSizes
  <2>2. s \in Int /\ (s >= 0 => s = r.next + v)
    BY <2>1, PlusProperties DEF s
  <2>3. ASSUME e <= L
        PROVE  s = r.next + v
    <3>1. r.next + v < IntEnd
      BY <1>1, <1>5, <2>1, <2>3, WordSizes
    <3> QED
      BY <2>1, <3>1, PlusIsSum DEF s
  <2> QED
    BY <1>5, <2>1, <2>2, <2>3
<1>8. c.ok => r.ok /\ v >= 0 /\ s >= 0 /\ s <= L
  BY <1>3
<1>9. r.ok /\ v >= 0 /\ s >= 0 /\ s <= L => c.ok
  BY <1>3
<1>10. c.ok <=> Whole(D, f.index)
  <2>1. ASSUME c.ok
        PROVE  r.ok /\ v >= 0 /\ e <= L
    BY <1>1, <1>7, <1>8, <2>1
  <2>2. ASSUME r.ok, v >= 0, e <= L
        PROVE  c.ok
    <3>1. s = e /\ s >= 0
      BY <1>7, <2>2
    <3>2. s <= L
      BY <2>2, <3>1
    <3> QED
      BY <1>9, <2>2, <3>1, <3>2
  <2> QED
    BY <1>6, <2>1, <2>2
<1>11. c.ok => c.post = e
  BY <1>3, <1>7, <1>8
<1> QED
  BY <1>3, <1>10, <1>11 DEF D, r, e

\* iNdEx behind the switch of a skip function is the end of the token, unless
\* the sum has wrapped and is negative.
LEMMA IndexAfterIsEnd ==
  ASSUME NEW s \in Frames, NEW tag, tag = ReadVarint(s.data, s.index), tag.ok,
         NEW number, number = ReadVarint(s.data, tag.next),
         NEW w, w = tag.value % 8, PayloadOk(w, number)
  PROVE  /\ PayloadEnd(w, tag.next, number) \in Nat
         /\ IndexAfter(s, tag) \in Int
         /\ IndexAfter(s, tag) >= 0 =>
                IndexAfter(s, tag) = PayloadEnd(w, tag.next, number)
         /\ PayloadEnd(w, tag.next, number) < IntEnd =>
                IndexAfter(s, tag) = PayloadEnd(w, tag.next, number)
<1> DEFINE v == Int_(number.value)
           a == IndexAfter(s, tag)
           e == PayloadEnd(w, tag.next, number)
           L == Len(s.data)
<1>1. s.data \in Seq(Byte) /\ s.index \in Nat /\ L \in Nat /\ L < IntEnd
  BY FrameFields
<1>2. tag.next \in Nat /\ tag.next <= L /\ tag.value \in Nat
  BY <1>1, ReadVarintProperties
<1>3. /\ number.ok \in BOOLEAN /\ number.next \in Nat /\ (number.ok => number.next <= L)
      /\ number.value \in Nat /\ number.value < WordEnd
  BY <1>1, <1>2, ReadVarintProperties
<1>4. /\ w = 0 => a = number.next
      /\ w = 1 => a = Plus(tag.next, 8)
      /\ w = 2 => a = Plus(number.next, v)
      /\ w = 5 => a = Plus(tag.next, 4)
      /\ w \in {3, 4} => a = tag.next
  BY SMTT(30) DEF IndexAfter
<1>5. /\ w = 0 => e = number.next
      /\ w = 1 => e = tag.next + 8
      /\ w = 2 => e = number.next + v
      /\ w = 5 => e = tag.next + 4
      /\ w \in {3, 4} => e = tag.next
  BY DEF PayloadEnd
<1>6. w \in 0..5 /\ (w \in {0, 2} => number.ok) /\ (w = 2 => v \in Nat /\ v < IntEnd)
  BY <1>3, SignedWord, WordSizes DEF PayloadOk, Int_
<1> HIDE DEF a, e, v, L
<1>7. tag.next < IntEnd /\ (number.ok => number.next < IntEnd)
  BY <1>1, <1>2, <1>3, WordSizes
<1>8. ASSUME NEW x \in Nat, NEW y \in Nat, x < IntEnd, y < IntEnd, a = Plus(x, y), e = x + y
      PROVE  e \in Nat /\ a \in Int /\ (a >= 0 => a = e) /\ (e < IntEnd => a = e)
  <2>1. a \in Int /\ (a >= 0 => a = x + y)
    BY <1>8, PlusProperties
  <2>2. x + y < IntEnd => a = x + y
    BY <1>8, PlusIsSum
  <2> QED
    BY <1>8, <2>1, <2>2
<1>9. e \in Nat /\ a \in Int /\ (a >= 0 => a = e) /\ (e < IntEnd => a = e)
  <2>1. CASE w \in {0, 3, 4}
    BY <1>2, <1>3, <1>4, <1>5, <2>1
  <2>2. CASE w = 2
    BY <1>3, <1>4, <1>5, <1>6, <1>7, <1>8, <2>2
  <2>3. CASE w = 1
    <3> DEFINE y == 8
    <3>1. y \in Nat /\ y < IntEnd /\ a = Plus(tag.next, y) /\ e = tag.next + y
      BY <1>4, <1>5, <2>3, IntsAreLarge, WordSizes
    <3> HIDE DEF y
    <3> QED
      BY <1>2, <1>7, <1>8, <3>1
  <2>4. CASE w = 5
    <3> DEFINE y == 4
    <3>1. y \in Nat /\ y < IntEnd /\ a = Plus(tag.next, y) /\ e = tag.next + y
      BY <1>4, <1>5, <2>4, WordSizes
    <3> HIDE DEF y
    <3> QED
      BY <1>2, <1>7, <1>8, <3>1
  <2> QED
    BY <1>6, <2>1, <2>2, <2>3, <2>4
<1> QED
  BY <1>9 DEF a, e

\* The skip function s goes over the rest of the data of f.
GoesOver(s, f) ==
    /\ s.data = Part(f.data, f.index, Len(f.data))
    /\ f.index <= Len(f.data)

HasMore(s) == s.index < Len(s.data)

\* Its token is the one at its place in the caller's data.
LEMMA SkippedToken ==
  ASSUME NEW f \in Frames, NEW s \in Frames, GoesOver(s, f), HasMore(s),
         NEW p, p = f.index + s.index,
         NEW tag, tag = ReadVarint(s.data, s.index),
         NEW bad, bad <=> ~tag.ok \/ CannotSkip(s, tag)
  PROVE  /\ p \in Nat /\ p < Len(f.data)
         /\ ~bad => /\ TokenEnd(f.data, p) = f.index + IndexAfter(s, tag)
                    /\ TokenOk(f.data, p)
                    /\ DepthAfter(s, tag) = s.depth + Change(WireType(f.data, p))
         /\ bad /\ Whole(f.data, p) => WireType(f.data, p) = 4 /\ s.depth = 0
<1> DEFINE D == f.data
           L == Len(D)
           i == f.index
           t == Tag(D, p)
           n == Number(D, p)
           number == ReadVarint(s.data, tag.next)
           w == tag.value % 8
           a == IndexAfter(s, tag)
           e == PayloadEnd(w, tag.next, number)
<1>1. /\ D \in Seq(Byte) /\ L \in Nat /\ L < IntEnd /\ i \in Nat /\ i <= L
      /\ s.data \in Seq(Byte) /\ s.index \in Nat /\ s.depth \in Nat
  BY FrameFields DEF GoesOver
<1>2. Len(s.data) = L - i
  <2>1. s.data = Part(D, i, L)
    BY DEF GoesOver
  <2>2. Len(Part(D, i, L)) = L - i
    <3>1. D \in Seq(Byte) /\ i \in Nat /\ L \in Nat /\ i <= L /\ L <= Len(D)
      BY <1>1
    <3> HIDE DEF D, i, L
    <3> QED
      BY <3>1, PartElements
  <2> QED
    BY <2>1, <2>2, Zenon
<1>3. p \in Nat /\ p < L
  BY <1>1, <1>2 DEF HasMore
<1>4. tag.next \in Nat /\ tag.value \in Nat /\ tag.ok \in BOOLEAN
  BY <1>1, ReadVarintProperties
<1>5. (tag.ok <=> t.ok) /\ t.next = i + tag.next /\ tag.value = t.value
  <2> DEFINE x == s.index
             j == i + x
  <2>1. t = ReadVarint(D, j) /\ tag = ReadVarint(Part(D, i, Len(D)), x)
    BY DEF Tag, GoesOver
  <2>2. D \in Seq(Byte) /\ i \in Nat /\ i <= Len(D) /\ x \in Nat
    BY <1>1
  <2>3. j = i + x
    OBVIOUS
  <2>4. BothRead(D, i, x, tag, j, t)
    BY <2>1, <2>2, <2>3, Zenon DEF BothRead
  <2> HIDE DEF D, t, i, x, j
  <2> QED
    BY <2>4, ReadVarintOfRest
<1>6. (number.ok <=> n.ok) /\ n.next = i + number.next /\ number.value = n.value
  <2> DEFINE x == tag.next
             j == i + x
  <2>1. n = ReadVarint(D, j) /\ number = ReadVarint(Part(D, i, Len(D)), x)
    BY <1>5, Zenon DEF Number, GoesOver
  <2>2. D \in Seq(Byte) /\ i \in Nat /\ i <= Len(D) /\ x \in Nat
    BY <1>1, <1>4, <1>5
  <2>3. j = i + x
    OBVIOUS
  <2>4. BothRead(D, i, x, number, j, n)
    BY <2>1, <2>2, <2>3, Zenon DEF BothRead
  <2> HIDE DEF D, n, i, number, t, x, j
  <2> QED
    BY <2>4, ReadVarintOfRest
<1>7. number.next \in Nat /\ Int_(number.value) \in Int
  BY <1>1, <1>4, ReadVarintProperties, SignedWord DEF Int_
<1>8. WireType(D, p) = w /\ w \in 0..7
  <2>1. WireType(D, p) = w
    BY <1>5, Zenon DEF WireType
  <2> QED
    BY <1>4, <2>1
<1>9. PayloadOk(WireType(D, p), n) <=> PayloadOk(w, number)
  BY <1>6, <1>8, Zenon DEF PayloadOk
<1>10. TokenEnd(D, p) = i + e
  <2>1. TokenEnd(D, p) = PayloadEnd(w, t.next, n)
    BY <1>8, Zenon DEF TokenEnd
  <2>2. /\ w = 0 => PayloadEnd(w, t.next, n) = n.next /\ e = number.next
        /\ w = 1 => PayloadEnd(w, t.next, n) = t.next + 8 /\ e = tag.next + 8
        /\ w = 2 => /\ PayloadEnd(w, t.next, n) = n.next + Int_(n.value)
                    /\ e = number.next + Int_(number.value)
        /\ w = 5 => PayloadEnd(w, t.next, n) = t.next + 4 /\ e = tag.next + 4
        /\ w \notin {0, 1, 2, 5} => PayloadEnd(w, t.next, n) = t.next /\ e = tag.next
    <3>1. e = PayloadEnd(w, tag.next, number)
      OBVIOUS
    <3> HIDE DEF e, w, number, n, t
    <3> QED
      BY <3>1 DEF PayloadEnd
  <2> DEFINE v == Int_(number.value)
             g == PayloadEnd(w, t.next, n)
  <2>3. v \in Int /\ Int_(n.value) = v
    BY <1>6, <1>7
  <2> HIDE DEF v, g, e, w, number, n, t, i
  <2>4. g = i + e
    BY <1>1, <1>4, <1>5, <1>6, <1>7, <2>2, <2>3 DEF v, g
  <2> QED
    BY <2>1, <2>4 DEF g
<1>11. CannotSkip(s, tag) <=> \/ w \in {0, 2} /\ ~number.ok
                              \/ w = 2 /\ Int_(number.value) < 0
                              \/ w = 4 /\ s.depth = 0
                              \/ w \in {6, 7}
                              \/ a < 0
  BY Zenon DEF CannotSkip
<1>12. tag.ok /\ PayloadOk(w, number) =>
         /\ e \in Nat /\ a \in Int /\ (a >= 0 => a = e) /\ (e < IntEnd => a = e)
  BY IndexAfterIsEnd
<1>13. PayloadOk(w, number) <=> /\ w \in 0..5
                                /\ w \in {0, 2} => number.ok
                                /\ w = 2 => Int_(number.value) >= 0
  BY Zenon DEF PayloadOk
<1>14. DepthAfter(s, tag) = s.depth + Change(w)
  BY <1>1, <1>8 DEF DepthAfter, Change
<1>15. ASSUME ~bad
       PROVE  TokenEnd(D, p) = i + a /\ TokenOk(D, p)
  <2>1. tag.ok /\ ~CannotSkip(s, tag)
    BY <1>15
  <2> HIDE DEF a, e, w, number, t, n
  <2>2. PayloadOk(w, number)
    BY <1>7, <1>8, <1>11, <1>13, <2>1
  <2>3. ~(a < 0)
    BY <1>11, <2>1
  <2>4. a = e
    BY <1>12, <2>1, <2>2, <2>3
  <2>5. TokenOk(D, p)
    BY <1>5, <1>9, <2>1, <2>2, Zenon DEF TokenOk, t, n
  <2> QED
    BY <1>10, <2>4, <2>5, Zenon
<1>16. ASSUME bad, Whole(D, p)
       PROVE  w = 4 /\ s.depth = 0
  <2>1. tag.ok /\ PayloadOk(w, number)
    BY <1>5, <1>9, <1>16, Zenon DEF Whole, TokenOk
  <2>2. TokenEnd(D, p) <= L
    BY <1>16 DEF Whole
  <2> HIDE DEF a, e, w, number, t, n, D, L, i
  <2>3. e < IntEnd
    BY <1>1, <1>10, <1>12, <2>1, <2>2, WordSizes
  <2>4. a = e /\ ~(a < 0)
    BY <1>12, <2>1, <2>3
  <2>5. CannotSkip(s, tag)
    BY <1>16, <2>1
  <2> QED
    BY <1>7, <1>8, <1>11, <1>13, <2>1, <2>4, <2>5
<1> QED
  BY <1>3, <1>8, <1>14, <1>15, <1>16 DEF D, L, i, w, a

-----------------------------------------------------------------------------
(* One call of Unmarshal, and the skip function it may have called.          *)

\* Unmarshal of f has read r tokens to p.
Reads(f, p, r, d) ==
    /\ ReadSoFar(f.fn, f.data, p, r, d)
    /\ EmbeddedRead(f.fn, Tokens(f.data), r)

\* The tag at the index of f is of an unknown field, which is not refused.
UnknownAt(f, p) ==
    /\ Fits(f.fn, FieldNum(Tag(f.data, p).value), WireType(f.data, p))
    /\ FieldNum(Tag(f.data, p).value) \notin Known(f.fn)

Reading(f, r) == Reads(f, f.index, r, 0)

\* A skip function is called at the index of f; groups are open behind every
\* token but the last.  It may have gone behind the data: its token was cut short.
Skipping(f, s, r) ==
    /\ GoesOver(s, f)
    /\ \/ /\ s.index = 0 /\ s.depth = 0 /\ f.index < Len(f.data)
          /\ Reads(f, f.index, r, 0) /\ UnknownAt(f, f.index)
       \/ /\ s.index > 0 /\ s.depth > 0 /\ f.index + s.index <= Len(f.data)
          /\ Reads(f, f.index + s.index, r, s.depth)
       \/ /\ s.index > 0 /\ s.depth > 0 /\ f.index + s.index > Len(f.data)
          /\ ~IsMessage(f.data, Known(f.fn))

\* A token of a group or of an unknown field is one more, and says nothing.
LEMMA ReadsOn ==
  ASSUME NEW f \in Frames, f.fn \in Messages, NEW p, NEW r, NEW d, Reads(f, p, r, d),
         p < Len(f.data), Whole(f.data, p), d = 0 => UnknownAt(f, p)
  PROVE  /\ Reads(f, TokenEnd(f.data, p), r + 1, d + Change(WireType(f.data, p)))
         /\ AuthorityOf(f.fn, Tokens(f.data), r + 1) = AuthorityOf(f.fn, Tokens(f.data), r)
<1> DEFINE D == f.data
           m == f.fn
           T == Tokens(D)
           t == T[r + 1]
           w == WireType(D, p)
           n == FieldNum(Tag(D, p).value)
<1>1. D \in Seq(Byte) /\ m \in Messages
  BY FrameFields
<1>2. ReadSoFar(m, D, p, r, d) /\ EmbeddedRead(m, T, r) /\ p < Len(D) /\ Whole(D, p)
  BY DEF Reads
<1>3. d = 0 => Fits(m, n, w) /\ n \notin Known(m)
  BY DEF UnknownAt
<1> HIDE DEF D, m
<1>4. ReadSoFar(m, D, TokenEnd(D, p), r + 1, d + Change(w))
  BY <1>1, <1>2, <1>3, ReadOneMore
<1>5. At(D, p, r) /\ r \in Nat /\ Depth(T, r + 1) = d
  BY <1>2 DEF ReadSoFar, At
<1>6. t.field = n
  BY <1>1, <1>2, <1>5, AtWhole
<1>7. Depth(T, r + 1) = 0 => t.field \notin Known(m)
  BY <1>3, <1>5, <1>6, Zenon
<1>8. EmbeddedRead(m, T, r + 1)
  <2>1. ~OfParams(m, T, r + 1)
    BY <1>7, Zenon DEF OfParams
  <2> HIDE DEF T
  <2> QED
    BY <1>2, <1>5, <2>1, EmbeddedReadOn
<1>9. AuthorityOf(m, T, r + 1) = AuthorityOf(m, T, r)
  <2>1. HasAuthority(m) => ~(Depth(T, r + 1) = 0 /\ t.field = 1)
    BY <1>1, <1>7, FieldNames, Zenon
  <2> HIDE DEF T
  <2> QED
    BY <1>5, <2>1, AuthorityUnsaid
<1> QED
  BY <1>4, <1>8, <1>9, Zenon DEF Reads, D, m

\* What a skip function cannot go over is in no message.
LEMMA BadSkip ==
  ASSUME NEW f \in Frames, f.fn \in Messages, NEW s \in Frames, NEW r, Skipping(f, s, r),
         NEW tag, tag = ReadVarint(s.data, s.index),
         ~HasMore(s) \/ ~tag.ok \/ CannotSkip(s, tag)
  PROVE  ~IsMessage(f.data, Known(f.fn))
<1> DEFINE D == f.data
           L == Len(D)
           m == f.fn
           p == f.index + s.index
           S == Len(s.data)
<1>1. /\ D \in Seq(Byte) /\ L \in Nat /\ f.index \in Nat /\ s.index \in Nat /\ s.depth \in Nat
      /\ s.data \in Seq(Byte)
  BY FrameFields
<1>2. GoesOver(s, f)
  BY DEF Skipping
<1>3. S = L - f.index
  <2> DEFINE i == f.index
  <2>1. D \in Seq(Byte) /\ i \in Nat /\ L \in Nat /\ i <= L /\ L <= Len(D) /\ s.data = Part(D, i, L)
    BY <1>1, <1>2 DEF GoesOver
  <2>2. Len(Part(D, i, L)) = L - i
    <3> HIDE DEF D, L, i
    <3> QED
      BY <2>1, PartElements
  <2> QED
    BY <2>1, <2>2
<1>4. p \in Nat /\ (HasMore(s) <=> p < L)
  BY <1>1, <1>3 DEF HasMore
<1>5. \/ /\ s.index = 0 /\ s.depth = 0 /\ p < L /\ p = f.index
         /\ ReadSoFar(m, D, p, r, 0) /\ UnknownAt(f, p)
      \/ /\ s.depth > 0 /\ p <= L
         /\ ReadSoFar(m, D, p, r, s.depth)
      \/ ~IsMessage(D, Known(m))
  <2> DEFINE i == f.index
             j == s.index
             e == s.depth
  <2>1. \/ /\ j = 0 /\ e = 0 /\ i < L /\ Reads(f, i, r, 0) /\ UnknownAt(f, i)
        \/ /\ e > 0 /\ i + j <= L /\ Reads(f, i + j, r, e)
        \/ ~IsMessage(D, Known(m))
    BY Zenon DEF Skipping
  <2>2. j = 0 => p = i
    BY <1>1
  <2> HIDE DEF i, j, e, D, L, m
  <2> QED
    BY <2>1, <2>2, Zenon DEF Reads, i, j, e, D, L, m
<1>6. CASE p < L /\ ~Whole(D, p)
  <2> HIDE DEF D, L, m, p
  <2>1. \A d : ReadSoFar(m, D, p, r, d) => ~IsMessage(D, Known(m))
    BY <1>1, <1>6, ReadRubbish DEF L
  <2> QED
    BY <1>5, <2>1, Zenon DEF D, m
<1>7. CASE p < L /\ Whole(D, p)
  <2> DEFINE bad == ~tag.ok \/ CannotSkip(s, tag)
  <2>1. HasMore(s) /\ bad
    BY <1>4, <1>7
  <2>2. WireType(D, p) = 4 /\ s.depth = 0
    <3>1. bad /\ Whole(D, p) => WireType(D, p) = 4 /\ s.depth = 0
      <4> HIDE DEF bad, D, p
      <4>1. bad <=> ~tag.ok \/ CannotSkip(s, tag)
        BY DEF bad
      <4>2. p = f.index + s.index /\ D = f.data
        BY DEF p, D
      <4> HIDE DEF L, S, m
      <4> QED
        BY <1>2, <2>1, <4>1, <4>2, SkippedToken
    <3> QED
      BY <1>7, <2>1, <3>1
  <2>3. UnknownAt(f, p) => WireType(D, p) # 4
    BY Zenon DEF UnknownAt, Fits
  <2>4. ~(s.depth > 0)
    BY <2>2
  <2> QED
    BY <1>5, <2>2, <2>3, <2>4, Zenon
<1>8. CASE ~(p < L)
  <2>1. ~HasMore(s)
    BY <1>4, <1>8
  <2>2. ASSUME s.depth > 0, p <= L, ReadSoFar(m, D, p, r, s.depth)
        PROVE  ~IsMessage(D, Known(m))
    <3>1. p = L /\ s.depth # 0
      BY <1>1, <1>4, <1>8, <2>2
    <3>2. ReadSoFar(m, D, Len(D), r, s.depth)
      BY <2>2, <3>1, Zenon
    <3> HIDE DEF D, m, p, L
    <3> QED
      BY <1>1, <3>1, <3>2, ReadAll
  <2> QED
    BY <1>5, <1>8, <2>2, Zenon
<1> QED
  BY <1>6, <1>7, <1>8, Zenon

LEMMA FieldNumIsInt ==
  ASSUME NEW w \in Nat
  PROVE  FieldNum(w) \in Int
<1> DEFINE x == w \div 8
           P == 2^FieldBits
           Q == 2^(FieldBits - 1)
<1>1. x \in Nat /\ P \in Int /\ Q \in Int /\ P > 0
  <2>1. FieldBits - 3 \in Nat /\ (FieldBits - 3) + 3 = FieldBits
        /\ (FieldBits - 3) + 3 <= WordBits /\ FieldBits \in Nat /\ FieldBits - 1 \in Nat
    BY WireAssumption
  <2>2. 2^FieldBits \in Int /\ 2^FieldBits >= 8
    BY <2>1, PowersGrow
  <2>3. 2^(FieldBits - 1) \in Int
    BY <2>1
  <2> QED
    BY <2>2, <2>3
<1>2. FieldNum(w) = IF (x % P) >= Q THEN (x % P) - P ELSE x % P
  BY DEF FieldNum, Signed
<1> HIDE DEF x, P, Q
<1>3. x % P \in Int
  BY <1>1
<1> QED
  BY <1>1, <1>2, <1>3

\* What it can go over is one more token, if its end is in the data.
LEMMA GoodSkip ==
  ASSUME NEW f \in Frames, f.fn \in Messages, NEW s \in Frames, NEW r, Skipping(f, s, r),
         HasMore(s), NEW tag, tag = ReadVarint(s.data, s.index),
         tag.ok, ~CannotSkip(s, tag), NEW e, e = f.index + IndexAfter(s, tag)
  PROVE  /\ e > Len(f.data) => ~IsMessage(f.data, Known(f.fn))
         /\ e <= Len(f.data) =>
               /\ Reads(f, e, r + 1, DepthAfter(s, tag))
               /\ AuthorityOf(f.fn, Tokens(f.data), r + 1) = AuthorityOf(f.fn, Tokens(f.data), r)
<1> DEFINE D == f.data
           L == Len(D)
           m == f.fn
           p == f.index + s.index
           T == Tokens(D)
           d == s.depth
           g == DepthAfter(s, tag)
<1>1. D \in Seq(Byte) /\ L \in Nat /\ f.index \in Nat /\ s.index \in Nat /\ s.depth \in Nat
  BY FrameFields
<1>2. GoesOver(s, f)
  BY DEF Skipping
<1>3. /\ p \in Nat /\ p < L
      /\ TokenEnd(D, p) = e /\ TokenOk(D, p)
      /\ g = d + Change(WireType(D, p))
  <2> DEFINE bad == ~tag.ok \/ CannotSkip(s, tag)
  <2>1. ~bad
    OBVIOUS
  <2>2. (bad <=> ~tag.ok \/ CannotSkip(s, tag)) /\ p = f.index + s.index
    OBVIOUS
  <2> HIDE DEF bad, p
  <2>3. /\ p \in Nat /\ p < Len(f.data)
        /\ ~bad => /\ TokenEnd(f.data, p) = f.index + IndexAfter(s, tag)
                   /\ TokenOk(f.data, p)
                   /\ DepthAfter(s, tag) = s.depth + Change(WireType(f.data, p))
    BY <1>2, <2>2, SkippedToken
  <2> QED
    BY <2>1, <2>3, Zenon
<1>4. Reads(f, p, r, d) /\ (d = 0 => UnknownAt(f, p))
  <2> DEFINE i == f.index
             j == s.index
  <2>1. \/ /\ j = 0 /\ d = 0 /\ Reads(f, i, r, 0) /\ UnknownAt(f, i)
        \/ /\ d > 0 /\ Reads(f, i + j, r, d)
        \/ i + j > L
    BY Zenon DEF Skipping
  <2>2. (j = 0 => p = i) /\ p = i + j /\ ~(p > L)
    BY <1>1, <1>3
  <2>3. d > 0 => d # 0
    BY <1>1
  <2> HIDE DEF i, j, D, L, m, p, d, T
  <2> QED
    BY <2>1, <2>2, <2>3, Zenon
<1>5. Whole(D, p) <=> e <= L
  BY <1>3, Zenon DEF Whole
<1>6. ASSUME e <= L
      PROVE  Reads(f, e, r + 1, g) /\ AuthorityOf(m, T, r + 1) = AuthorityOf(m, T, r)
  <2>1. p < Len(f.data) /\ Whole(f.data, p) /\ (d = 0 => UnknownAt(f, p)) /\ Reads(f, p, r, d)
    BY <1>3, <1>4, <1>5, <1>6
  <2> HIDE DEF p, d
  <2>2. /\ Reads(f, TokenEnd(f.data, p), r + 1, d + Change(WireType(f.data, p)))
        /\ AuthorityOf(f.fn, Tokens(f.data), r + 1) = AuthorityOf(f.fn, Tokens(f.data), r)
    BY <2>1, ReadsOn
  <2> QED
    BY <1>3, <2>2, Zenon
<1>7. ASSUME ~(e <= L)
      PROVE  ~IsMessage(D, Known(m))
  <2>1. ReadSoFar(m, D, p, r, d) /\ p < Len(D) /\ ~Whole(D, p)
    BY <1>3, <1>4, <1>5, <1>7 DEF Reads
  <2> HIDE DEF D, L, m, p, d, T
  <2> QED
    BY <1>1, <2>1, ReadRubbish
<1>8. e > L => ~(e <= L)
  <2>1. e \in Nat
    BY <1>1, <1>3, TokenEndIsAhead
  <2> HIDE DEF L
  <2> QED
    BY <1>1, <2>1
<1> QED
  BY <1>6, <1>7, <1>8, Zenon

-----------------------------------------------------------------------------
(* One iteration of Unmarshal.                                              *)

LEMMA UnmarshalEnds ==
  ASSUME NEW f \in Frames, f.fn \in Messages, NEW r, Reading(f, r), f.index >= Len(f.data)
  PROVE  r = Len(Tokens(f.data)) /\ WellFormed(f.fn, f.data)
<1> DEFINE D == f.data
           m == f.fn
           i == f.index
<1>1. D \in Seq(Byte) /\ Len(D) \in Nat /\ i \in Nat /\ i <= Len(D) /\ i >= Len(D)
  BY FrameFields
<1>2. ReadSoFar(m, D, i, r, 0) /\ EmbeddedRead(m, Tokens(D), r)
  BY Zenon DEF Reading, Reads
<1> HIDE DEF D, m, i
<1>3. i = Len(D)
  BY <1>1
<1>4. ReadSoFar(m, D, Len(D), r, 0)
  BY <1>2, <1>3, Zenon
<1>5. r = Len(Tokens(D)) /\ IsMessage(D, Known(m))
  BY <1>1, <1>4, ReadAll
<1>6. WellFormed(m, D)
  BY <1>1, <1>2, <1>5, WellFormedIsRead, Zenon
<1> QED
  BY <1>5, <1>6, Zenon DEF D, m

LEMMA UnmarshalRefuses ==
  ASSUME NEW f \in Frames, f.fn \in Messages, NEW r, Reading(f, r), f.index < Len(f.data),
         NEW tag, tag = ReadVarint(f.data, f.index),
         NEW n, n = FieldNum(tag.value), NEW w, w = tag.value % 8,
         \/ ~tag.ok
         \/ TagRefused(w, n)
         \/ KnownField(f.fn, n) /\ (w # 2 \/ ~Content(f, tag.next).ok)
  PROVE  ~IsMessage(f.data, Known(f.fn))
<1> DEFINE D == f.data
           m == f.fn
           i == f.index
<1>1. D \in Seq(Byte) /\ i \in Nat /\ i < Len(D)
  BY FrameFields
<1>2. ReadSoFar(m, D, i, r, 0)
  BY Zenon DEF Reading, Reads
<1>3. tag = Tag(D, i) /\ w = WireType(D, i) /\ n = FieldNum(Tag(D, i).value)
  BY Zenon DEF Tag, WireType
<1>4. CASE ~Whole(D, i)
  <2> HIDE DEF D, m, i
  <2>1. ~IsMessage(D, Known(m))
    BY <1>1, <1>2, <1>4, ReadRubbish
  <2> QED
    BY <2>1 DEF D, m
<1>5. CASE Whole(D, i)
  <2>1. tag.ok
    BY <1>3, <1>5, Zenon DEF Whole, TokenOk
  <2>2. w = 2 => Content(f, tag.next).ok
    <3> SUFFICES ASSUME w = 2
                 PROVE  Content(f, tag.next).ok
      OBVIOUS
    <3>1. Tag(f.data, f.index).ok /\ WireType(f.data, f.index) = 2
      BY <1>3, <2>1, Zenon
    <3>2. Content(f, Tag(f.data, f.index).next).ok <=> Whole(f.data, f.index)
      BY <3>1, ContentIsToken
    <3> QED
      BY <1>3, <1>5, <3>2, Zenon
  <2>3. TagRefused(w, n) \/ (n \in Known(m) /\ w # 2)
    <3>1. KnownField(m, n) <=> n \in Known(m)
      BY Zenon DEF KnownField, Known
    <3>2. TagRefused(w, n) \/ (KnownField(m, n) /\ (w # 2 \/ ~Content(f, tag.next).ok))
      BY <2>1, Zenon
    <3> QED
      BY <2>2, <3>1, <3>2, Zenon
  <2>4. n \in Int /\ w \in Nat
    <3>1. Tag(D, i).value \in Nat /\ WireType(D, i) \in 0..7
      BY <1>1, TokenParts
    <3> HIDE DEF D, i
    <3> QED
      BY <1>3, <3>1, FieldNumIsInt
  <2>5. ~Fits(m, n, w)
    BY <2>3, <2>4 DEF TagRefused, Fits
  <2> HIDE DEF D, m, i
  <2>6. ~IsMessage(D, Known(m))
    BY <1>1, <1>2, <1>3, <1>5, <2>5, ReadUnfit
  <2> QED
    BY <2>6 DEF D, m
<1> QED
  BY <1>4, <1>5

\* A known field that is taken is one more token, with the content that is read.
LEMMA UnmarshalTakes ==
  ASSUME NEW f \in Frames, f.fn \in Messages, NEW r, Reading(f, r), f.index < Len(f.data),
         NEW tag, tag = ReadVarint(f.data, f.index), tag.ok,
         NEW n, n = FieldNum(tag.value), tag.value % 8 = 2, ~TagRefused(2, n),
         NEW c, c = Content(f, tag.next), c.ok
  PROVE  /\ ReadSoFar(f.fn, f.data, c.post, r + 1, 0)
         /\ Depth(Tokens(f.data), r + 1) = 0
         /\ Tokens(f.data)[r + 1].field = n
         /\ Tokens(f.data)[r + 1].content = SubSeq(f.data, c.from + 1, c.post)
<1> DEFINE D == f.data
           m == f.fn
           i == f.index
<1>1. D \in Seq(Byte) /\ i \in Nat /\ i < Len(D)
  BY FrameFields
<1>2. ReadSoFar(m, D, i, r, 0)
  BY Zenon DEF Reading, Reads
<1>3. Tag(D, i).ok /\ WireType(D, i) = 2 /\ n = FieldNum(Tag(D, i).value)
  BY Zenon DEF Tag, WireType
<1>4. Whole(D, i) /\ c.from = Number(D, i).next /\ c.post = TokenEnd(D, i)
  <2>1. c = Content(f, Tag(f.data, f.index).next)
    BY Zenon DEF Tag
  <2> QED
    BY <1>3, <2>1, ContentIsToken
<1>5. Fits(m, n, 2)
  <2>1. n \in Int
    <3>1. Tag(D, i).value \in Nat
      BY <1>1, TokenParts, Zenon
    <3> QED
      BY <1>3, <3>1, FieldNumIsInt, Zenon
  <2> QED
    BY <2>1 DEF TagRefused, Fits
<1> HIDE DEF D, m, i
<1>6. ReadSoFar(m, D, TokenEnd(D, i), r + 1, 0 + Change(WireType(D, i)))
  <2>1. Fits(m, FieldNum(Tag(D, i).value), WireType(D, i))
    BY <1>3, <1>5, Zenon
  <2> QED
    BY <1>1, <1>2, <1>4, <2>1, ReadOneMore
<1>7. 0 + Change(WireType(D, i)) = 0
  BY <1>3 DEF Change
<1>8. At(D, i, r) /\ Depth(Tokens(D), r + 1) = 0
  BY <1>2 DEF ReadSoFar
<1>9. /\ Tokens(D)[r + 1].field = n
      /\ Tokens(D)[r + 1].content = Part(D, Number(D, i).next, TokenEnd(D, i))
  <2>1. /\ Tokens(D)[r + 1].field = FieldNum(Tag(D, i).value)
        /\ Tokens(D)[r + 1].content = Part(D, Number(D, i).next, TokenEnd(D, i))
    BY <1>1, <1>3, <1>4, <1>8, WholeSays, Zenon
  <2> QED
    BY <1>3, <2>1, Zenon
<1> QED
  BY <1>4, <1>6, <1>7, <1>8, <1>9, Zenon DEF Part, D, m

\* For an unknown field a skip function is called on the rest of the data.
LEMMA UnmarshalSkips ==
  ASSUME NEW f \in Frames, f.fn \in Messages, NEW r, Reading(f, r), f.index < Len(f.data),
         NEW tag, tag = ReadVarint(f.data, f.index),
         NEW n, n = FieldNum(tag.value), ~TagRefused(tag.value % 8, n),
         ~KnownField(f.fn, n), NEW skip,
         NEW s, s = Frame(skip, SubSeq(f.data, f.index + 1, Len(f.data)))
  PROVE  Skipping(f, s, r)
<1>1. s.index = 0 /\ s.depth = 0 /\ s.data = Part(f.data, f.index, Len(f.data))
  BY DEF Frame, Part
<1>2. f.index <= Len(f.data) /\ f.index \in Nat /\ f.data \in Seq(Byte)
  BY FrameFields
<1>3. UnknownAt(f, f.index)
  <2> DEFINE D == f.data
             i == f.index
             w == WireType(D, i)
             m == f.fn
  <2>1. n = FieldNum(Tag(D, i).value) /\ w = tag.value % 8
    BY Zenon DEF Tag, WireType
  <2>2. n \in Int /\ w \in Nat
    <3>1. Tag(D, i).value \in Nat /\ w \in 0..7
      BY <1>2, TokenParts
    <3> QED
      BY <2>1, <3>1, FieldNumIsInt
  <2>3. ~TagRefused(w, n) /\ n \notin Known(m)
    BY <2>1, Zenon DEF KnownField, Known
  <2> HIDE DEF D, i, w, m
  <2>4. Fits(m, n, w)
    BY <2>2, <2>3 DEF TagRefused, Fits
  <2> QED
    BY <2>1, <2>3, <2>4, Zenon DEF UnknownAt, w, D, i, m
<1>4. Reads(f, f.index, r, 0)
  BY Zenon DEF Reading
<1> QED
  BY <1>1, <1>2, <1>3, <1>4, Zenon DEF Skipping, GoesOver

-----------------------------------------------------------------------------
(* The whole of a call: the outermost Unmarshal, or the one of an embedded    *)
(* Params that it called for its last token, reads what Inner says.         *)

Inner(st, k, r) ==
    \/ Len(st) = k /\ Reading(st[k], r)
    \/ Len(st) = k + 1 /\ st[k + 1].fn \in Skips /\ Skipping(st[k], st[k + 1], r)

Said(in, au, r) == au = AuthorityOf(in.fn, Tokens(in.data), r)

Embedding(in, st, r) ==
    /\ st[2].fn = "Params"
    /\ ReadSoFar(in.fn, in.data, st[1].index, r + 1, 0)
    /\ EmbeddedRead(in.fn, Tokens(in.data), r)
    /\ OfParams(in.fn, Tokens(in.data), r + 1)
    /\ Tokens(in.data)[r + 1].content = st[2].data

Outer(in, st, au, k, r) ==
    \/ k = 1 /\ Said(in, au, r)
    \/ k = 2 /\ \E q \in Nat : Embedding(in, st, q) /\ Said(in, au, q + 1)

Outermost(in, st) == st[1].fn = in.fn /\ st[1].data = in.data

Midway(in, st, au) ==
    /\ Outermost(in, st)
    /\ \E k \in {1, 2}, r \in Nat : Inner(st, k, r) /\ Outer(in, st, au, k, r)

\* A step of the innermost calls leaves the ones around them as they are.
LEMMA MidwayKept ==
  ASSUME NEW in, NEW st, NEW su, NEW au, NEW k \in {1, 2}, NEW r \in Nat, NEW q \in Nat,
         Outermost(in, st), Outer(in, st, au, k, r), Inner(su, k, q),
         su[k].fn = st[k].fn, su[k].data = st[k].data, k = 2 => su[1] = st[1],
         k = 1 => AuthorityOf(st[1].fn, Tokens(st[1].data), q)
                    = AuthorityOf(st[1].fn, Tokens(st[1].data), r)
  PROVE  Midway(in, su, au)
<1>1. CASE k = 1
  <2>1. Said(in, au, r)
    BY <1>1 DEF Outer
  <2>2. AuthorityOf(in.fn, Tokens(in.data), q) = AuthorityOf(in.fn, Tokens(in.data), r)
    BY <1>1, Zenon DEF Outermost
  <2>3. Said(in, au, q)
    BY <2>1, <2>2, Zenon DEF Said
  <2>4. Outermost(in, su)
    BY <1>1, Zenon DEF Outermost
  <2> QED
    BY <1>1, <2>3, <2>4, Zenon DEF Midway, Outer
<1>2. CASE k = 2
  <2>1. su[1] = st[1]
    BY <1>2
  <2>2. k # 1
    BY <1>2
  <2>3. PICK p \in Nat : Embedding(in, st, p) /\ Said(in, au, p + 1)
    BY <2>2, Zenon DEF Outer
  <2>4. Embedding(in, su, p)
    BY <1>2, <2>1, <2>3, Zenon DEF Embedding
  <2>5. Outer(in, su, au, k, q)
    BY <1>2, <2>3, <2>4, Zenon DEF Outer
  <2>6. Outermost(in, su)
    BY <2>1, Zenon DEF Outermost
  <2> QED
    BY <2>5, <2>6, Zenon DEF Midway
<1> QED
  BY <1>1, <1>2

\* What is no message for the innermost Unmarshal makes the call's bytes malformed.
LEMMA NotWellFormed ==
  ASSUME NEW in, in.data \in Seq(Byte), NEW st, NEW au, NEW k \in {1, 2}, NEW r \in Nat,
         Outermost(in, st), Outer(in, st, au, k, r),
         ~IsMessage(st[k].data, Known(st[k].fn))
  PROVE  ~WellFormed(in.fn, in.data)
<1>1. CASE k = 1
  BY <1>1, WellFormedIsRead, Zenon DEF Outermost
<1>2. CASE k = 2
  <2> DEFINE T == Tokens(in.data)
  <2>1. k # 1
    BY <1>2
  <2>2. PICK p \in Nat : Embedding(in, st, p)
    BY <2>1, Zenon DEF Outer
  <2>3. /\ st[2].fn = "Params" /\ OfParams(in.fn, T, p + 1)
        /\ T[p + 1].content = st[2].data /\ At(in.data, st[1].index, p + 1)
    BY <2>2, Zenon DEF Embedding, ReadSoFar
  <2>4. Known("Params") = {}
    BY DEF Known, Fields
  <2>5. ~IsMessage(T[p + 1].content, {})
    BY <1>2, <2>3, <2>4, Zenon
  <2>6. p + 1 \in 1..Len(T)
    <3> DEFINE c == Cut(in.data)[st[1].index]
               D == in.data
               x == st[1].index
    <3>1. Len(T) = (p + 1) + Len(c) /\ x \in 0..Len(D) /\ D \in Seq(Byte)
      BY <2>3, Zenon DEF At
    <3>2. Len(c) \in Nat
      <4>1. c = Cut(D)[x]
        OBVIOUS
      <4> HIDE DEF c, D, x
      <4> QED
        BY <3>1, <4>1, CutIsSequence, LenProperties
    <3> HIDE DEF T, c
    <3> QED
      BY <3>1, <3>2
  <2>7. ~EmbeddedRead(in.fn, T, Len(T))
    BY <2>3, <2>5, <2>6, Zenon DEF EmbeddedRead
  <2> QED
    BY <2>7, WellFormedIsRead, Zenon
<1> QED
  BY <1>1, <1>2

-----------------------------------------------------------------------------
(* The inductive invariant, and the steps that keep it.                     *)

Agrees ==
    /\ outcome = "reading" => Midway(input, stack, authority)
    /\ ReadsWireFormat

\* The call in progress is the Unmarshal k, or the skip function that it called.
LEMMA InnermostCall ==
  ASSUME IInv, Agrees, outcome = "reading"
  PROVE  /\ Outermost(input, stack)
         /\ \E k \in {1, 2}, r \in Nat :
               /\ Outer(input, stack, authority, k, r)
               /\ k \in 1..Len(stack) /\ stack[k] \in Frames /\ stack[k].fn \in Messages
               /\ top.fn \in Messages => Len(stack) = k /\ top = stack[k] /\ Reading(stack[k], r)
               /\ top.fn \in Skips => Len(stack) = k + 1 /\ Skipping(stack[k], top, r)
<1>1. Midway(input, stack, authority)
  BY DEF Agrees
<1>2. PICK k \in {1, 2}, r \in Nat : Inner(stack, k, r) /\ Outer(input, stack, authority, k, r)
  BY <1>1, Zenon DEF Midway
<1>3. /\ Len(stack) \in Nat /\ Len(stack) >= 1 /\ top = stack[Len(stack)]
      /\ \A i \in 1..Len(stack) : stack[i] \in Frames
  BY TopIsFrame
<1>4. Outermost(input, stack)
  BY <1>1, Zenon DEF Midway
<1>5. Len(stack) = k \/ Len(stack) = k + 1
  BY <1>2, Zenon DEF Inner
<1>6. k \in 1..Len(stack) /\ stack[k] \in Frames
  <2>1. k \in 1..Len(stack)
    BY <1>3, <1>5
  <2> QED
    BY <1>3, <2>1, Zenon
<1>7. stack[k].fn \in Messages
  <2>1. CASE k = 1
    BY <1>4, <2>1 DEF Outermost, IInv
  <2>2. CASE k = 2
    <3>1. k # 1
      BY <2>2
    <3>2. stack[2].fn = "Params"
      BY <1>2, <3>1, Zenon DEF Outer, Embedding
    <3>3. "Params" \in Messages
      BY DEF Messages, Fields
    <3> QED
      BY <2>2, <3>2, <3>3, Zenon
  <2> QED
    BY <2>1, <2>2
<1>8. \A x : ~(x \in Messages /\ x \in Skips)
  BY FunctionNames
<1>9. ASSUME top.fn \in Messages
      PROVE  Len(stack) = k /\ top = stack[k] /\ Reading(stack[k], r)
  BY <1>2, <1>3, <1>8, <1>9, Zenon DEF Inner
<1>10. ASSUME top.fn \in Skips
       PROVE  Len(stack) = k + 1 /\ Skipping(stack[k], top, r)
  BY <1>2, <1>3, <1>7, <1>8, <1>10, Zenon DEF Inner
<1> QED
  BY <1>2, <1>4, <1>6, <1>7, <1>9, <1>10, Zenon

\* An error is right when the innermost Unmarshal has no message.
LEMMA FailAgrees ==
  ASSUME IInv, NEW k \in {1, 2}, NEW r \in Nat,
         Outermost(input, stack), Outer(input, stack, authority, k, r),
         ~IsMessage(stack[k].data, Known(stack[k].fn)),
         Fail, input' = input
  PROVE  Agrees'
<1>1. outcome' = "error" /\ "error" # "reading" /\ "error" # "ok"
  BY DEF Fail
<1>2. input.data \in Seq(Byte)
  BY DEF IInv
<1>3. ~WellFormed(input.fn, input.data)
  BY <1>2, NotWellFormed
<1>4. ReadsWireFormat'
  BY <1>1, <1>3, Zenon DEF ReadsWireFormat
<1> QED
  BY <1>1, <1>4, Zenon DEF Agrees

\* A call that goes on agrees if its calls do.
LEMMA GoingOnAgrees ==
  ASSUME outcome' = "reading", Midway(input', stack', authority')
  PROVE  Agrees'
<1>1. ReadsWireFormat'
  BY Zenon DEF ReadsWireFormat
<1> QED
  BY <1>1, Zenon DEF Agrees

\* A field that was skipped is within the data or shows that this is no message.
SkippedTo(f, e, r) ==
    /\ e > Len(f.data) => ~IsMessage(f.data, Known(f.fn))
    /\ e <= Len(f.data) =>
          /\ Reads(f, e, r + 1, 0)
          /\ AuthorityOf(f.fn, Tokens(f.data), r + 1) = AuthorityOf(f.fn, Tokens(f.data), r)

LEMMA SumOrWrap ==
  ASSUME NEW i \in Nat, i < IntEnd, NEW n \in Nat, n < IntEnd, NEW L \in Nat, L < IntEnd
  PROVE  /\ Plus(i, n) \in Int /\ i + n \in Nat
         /\ Plus(i, n) >= 0 => Plus(i, n) = i + n
         /\ i + n <= L => Plus(i, n) = i + n
<1>1. Plus(i, n) \in Int /\ (Plus(i, n) >= 0 => Plus(i, n) = i + n)
  BY PlusProperties
<1>2. i + n < IntEnd => Plus(i, n) = i + n
  BY PlusIsSum
<1>3. IntEnd \in Nat
  BY WordSizes
<1> QED
  BY <1>1, <1>2, <1>3

LEMMA ReturnSkippedAgrees ==
  ASSUME IInv, outcome = "reading",
         NEW k \in {1, 2}, NEW r \in Nat,
         Outermost(input, stack), Outer(input, stack, authority, k, r), Len(stack) = k + 1,
         stack[k] \in Frames,
         NEW n \in Nat, n < IntEnd, NEW e, e = stack[k].index + n,
         SkippedTo(stack[k], e, r),
         ReturnSkipped(n), UNCHANGED <<input, authority>>
  PROVE  Agrees'
<1> DEFINE f     == stack[k]
           L     == Len(f.data)
           after == Plus(f.index, n)
           g     == [f EXCEPT !.index = after]
           bad   == n < 0 \/ after < 0 \/ after > L
<1>1. k \in Nat /\ Len(stack) - 1 = k /\ k \in 1..k /\ Len(stack) \in Nat
  OBVIOUS
<1>2. /\ bad => Fail
      /\ ~bad => stack' = [Front(stack) EXCEPT ![k] = g] /\ outcome' = outcome
  BY <1>1, Zenon DEF ReturnSkipped
<1>3. f.index \in Nat /\ f.index < IntEnd /\ L \in Nat /\ L < IntEnd
  BY FrameFields
<1>4. /\ after \in Int /\ e \in Nat
      /\ after >= 0 => after = e
      /\ e <= L => after = e
  <2> DEFINE i == f.index
  <2>1. /\ i \in Nat /\ i < IntEnd /\ L \in Nat /\ L < IntEnd
        /\ e = i + n /\ after = Plus(i, n)
    BY <1>3, Zenon
  <2>2. /\ Plus(i, n) \in Int /\ i + n \in Nat
        /\ Plus(i, n) >= 0 => Plus(i, n) = i + n
        /\ i + n <= L => Plus(i, n) = i + n
    <3> HIDE DEF i, L
    <3> QED
      BY <2>1, SumOrWrap
  <2> HIDE DEF i, after, L
  <2> QED
    BY <2>1, <2>2, Zenon
<1> HIDE DEF after, L
<1>6. CASE bad
  <2>1. e > L
    BY <1>3, <1>4, <1>6
  <2>2. ~IsMessage(f.data, Known(f.fn))
    BY <2>1, Zenon DEF L, SkippedTo
  <2> QED
    BY <1>2, <1>6, <2>2, FailAgrees
<1>7. CASE ~bad
  <2>1. after = e /\ e <= L
    BY <1>3, <1>4, <1>7
  <2>2. /\ Reads(f, e, r + 1, 0)
        /\ AuthorityOf(f.fn, Tokens(f.data), r + 1) = AuthorityOf(f.fn, Tokens(f.data), r)
    BY <2>1, Zenon DEF L, SkippedTo
  <2>3. g.fn = f.fn /\ g.data = f.data /\ g.index = after /\ g \in Frames
    <3>1. after \in Nat /\ after < IntEnd /\ after <= L
      BY <1>3, <1>4, <2>1, WordSizes
    <3>2. g \in Frames
      BY <3>1, MovedFrame, Zenon DEF L
    <3>3. f \in [fn : Messages \cup Skips, data : Seq(Byte), index : Nat, depth : Nat]
      BY Zenon DEF Frames
    <3>4. g.fn = f.fn /\ g.data = f.data /\ g.index = after
      BY <3>3
    <3> QED
      BY <3>2, <3>4
  <2>4. Reading(g, r + 1)
    BY <2>1, <2>2, <2>3, Zenon DEF Reading, Reads
  <2>5. /\ stack' = [Front(stack) EXCEPT ![k] = g] /\ outcome' = "reading"
    BY <1>2, <1>7
  <2>6. /\ Front(stack) \in Seq(Frames) /\ Len(Front(stack)) = k
        /\ \A i \in 1..k : Front(stack)[i] = stack[i]
    BY <1>1, FrontProperties
  <2> HIDE DEF g, f, bad
  <2>7. /\ Len(stack') = k
        /\ \A i \in 1..k : stack'[i] = IF i = k THEN g ELSE Front(stack)[i]
    BY <1>1, <2>3, <2>5, <2>6, ExceptSeq
  <2>8. stack'[k] = g /\ (k = 2 => stack'[1] = stack[1])
    BY <1>1, <2>6, <2>7
  <2>9. Inner(stack', k, r + 1)
    BY <2>4, <2>7, <2>8, Zenon DEF Inner
  <2>10. stack'[k].fn = stack[k].fn /\ stack'[k].data = stack[k].data
    BY <2>3, <2>8, Zenon DEF f
  <2>11. k = 1 => AuthorityOf(stack[1].fn, Tokens(stack[1].data), r + 1)
                    = AuthorityOf(stack[1].fn, Tokens(stack[1].data), r)
    BY <2>2, Zenon DEF f
  <2>12. r + 1 \in Nat
    OBVIOUS
  <2>13. Midway(input, stack', authority)
    BY <2>8, <2>9, <2>10, <2>11, <2>12, MidwayKept
  <2> QED
    BY <2>5, <2>13, GoingOnAgrees
<1> QED
  BY <1>6, <1>7

\* What a step that goes on in the innermost call does to the stack.
LEMMA TopReplaced ==
  ASSUME IInv, outcome = "reading", NEW g \in Frames, Continue(g)
  PROVE  /\ Len(stack') = Len(stack) /\ stack'[Len(stack)] = g /\ outcome' = "reading"
         /\ \A i \in 1..Len(stack) - 1 : stack'[i] = stack[i]
<1>1. stack' = [stack EXCEPT ![Len(stack)] = g] /\ outcome' = "reading"
  BY DEF Continue
<1>2. stack \in Seq(Frames) /\ Len(stack) \in Nat /\ Len(stack) >= 1
  BY TopIsFrame DEF IInv
<1> DEFINE n == Len(stack)
<1>3. n \in 1..n /\ n \in Nat /\ n >= 1
  BY <1>2
<1>4. Len(stack') = n /\ \A i \in 1..n : stack'[i] = IF i = n THEN g ELSE stack[i]
  BY <1>1, <1>2, <1>3, ExceptSeq
<1> HIDE DEF n
<1>5. Len(stack') = n /\ stack'[n] = g /\ \A i \in 1..n - 1 : stack'[i] = stack[i]
  BY <1>3, <1>4
<1> QED
  BY <1>1, <1>5, Zenon DEF n

\* What a call does to it.
LEMMA CalleeAdded ==
  ASSUME IInv, outcome = "reading", NEW g \in Frames, NEW c \in Frames, Call(g, c)
  PROVE  /\ Len(stack') = Len(stack) + 1 /\ outcome' = "reading"
         /\ stack'[Len(stack)] = g /\ stack'[Len(stack) + 1] = c
         /\ \A i \in 1..Len(stack) - 1 : stack'[i] = stack[i]
<1> DEFINE n == Len(stack)
           t == [stack EXCEPT ![n] = g]
<1>1. stack' = Append(t, c) /\ outcome' = "reading"
  BY DEF Call
<1>2. stack \in Seq(Frames) /\ Len(stack) \in Nat /\ Len(stack) >= 1
  BY TopIsFrame DEF IInv
<1>3. n \in 1..n /\ n \in Nat /\ n >= 1
  BY <1>2
<1>4. t \in Seq(Frames) /\ Len(t) = n /\ \A i \in 1..n : t[i] = IF i = n THEN g ELSE stack[i]
  BY <1>2, <1>3, ExceptSeq
<1> HIDE DEF t, n
<1>5. Len(stack') = n + 1 /\ stack'[n + 1] = c /\ \A i \in 1..n : stack'[i] = t[i]
  BY <1>1, <1>3, <1>4
<1>6. stack'[n] = g /\ \A i \in 1..n - 1 : stack'[i] = stack[i]
  BY <1>3, <1>4, <1>5
<1> QED
  BY <1>1, <1>5, <1>6 DEF n

LEMMA SkipAgrees ==
  ASSUME IInv, Agrees, NEW file \in Skips, Skip(file)
  PROVE  Agrees'
<1> DEFINE s   == top
           tag == ReadVarint(s.data, s.index)
           n   == IndexAfter(s, tag)
           dp  == DepthAfter(s, tag)
           end == s.index >= Len(s.data)
           bad == end \/ ~tag.ok \/ CannotSkip(s, tag)
           g   == [s EXCEPT !.index = n, !.depth = dp]
<1>1. /\ outcome = "reading" /\ s.fn \in Skips /\ input' = input /\ authority' = authority
      /\ \/ bad /\ Fail
         \/ ~bad /\ dp = 0 /\ ReturnSkipped(n)
         \/ ~bad /\ dp # 0 /\ Continue(g)
  BY Zenon DEF Skip, Running
<1>2. PICK k \in {1, 2}, r \in Nat :
         /\ Outermost(input, stack) /\ Outer(input, stack, authority, k, r)
         /\ k \in 1..Len(stack) /\ stack[k] \in Frames /\ stack[k].fn \in Messages
         /\ Len(stack) = k + 1 /\ Skipping(stack[k], s, r)
  BY <1>1, InnermostCall, Zenon
<1> DEFINE f == stack[k]
           e == f.index + n
<1>3. s \in Frames
  BY <1>1, TopIsFrame
<1>4. s.index \in Nat /\ (end <=> ~HasMore(s))
  BY <1>3, FrameFields DEF HasMore
<1> HIDE DEF end
<1>5. CASE bad /\ Fail
  <2>1. ~HasMore(s) \/ ~tag.ok \/ CannotSkip(s, tag)
    BY <1>4, <1>5
  <2> HIDE DEF tag
  <2>2. ~IsMessage(f.data, Known(f.fn))
    BY <1>2, <1>3, <2>1, BadSkip, Zenon DEF tag
  <2> QED
    BY <1>1, <1>2, <1>5, <2>2, FailAgrees, Zenon
<1>6. ASSUME ~bad
      PROVE  /\ n \in Nat /\ n > s.index /\ n < IntEnd /\ dp \in Nat
             /\ e > Len(f.data) => ~IsMessage(f.data, Known(f.fn))
             /\ e <= Len(f.data) =>
                   /\ Reads(f, e, r + 1, dp)
                   /\ AuthorityOf(f.fn, Tokens(f.data), r + 1)
                        = AuthorityOf(f.fn, Tokens(f.data), r)
  <2>1. HasMore(s) /\ tag.ok /\ ~CannotSkip(s, tag)
    BY <1>4, <1>6, Zenon
  <2>2. /\ n \in Nat /\ n > s.index /\ n < IntEnd /\ dp \in Nat
    BY <1>3, <2>1, TokenProperties, Zenon
  <2>3. /\ e > Len(f.data) => ~IsMessage(f.data, Known(f.fn))
        /\ e <= Len(f.data) =>
              /\ Reads(f, e, r + 1, dp)
              /\ AuthorityOf(f.fn, Tokens(f.data), r + 1) = AuthorityOf(f.fn, Tokens(f.data), r)
    BY <1>2, <1>3, <2>1, GoodSkip, Zenon
  <2> QED
    BY <2>2, <2>3, Zenon
<1>7. CASE ~bad /\ dp = 0 /\ ReturnSkipped(n)
  <2>1. n \in Nat /\ n < IntEnd /\ SkippedTo(f, e, r)
    BY <1>6, <1>7, Zenon DEF SkippedTo
  <2> HIDE DEF n
  <2> QED
    BY <1>1, <1>2, <1>7, <2>1, ReturnSkippedAgrees, Zenon
<1>8. CASE ~bad /\ dp # 0 /\ Continue(g)
  <2>1. n \in Nat /\ n > 0 /\ n < IntEnd /\ dp \in Nat /\ dp > 0
    <3> DEFINE i == s.index
    <3>1. n \in Nat /\ n > i /\ n < IntEnd /\ dp \in Nat /\ dp # 0 /\ i \in Nat
      BY <1>4, <1>6, <1>8
    <3> HIDE DEF n, dp, i
    <3> QED
      BY <3>1
  <2>2. s.fn \notin Messages
    BY <1>1, FunctionNames
  <2>3. g \in Frames /\ g.data = s.data /\ g.index = n /\ g.depth = dp /\ g.fn = s.fn
    <3> HIDE DEF n, dp, s
    <3> QED
      BY <1>3, <2>1, <2>2 DEF Frames
  <2> HIDE DEF g
  <2>4. GoesOver(g, f)
    BY <1>2, <2>3, Zenon DEF Skipping, GoesOver
  <2>5. \E q \in Nat : /\ Skipping(f, g, q)
                       /\ AuthorityOf(f.fn, Tokens(f.data), q)
                            = AuthorityOf(f.fn, Tokens(f.data), r)
    <3>1. CASE e > Len(f.data)
      <4>1. ~IsMessage(f.data, Known(f.fn))
        BY <1>6, <1>8, <3>1
      <4>2. f.index + g.index > Len(f.data) /\ g.index > 0 /\ g.depth > 0
        BY <2>1, <2>3, <3>1
      <4>3. Skipping(f, g, r)
        BY <2>4, <4>1, <4>2, Zenon DEF Skipping
      <4> QED
        BY <1>2, <4>3, Zenon
    <3>2. CASE e <= Len(f.data)
      <4>1. /\ Reads(f, e, r + 1, dp)
            /\ AuthorityOf(f.fn, Tokens(f.data), r + 1) = AuthorityOf(f.fn, Tokens(f.data), r)
        BY <1>6, <1>8, <3>2, Zenon
      <4>2. f.index + g.index <= Len(f.data) /\ g.index > 0 /\ g.depth > 0
        BY <2>1, <2>3, <3>2
      <4>3. Reads(f, f.index + g.index, r + 1, g.depth)
        BY <2>3, <4>1, Zenon
      <4>4. Skipping(f, g, r + 1)
        BY <2>4, <4>2, <4>3, Zenon DEF Skipping
      <4>5. r + 1 \in Nat
        BY <1>2
      <4> QED
        BY <4>1, <4>4, <4>5, Zenon
    <3>3. e > Len(f.data) \/ e <= Len(f.data)
      <4>1. f.index \in Nat /\ Len(f.data) \in Nat
        BY <1>2, FrameFields
      <4> DEFINE i == f.index
                 L == Len(f.data)
      <4> HIDE DEF i, L, n
      <4> QED
        BY <2>1, <4>1 DEF i, L
    <3> QED
      BY <3>1, <3>2, <3>3, Zenon
  <2>6. PICK q \in Nat : /\ Skipping(f, g, q)
                         /\ AuthorityOf(f.fn, Tokens(f.data), q)
                              = AuthorityOf(f.fn, Tokens(f.data), r)
    BY <2>5
  <2>7. /\ Len(stack') = Len(stack) /\ stack'[Len(stack)] = g /\ outcome' = "reading"
        /\ \A i \in 1..Len(stack) - 1 : stack'[i] = stack[i]
    BY <1>1, <1>8, <2>3, TopReplaced, Zenon
  <2>8. /\ Len(stack') = k + 1 /\ stack'[k + 1] = g /\ stack'[k] = f
        /\ k = 2 => stack'[1] = stack[1]
    <3>1. k \in 1..Len(stack) - 1 /\ (k = 2 => 1 \in 1..Len(stack) - 1)
      BY <1>2
    <3> QED
      BY <1>2, <2>7, <3>1, Zenon
  <2>9. Inner(stack', k, q)
    BY <1>1, <2>3, <2>6, <2>8, Zenon DEF Inner
  <2>10. Midway(input, stack', authority)
    <3>1. k = 1 => AuthorityOf(stack[1].fn, Tokens(stack[1].data), q)
                     = AuthorityOf(stack[1].fn, Tokens(stack[1].data), r)
      BY <2>6, Zenon
    <3>2. stack'[k].fn = stack[k].fn /\ stack'[k].data = stack[k].data
      BY <2>8, Zenon
    <3> QED
      BY <1>2, <2>8, <2>9, <3>1, <3>2, MidwayKept, Zenon
  <2>11. Midway(input', stack', authority')
    BY <1>1, <2>10, Zenon
  <2> QED
    BY <2>7, <2>11, GoingOnAgrees, Zenon
<1> QED
  BY <1>1, <1>5, <1>7, <1>8, Zenon

\* The end of the outermost Unmarshal is the end of the call, and the end of an
\* embedded message is the end of its token.
LEMMA ReturnAgrees ==
  ASSUME IInv, outcome = "reading", NEW k \in {1, 2}, NEW r \in Nat,
         Outermost(input, stack), Outer(input, stack, authority, k, r), Len(stack) = k,
         NEW f \in Frames, f = stack[k], f.fn \in Messages, Reading(f, r),
         f.index >= Len(f.data), Return, input' = input, authority' = authority
  PROVE  Agrees'
<1>1. /\ stack' = Front(stack)
      /\ outcome' = IF Len(stack) = 1 THEN "ok" ELSE outcome
  <2>1. top = f
    BY DEF top
  <2>2. ~(f.index > Len(f.data))
    BY FrameFields
  <2> QED
    BY <2>1, <2>2, Zenon DEF Return
<1>2. r = Len(Tokens(f.data)) /\ WellFormed(f.fn, f.data)
  BY UnmarshalEnds
<1>3. input.data \in Seq(Byte)
  BY DEF IInv
<1>4. CASE k = 1
  <2>1. outcome' = "ok" /\ "ok" # "reading"
    BY <1>1, <1>4
  <2>2. f.fn = input.fn /\ f.data = input.data
    BY <1>4, Zenon DEF Outermost
  <2>3. authority = AuthorityOf(input.fn, Tokens(input.data), r)
    BY <1>4 DEF Outer, Said
  <2>4. authority = SaidAuthority(input.fn, input.data)
    BY <1>2, <1>3, <2>2, <2>3, SaidIsLast, Zenon
  <2>5. WellFormed(input.fn, input.data)
    BY <1>2, <2>2, Zenon
  <2>6. ReadsWireFormat'
    BY <2>1, <2>4, <2>5, Zenon DEF ReadsWireFormat
  <2> QED
    BY <2>1, <2>6, Zenon DEF Agrees
<1>5. CASE k = 2
  <2> DEFINE m == input.fn
             T == Tokens(input.data)
  <2>1. outcome' = "reading" /\ k # 1
    BY <1>1, <1>5
  <2>2. PICK p \in Nat : Embedding(input, stack, p) /\ Said(input, authority, p + 1)
    BY <2>1, Zenon DEF Outer
  <2>3. IsMessage(T[p + 1].content, {})
    <3>1. f.fn = "Params" /\ T[p + 1].content = f.data
      BY <1>5, <2>2, Zenon DEF Embedding
    <3>2. IsMessage(f.data, Known("Params"))
      BY <1>2, <3>1, Zenon DEF WellFormed
    <3>3. Known("Params") = {}
      BY DEF Known, Fields
    <3> QED
      BY <3>1, <3>2, <3>3, Zenon
  <2>4. EmbeddedRead(m, T, p + 1)
    <3>1. EmbeddedRead(m, T, p)
      BY <2>2, Zenon DEF Embedding
    <3> HIDE DEF m, T
    <3> QED
      BY <2>3, <3>1, EmbeddedReadOn
  <2>5. Len(stack') = 1 /\ stack'[1] = stack[1]
    <3>1. Len(stack) - 1 = 1 /\ 1 \in 1..Len(stack) - 1
      BY <1>5
    <3> QED
      BY <1>1, <3>1, FrontProperties, Zenon
  <2>6. Outermost(input, stack')
    BY <2>5, Zenon DEF Outermost
  <2>7. Reading(stack'[1], p + 1)
    BY <2>2, <2>4, <2>5, <2>6, Zenon DEF Reading, Reads, Embedding, Outermost
  <2>8. Inner(stack', 1, p + 1) /\ Outer(input, stack', authority, 1, p + 1)
    BY <2>2, <2>5, <2>7, Zenon DEF Inner, Outer
  <2>9. Midway(input, stack', authority)
    <3>1. p + 1 \in Nat /\ 1 \in {1, 2}
      OBVIOUS
    <3> QED
      BY <2>6, <2>8, <3>1, Zenon DEF Midway
  <2> QED
    BY <2>1, <2>9, GoingOnAgrees, Zenon
<1> QED
  BY <1>4, <1>5

\* A known field that Unmarshal takes: the token r + 1, of which it has the end.
Takes(f, post, part, n, r) ==
    /\ ReadSoFar(f.fn, f.data, post, r + 1, 0)
    /\ Depth(Tokens(f.data), r + 1) = 0
    /\ Tokens(f.data)[r + 1].field = n
    /\ Tokens(f.data)[r + 1].content = part
    /\ n \in Known(f.fn)

\* A message with a known field is not a Params: the call is the outermost one.
LEMMA TakenByOutermost ==
  ASSUME NEW st, NEW k \in {1, 2}, NEW r, NEW au, Outermost(input, st),
         Outer(input, st, au, k, r), NEW n, n \in Known(st[k].fn)
  PROVE  k = 1 /\ Said(input, au, r) /\ st[k].fn = input.fn /\ st[k].data = input.data
<1>1. k = 1
  <2>1. CASE k = 2
    <3>1. st[k].fn = "Params" /\ k # 1
      BY <2>1 DEF Outer, Embedding
    <3> QED
      BY <3>1 DEF Known, Fields
  <2> QED
    BY <2>1
<1>2. k # 2
  BY <1>1
<1> QED
  BY <1>1, <1>2, Zenon DEF Outer, Outermost

LEMMA AuthorityAgrees ==
  ASSUME IInv, outcome = "reading", NEW k \in {1, 2}, NEW r \in Nat,
         Outermost(input, stack), Outer(input, stack, authority, k, r), Len(stack) = k,
         NEW f \in Frames, f = stack[k], f.fn \in Messages, Reading(f, r),
         NEW post, NEW part, NEW n, Takes(f, post, part, n, r), Fields[f.fn][n] # "params",
         NEW g \in Frames, g.fn = f.fn, g.data = f.data, g.index = post,
         Continue(g), input' = input, authority' = part
  PROVE  Agrees'
<1> DEFINE m == f.fn
           T == Tokens(f.data)
<1>1. n \in Known(m)
  BY Zenon DEF Takes
<1>2. k = 1 /\ f.fn = input.fn /\ f.data = input.data
  BY <1>1, TakenByOutermost
<1>3. HasAuthority(m) /\ n = 1
  BY <1>1, FieldNames, Zenon
<1>4. AuthorityOf(m, T, r + 1) = part
  <2>1. /\ Depth(T, r + 1) = 0 /\ T[r + 1].field = 1 /\ T[r + 1].content = part
    BY <1>3, Zenon DEF Takes
  <2> HIDE DEF m, T
  <2> QED
    BY <1>3, <2>1, AuthoritySaid, Zenon
<1>5. EmbeddedRead(m, T, r + 1)
  <2>1. EmbeddedRead(m, T, r)
    BY Zenon DEF Reading, Reads
  <2>2. ~OfParams(m, T, r + 1)
    BY Zenon DEF OfParams, Takes
  <2> HIDE DEF m, T
  <2> QED
    BY <2>1, <2>2, EmbeddedReadOn, Zenon
<1>6. Reading(g, r + 1)
  BY <1>5, Zenon DEF Reading, Reads, Takes
<1>7. Len(stack') = 1 /\ stack'[1] = g /\ outcome' = "reading"
  BY <1>2, TopReplaced, Zenon
<1>8. Inner(stack', 1, r + 1) /\ Outer(input, stack', part, 1, r + 1)
  BY <1>2, <1>4, <1>6, <1>7, Zenon DEF Inner, Outer, Said
<1>9. Outermost(input, stack')
  BY <1>2, <1>7, Zenon DEF Outermost
<1>10. Midway(input, stack', part)
  <2>1. r + 1 \in Nat /\ 1 \in {1, 2}
    OBVIOUS
  <2> QED
    BY <1>8, <1>9, <2>1, Zenon DEF Midway
<1> QED
  BY <1>7, <1>10, GoingOnAgrees, Zenon

LEMMA EmbeddedAgrees ==
  ASSUME IInv, outcome = "reading", NEW k \in {1, 2}, NEW r \in Nat,
         Outermost(input, stack), Outer(input, stack, authority, k, r), Len(stack) = k,
         NEW f \in Frames, f = stack[k], f.fn \in Messages, Reading(f, r),
         NEW post, NEW part \in Seq(Byte), NEW n, Takes(f, post, part, n, r),
         Fields[f.fn][n] = "params",
         NEW g \in Frames, g.fn = f.fn, g.data = f.data, g.index = post,
         NEW c \in Frames, c = Frame("Params", part),
         Call(g, c), input' = input, authority' = authority
  PROVE  Agrees'
<1> DEFINE m == f.fn
           T == Tokens(f.data)
<1>1. n \in Known(m)
  BY Zenon DEF Takes
<1>2. k = 1 /\ Said(input, authority, r) /\ f.fn = input.fn /\ f.data = input.data
  BY <1>1, TakenByOutermost
<1>3. AuthorityOf(m, T, r + 1) = AuthorityOf(m, T, r)
  <2>1. HasAuthority(m) => Fields[m][1] = "authority"
    BY FieldNames, Zenon
  <2>2. "authority" # "params" /\ T[r + 1].field = n
    BY Zenon DEF Takes
  <2>3. HasAuthority(m) => ~(Depth(T, r + 1) = 0 /\ T[r + 1].field = 1)
    BY <2>1, <2>2, Zenon
  <2> HIDE DEF m, T
  <2> QED
    BY <2>3, AuthorityUnsaid, Zenon
<1>4. /\ Len(stack') = 2 /\ stack'[1] = g /\ stack'[2] = c /\ outcome' = "reading"
  <2>1. Len(stack) = 1 /\ 1 + 1 = 2
    BY <1>2
  <2> QED
    BY <2>1, CalleeAdded, Zenon
<1>5. c.fn = "Params" /\ c.data = part /\ c.index = 0
  BY DEF Frame
<1>6. Reading(c, 0)
  <2>1. ReadSoFar(c.fn, c.data, 0, 0, 0)
    BY <1>5, ReadNothing, Zenon
  <2>2. EmbeddedRead(c.fn, Tokens(c.data), 0)
    BY DEF EmbeddedRead
  <2> QED
    BY <1>5, <2>1, <2>2, Zenon DEF Reading, Reads
<1>7. Embedding(input, stack', r)
  <2>1. EmbeddedRead(m, T, r)
    BY Zenon DEF Reading, Reads
  <2>2. OfParams(m, T, r + 1)
    BY Zenon DEF OfParams, Takes
  <2>3. ReadSoFar(m, f.data, post, r + 1, 0) /\ T[r + 1].content = part
    BY Zenon DEF Takes
  <2> QED
    BY <1>2, <1>4, <1>5, <2>1, <2>2, <2>3, Zenon DEF Embedding
<1>8. Said(input, authority, r + 1)
  BY <1>2, <1>3, Zenon DEF Said
<1>9. Inner(stack', 2, 0) /\ Outer(input, stack', authority, 2, 0)
  BY <1>4, <1>6, <1>7, <1>8, Zenon DEF Inner, Outer
<1>10. Outermost(input, stack')
  BY <1>2, <1>4, Zenon DEF Outermost
<1>11. Midway(input, stack', authority)
  <2>1. 0 \in Nat /\ 2 \in {1, 2}
    OBVIOUS
  <2> QED
    BY <1>9, <1>10, <2>1, Zenon DEF Midway
<1> QED
  BY <1>4, <1>11, GoingOnAgrees, Zenon

LEMMA UnknownAgrees ==
  ASSUME IInv, outcome = "reading", NEW k \in {1, 2}, NEW r \in Nat,
         Outermost(input, stack), Outer(input, stack, authority, k, r), Len(stack) = k,
         NEW f \in Frames, f = stack[k], NEW s \in Frames, s.fn \in Skips, Skipping(f, s, r),
         Call(f, s), input' = input, authority' = authority
  PROVE  Agrees'
<1>1. /\ Len(stack') = k + 1 /\ stack'[k] = f /\ stack'[k + 1] = s /\ outcome' = "reading"
      /\ \A i \in 1..k - 1 : stack'[i] = stack[i]
  BY CalleeAdded, Zenon
<1>2. k = 2 => stack'[1] = stack[1]
  BY <1>1
<1>3. Inner(stack', k, r)
  BY <1>1, Zenon DEF Inner
<1>4. stack'[k].fn = stack[k].fn /\ stack'[k].data = stack[k].data
  BY <1>1, Zenon
<1>5. Midway(input, stack', authority)
  BY <1>2, <1>3, <1>4, MidwayKept, Zenon
<1> QED
  BY <1>1, <1>5, GoingOnAgrees, Zenon

LEMMA UnmarshalAgrees ==
  ASSUME IInv, Agrees, NEW message \in Messages, NEW skip \in Skips, Unmarshal(message, skip)
  PROVE  Agrees'
<1> DEFINE f        == top
           tag      == ReadVarint(f.data, f.index)
           fieldNum == FieldNum(tag.value)
           wireType == tag.value % 8
           known    == KnownField(message, fieldNum)
           content  == Content(f, tag.next)
           refused  == \/ ~tag.ok \/ TagRefused(wireType, fieldNum)
                       \/ known /\ (wireType # 2 \/ ~content.ok)
           isParams == Fields[message][fieldNum] = "params"
           part     == SubSeq(f.data, content.from + 1, content.post)
           g        == [f EXCEPT !.index = content.post]
           rest     == SubSeq(f.data, f.index + 1, Len(f.data))
<1>1. /\ outcome = "reading" /\ top.fn = message /\ input' = input
      /\ \/ f.index >= Len(f.data) /\ Return /\ UNCHANGED authority
         \/ f.index < Len(f.data) /\ refused /\ Fail /\ UNCHANGED authority
         \/ /\ f.index < Len(f.data) /\ ~refused /\ known
            /\ IF isParams THEN EmbeddedParams(f, content) ELSE AuthorityField(f, content)
         \/ f.index < Len(f.data) /\ ~refused /\ ~known /\ UnknownField(f, skip)
  BY Zenon DEF Unmarshal, Running
<1>2. f \in Frames /\ f.fn \in Messages
  BY <1>1, TopIsFrame
<1>3. PICK k \in {1, 2}, r \in Nat :
         /\ Outermost(input, stack) /\ Outer(input, stack, authority, k, r)
         /\ Len(stack) = k /\ f = stack[k] /\ Reading(f, r)
  BY <1>1, <1>2, InnermostCall, Zenon
<1>4. /\ f.data \in Seq(Byte) /\ f.index \in Nat /\ Len(f.data) \in Nat
      /\ Len(f.data) < IntEnd
  BY <1>2, FrameFields
<1>5. CASE f.index >= Len(f.data) /\ Return /\ UNCHANGED authority
  <2> HIDE DEF f
  <2> QED
    BY <1>1, <1>2, <1>3, <1>5, ReturnAgrees
<1>6. CASE f.index < Len(f.data) /\ refused /\ Fail /\ UNCHANGED authority
  <2>1. \/ ~tag.ok
        \/ TagRefused(wireType, fieldNum)
        \/ KnownField(f.fn, fieldNum) /\ (wireType # 2 \/ ~Content(f, tag.next).ok)
    BY <1>1, <1>6, Zenon
  <2>2. ~IsMessage(f.data, Known(f.fn))
    BY <1>2, <1>3, <1>6, <2>1, UnmarshalRefuses, Zenon
  <2>3. ~IsMessage(stack[k].data, Known(stack[k].fn))
    BY <1>3, <2>2, Zenon
  <2> QED
    BY <1>1, <1>3, <1>6, <2>3, FailAgrees, Zenon
<1>7. CASE /\ f.index < Len(f.data) /\ ~refused /\ known
           /\ IF isParams THEN EmbeddedParams(f, content) ELSE AuthorityField(f, content)
  <2>1. tag.ok /\ wireType = 2 /\ ~TagRefused(2, fieldNum) /\ content.ok
    BY <1>7, Zenon
  <2>2. Takes(f, content.post, part, fieldNum, r)
    <3>1. /\ ReadSoFar(f.fn, f.data, content.post, r + 1, 0)
          /\ Depth(Tokens(f.data), r + 1) = 0
          /\ Tokens(f.data)[r + 1].field = fieldNum
          /\ Tokens(f.data)[r + 1].content = SubSeq(f.data, content.from + 1, content.post)
      <4>1. /\ tag = ReadVarint(f.data, f.index) /\ tag.ok /\ tag.value % 8 = 2
            /\ fieldNum = FieldNum(tag.value) /\ ~TagRefused(2, fieldNum)
            /\ content = Content(f, tag.next) /\ content.ok
        BY <2>1, Zenon
      <4>2. f \in Frames /\ f.fn \in Messages /\ Reading(f, r) /\ f.index < Len(f.data)
        BY <1>2, <1>3, <1>7, Zenon
      <4> HIDE DEF f, tag, fieldNum, content
      <4> QED
        BY <4>1, <4>2, UnmarshalTakes
    <3>2. fieldNum \in Known(f.fn)
      BY <1>1, <1>7, Zenon DEF KnownField, Known
    <3> QED
      BY <3>1, <3>2, Zenon DEF Takes
  <2>3. tag.next \in Nat /\ content.ok
    BY <1>4, <2>1, ReadVarintProperties
  <2> HIDE DEF tag
  <2>4. /\ content.from \in Nat /\ content.post \in Nat /\ content.post <= Len(f.data)
    BY <1>2, <2>3, ContentProperties
  <2> HIDE DEF content
  <2>5. content.post < IntEnd
    BY <1>4, <2>4, WordSizes
  <2>6. part \in Seq(Byte) /\ Len(part) < IntEnd
    <3> DEFINE from == content.from
               post == content.post
               D    == f.data
               E    == Len(D)
    <3>1. /\ D \in Seq(Byte) /\ from \in Nat /\ post \in Nat /\ post <= Len(D)
          /\ E \in Nat /\ E < IntEnd /\ E = Len(D)
      BY <1>4, <2>4
    <3> HIDE DEF from, post, D, E
    <3>2. SubSeq(D, from + 1, post) \in Seq(Byte) /\ Len(SubSeq(D, from + 1, post)) <= Len(D)
      BY <3>1, PartProperties
    <3>3. Len(SubSeq(D, from + 1, post)) \in Nat
      BY <3>2
    <3> DEFINE l == Len(SubSeq(D, from + 1, post))
    <3>4. l \in Nat /\ l <= E
      BY <3>1, <3>2, <3>3, Zenon
    <3>5. l < IntEnd
      <4> HIDE DEF l
      <4> QED
        BY <3>1, <3>4, WordSizes
    <3> QED
      BY <3>2, <3>5, Zenon DEF from, post, D
  <2>7. g \in Frames /\ g.fn = f.fn /\ g.index = content.post
    BY <1>2, <2>4, <2>5, MovedFrame
  <2>8. g.data = f.data
    <3>1. f \in [fn : Messages \cup Skips, data : Seq(Byte), index : Nat, depth : Nat]
      BY <1>2, Zenon DEF Frames
    <3> HIDE DEF f
    <3> QED
      BY <3>1
  <2>9. CASE isParams /\ EmbeddedParams(f, content)
    <3> DEFINE c == Frame("Params", part)
    <3>1. Call(g, c) /\ authority' = authority
      BY <2>9, Zenon DEF EmbeddedParams
    <3>2. c \in Frames
      <4>1. "Params" \in Messages \cup Skips
        BY DEF Messages, Fields
      <4> HIDE DEF part
      <4> QED
        BY <2>6, <4>1, NewFrame
    <3>3. Fields[f.fn][fieldNum] = "params"
      BY <1>1, <2>9, Zenon
    <3> DEFINE p == content.post
    <3>4. Takes(f, p, part, fieldNum, r) /\ g.index = p
      BY <2>2, <2>7, Zenon
    <3> HIDE DEF c, part, g, p, fieldNum, f
    <3> QED
      BY <1>1, <1>2, <1>3, <2>6, <2>7, <2>8, <3>1, <3>2, <3>3, <3>4, EmbeddedAgrees, Zenon DEF c
  <2>10. CASE ~isParams /\ AuthorityField(f, content)
    <3>1. Continue(g) /\ authority' = part
      BY <2>10, Zenon DEF AuthorityField
    <3>2. Fields[f.fn][fieldNum] # "params"
      BY <1>1, <2>10, Zenon
    <3> DEFINE p == content.post
    <3>3. Takes(f, p, part, fieldNum, r) /\ g.index = p
      BY <2>2, <2>7, Zenon
    <3> HIDE DEF part, g, p, fieldNum, f
    <3> QED
      BY <1>1, <1>2, <1>3, <2>7, <2>8, <3>1, <3>2, <3>3, AuthorityAgrees, Zenon
  <2> QED
    BY <1>7, <2>9, <2>10, Zenon
<1>8. CASE f.index < Len(f.data) /\ ~refused /\ ~known /\ UnknownField(f, skip)
  <2> DEFINE s == Frame(skip, rest)
  <2>1. Call(f, s) /\ authority' = authority
    BY <1>8, Zenon DEF UnknownField
  <2>2. rest \in Seq(Byte) /\ Len(rest) < IntEnd
    <3>1. rest \in Seq(Byte) /\ Len(rest) <= Len(f.data)
      BY <1>4, PartProperties
    <3> HIDE DEF rest
    <3> QED
      BY <1>4, <3>1, WordSizes
  <2>3. s \in Frames /\ s.fn \in Skips
    <3> HIDE DEF rest
    <3>1. skip \in Messages \cup Skips
      OBVIOUS
    <3>2. s \in Frames /\ s.fn = skip
      BY <2>2, <3>1, NewFrame
    <3> QED
      BY <3>2, Zenon
  <2>4. Skipping(f, s, r)
    <3>1. ~TagRefused(tag.value % 8, fieldNum) /\ ~KnownField(f.fn, fieldNum)
      BY <1>1, <1>8, Zenon
    <3>2. f.index < Len(f.data)
      BY <1>8
    <3> QED
      BY <1>2, <1>3, <3>1, <3>2, UnmarshalSkips, Zenon
  <2> HIDE DEF s, f
  <2> QED
    BY <1>1, <1>2, <1>3, <2>1, <2>3, <2>4, UnknownAgrees, Zenon
<1> QED
  BY <1>1, <1>5, <1>6, <1>7, <1>8, Zenon

-----------------------------------------------------------------------------
(* The theorems.                                                            *)

LEMMA InitAgrees == Init => Agrees
<1> SUFFICES ASSUME Init
             PROVE  Agrees
  OBVIOUS
<1> DEFINE f == Frame(input.fn, input.data)
<1>1. stack = <<f>> /\ authority = NoBytes /\ outcome = "reading"
  BY DEF Init
<1>2. input.data \in Seq(Byte)
  BY CodecAssumption DEF Init
<1>3. f.fn = input.fn /\ f.data = input.data /\ f.index = 0
  BY DEF Frame
<1> HIDE DEF f
<1>4. Len(stack) = 1 /\ stack[1] = f
  BY <1>1
<1>5. ReadSoFar(f.fn, f.data, 0, 0, 0)
  BY <1>2, <1>3, ReadNothing, Zenon
<1>6. EmbeddedRead(f.fn, Tokens(f.data), 0)
  BY DEF EmbeddedRead
<1>7. Reading(f, 0)
  BY <1>3, <1>5, <1>6, Zenon DEF Reading, Reads
<1>8. AuthorityOf(input.fn, Tokens(input.data), 0) = NoBytes
  <2>1. OfAuthority(Tokens(input.data), 0) = {}
    BY DEF OfAuthority
  <2> QED
    BY <2>1, Zenon DEF AuthorityOf
<1>9. Inner(stack, 1, 0) /\ Outer(input, stack, authority, 1, 0)
  BY <1>1, <1>4, <1>7, <1>8, Zenon DEF Inner, Outer, Said
<1>10. Midway(input, stack, authority)
  <2>1. Outermost(input, stack)
    BY <1>3, <1>4, Zenon DEF Outermost
  <2>2. 0 \in Nat /\ 1 \in {1, 2}
    OBVIOUS
  <2> QED
    BY <1>9, <2>1, <2>2, Zenon DEF Midway
<1> QED
  BY <1>1, <1>10, Zenon DEF Agrees, ReadsWireFormat

LEMMA NextKeepsAgrees ==
  ASSUME IInv, Agrees, [Next]_vars
  PROVE  Agrees'
<1>1. CASE \/ UnmarshalMsgUpdateParams \/ UnmarshalMsgUpdateParamsResponse
           \/ UnmarshalGenesisState    \/ UnmarshalParams
           \/ UnmarshalQueryParamsRequest \/ UnmarshalQueryParamsResponse
           \/ UnmarshalModule
  <2>1. \E message \in Messages, skip \in Skips : Unmarshal(message, skip)
    <3>1. /\ {"MsgUpdateParams", "MsgUpdateParamsResponse", "GenesisState", "Params",
              "QueryParamsRequest", "QueryParamsResponse", "Module"} \subseteq Messages
          /\ {"skipTx", "skipGenesis", "skipParams", "skipQuery", "skipModule"} \subseteq Skips
      BY DEF Messages, Fields, Skips
    <3> QED
      BY <1>1, <3>1, Zenon DEF UnmarshalMsgUpdateParams, UnmarshalMsgUpdateParamsResponse,
         UnmarshalGenesisState, UnmarshalParams, UnmarshalQueryParamsRequest,
         UnmarshalQueryParamsResponse, UnmarshalModule
  <2> QED
    BY <2>1, UnmarshalAgrees
<1>2. CASE skipTx \/ skipGenesis \/ skipParams \/ skipQuery \/ skipModule
  <2>1. \E file \in Skips : Skip(file)
    BY <1>2, Zenon DEF skipTx, skipGenesis, skipParams, skipQuery, skipModule, Skips
  <2> QED
    BY <2>1, SkipAgrees
<1>3. CASE Returned \/ UNCHANGED vars
  <2>1. UNCHANGED <<input, stack, authority, outcome>>
    BY <1>3, Zenon DEF Returned, vars
  <2> QED
    BY <2>1, Zenon DEF Agrees, ReadsWireFormat
<1> QED
  BY <1>1, <1>2, <1>3, Zenon DEF Next

\* Whatever the bytes are and however wide a word is, Unmarshal takes exactly
\* the messages of the wire format, and the last authority that they say: while
\* it reads, its loops and the skip functions have read the first tokens of the
\* bytes, all of them whole, fitting and balanced, and an embedded Params is the
\* content of the last of them.
THEOREM TakesTheWireFormat == Spec => []ReadsWireFormat
<1>1. Init => IInv /\ Agrees
  BY InitIInv, InitAgrees
<1>2. IInv /\ Agrees /\ [Next]_vars => (IInv /\ Agrees)'
  BY NextKeepsIInv, NextKeepsAgrees
<1>3. IInv /\ Agrees => ReadsWireFormat
  BY DEF Agrees
<1> QED
  BY <1>1, <1>2, <1>3, PTL DEF Spec

-----------------------------------------------------------------------------
(* What the encoders write is read back.                                    *)

LEMMA PartFrom ==
  ASSUME NEW s \in Seq(Byte), NEW a \in Nat, NEW n \in Nat, NEW b \in Nat, b = a + n, b <= Len(s)
  PROVE  /\ Part(s, a, b) \in Seq(Byte) /\ Len(Part(s, a, b)) = n
         /\ \A k \in 1..n : Part(s, a, b)[k] = s[a + k]
<1>1. b \in Nat /\ a <= b /\ b - a = n
  OBVIOUS
<1>2. /\ Part(s, a, b) \in Seq(Byte) /\ Len(Part(s, a, b)) = b - a
      /\ \A k \in 1..b - a : Part(s, a, b)[k] = s[a + k]
  BY <1>1, PartElements
<1> QED
  BY <1>1, <1>2, Zenon

\* The part of s from a on that is t.
PartAt(s, a, t, n) == n = Len(t) /\ \A k \in 1..n : s[a + k] = t[k]

LEMMA PartIs ==
  ASSUME NEW s \in Seq(Byte), NEW a \in Nat, NEW t \in Seq(Byte), NEW n \in Nat,
         PartAt(s, a, t, n), NEW b \in Nat, b = a + n, b <= Len(s)
  PROVE  Part(s, a, b) = t
<1> DEFINE u == Part(s, a, b)
<1>1. u \in Seq(Byte) /\ Len(u) = n /\ \A k \in 1..n : u[k] = s[a + k]
  BY PartFrom
<1> HIDE DEF u
<1>2. Len(t) = n /\ \A k \in 1..n : u[k] = t[k]
  BY <1>1, Zenon DEF PartAt
<1>3. u = t
  BY <1>1, <1>2
<1> QED
  BY <1>3 DEF u

LEMMA SmallGroups ==
  ASSUME NEW v \in Nat, v < 128
  PROVE  Groups(v) = <<v>> /\ v < WordEnd
<1>1. v < WordEnd
  <2>1. WordBits - 1 \in 0..WordBits + 6 /\ (WordBits - 1) + 1 = WordBits
    BY WireAssumption
  <2>2. 7 \in Nat /\ WordBits \in Nat /\ 7 <= WordBits /\ WordBits <= WordBits + 7
    BY WireAssumption
  <2>3. 2^7 <= 2^WordBits
    BY <2>2, PowersAreOrdered
  <2>4. 2^7 = 128
    OBVIOUS
  <2> QED
    BY <2>3, <2>4, WordSizes DEF WordEnd
<1>2. IsCount(v, 1)
  <2>1. 1 \in 1..MaxVarintBytes
    BY MaxVarintBytesIsNat
  <2>2. 2^(7 * 1) = 128
    OBVIOUS
  <2> QED
    BY <2>1, <2>2 DEF IsCount
<1>3. sov(v) = 1
  BY <1>1, <1>2, SovIsCount, CountIsOne
<1>4. /\ Groups(v) \in Seq(Byte) /\ Len(Groups(v)) = 1
      /\ \A k \in 1..1 : /\ Groups(v)[k] % 128 = (v \div 2^(7 * (k - 1))) % 128
                         /\ Groups(v)[k] < 128 <=> k = 1
  BY <1>1, <1>3, GroupsAreWritten
<1> DEFINE g == Groups(v)
           b == g[1]
<1>5. b \in Byte /\ b % 128 = v /\ b < 128
  <2>1. 1 \in 1..1 /\ 2^(7 * (1 - 1)) = 1 /\ v \div 1 = v /\ v % 128 = v
    OBVIOUS
  <2>2. b % 128 = (v \div 2^(7 * (1 - 1))) % 128 /\ b < 128
    BY <1>4, <2>1
  <2>3. b \in Byte
    <3> HIDE DEF g
    <3> QED
      BY <1>4 DEF g
  <2> QED
    BY <2>1, <2>2, <2>3, Zenon
<1> HIDE DEF b
<1>6. b = v
  BY <1>5 DEF Byte
<1> HIDE DEF g
<1>7. g = <<v>>
  BY <1>4, <1>6 DEF g, b
<1> QED
  BY <1>1, <1>7 DEF g

\* The field numbers of the messages fit into int32.
LEMMA SmallField ==
  ASSUME NEW w \in {10, 18}
  PROVE  FieldNum(w) = w \div 8
<1> DEFINE x == w \div 8
           P == 2^FieldBits
           Q == 2^(FieldBits - 1)
<1>1. x \in Nat /\ x < 4
  OBVIOUS
<1>2. P \in Int /\ Q \in Int /\ P >= 8 /\ P = 2 * Q
  <2>1. /\ FieldBits - 3 \in Nat /\ (FieldBits - 3) + 3 = FieldBits
        /\ (FieldBits - 3) + 3 <= WordBits /\ FieldBits \in Nat /\ FieldBits - 1 \in Nat
        /\ FieldBits - 1 \in 0..WordBits + 6 /\ (FieldBits - 1) + 1 = FieldBits
    BY WireAssumption
  <2>2. 2^FieldBits \in Int /\ 2^FieldBits >= 8
    BY <2>1, PowersGrow
  <2>3. 2^FieldBits = 2 * 2^(FieldBits - 1)
    BY <2>1, PowersOfTwo
  <2>4. 2^(FieldBits - 1) \in Int
    BY <2>1
  <2> QED
    BY <2>2, <2>3, <2>4
<1>3. FieldNum(w) = IF (x % P) >= Q THEN (x % P) - P ELSE x % P
  BY DEF FieldNum, Signed
<1> HIDE DEF x, P, Q
<1>4. x % P = x /\ x < Q
  BY <1>1, <1>2
<1>5. FieldNum(w) = x
  BY <1>1, <1>2, <1>3, <1>4
<1> QED
  BY <1>5 DEF x

\* The rest of the data is these bytes.
Ahead(data, p, bytes) ==
    /\ p \in Nat /\ p + Len(bytes) = Len(data)
    /\ \A k \in 1..Len(bytes) : data[p + k] = bytes[k]

PartsOf(p, n, l, o, L, X, e) ==
    /\ p \in Nat /\ n \in Nat /\ n >= 1 /\ l \in Nat /\ o \in Nat /\ L \in Nat /\ X \in Nat
    /\ X = 1 + n + l + o /\ p + X = L /\ e \in Nat /\ e = p + 1 + n + l

PartsFit(p, n, l, o, L, X, e) ==
    /\ e + o = L /\ p < L /\ e <= L /\ p + 1 <= L /\ (p + 1) + n <= L
    /\ 1 \in 1..X
    /\ \A k \in 1..n : 1 + k \in 1..X /\ p + (1 + k) = p + 1 + k
    /\ \A k \in 1..l : 1 + n + k \in 1..X /\ p + (1 + n + k) = p + 1 + n + k
    /\ \A k \in 1..o : 1 + n + l + k \in 1..X /\ p + (1 + n + l + k) = e + k
    /\ p + 1 \in Nat /\ p + 1 + n \in Nat /\ (p + 1) + n \in Nat

LEMMA PartsAddUp ==
  ASSUME NEW p, NEW n, NEW l, NEW o, NEW L, NEW X, NEW e, PartsOf(p, n, l, o, L, X, e)
  PROVE  PartsFit(p, n, l, o, L, X, e)
BY DEF PartsOf, PartsFit

\* From p on the data is an encoded field and others, which begin at e.
EncodedAt(data, p, tag, content, others, l, n, e) ==
    /\ data \in Seq(Byte) /\ p \in Nat /\ tag \in {10, 18}
    /\ content \in Seq(Byte) /\ others \in Seq(Byte)
    /\ l \in Nat /\ l = Len(content) /\ l < IntEnd
    /\ Ahead(data, p, Encoded(tag, content, others))
    /\ n \in Nat /\ n = sov(l) /\ e \in Nat /\ e = p + 1 + n + l

LEMMA EncodedIsToken ==
  ASSUME NEW data, NEW p, NEW tag, NEW content, NEW others, NEW l, NEW n, NEW e,
         EncodedAt(data, p, tag, content, others, l, n, e)
  PROVE  /\ p < Len(data) /\ e <= Len(data)
         /\ Tag(data, p) = [ok |-> TRUE, next |-> p + 1, value |-> tag]
         /\ Number(data, p) = [ok |-> TRUE, next |-> p + 1 + n, value |-> l]
         /\ Part(data, p + 1 + n, e) = content
         /\ Ahead(data, e, others)
<1> SUFFICES ASSUME data \in Seq(Byte), p \in Nat, tag \in {10, 18},
                    content \in Seq(Byte), others \in Seq(Byte),
                    l \in Nat, l = Len(content), l < IntEnd,
                    Ahead(data, p, Encoded(tag, content, others)),
                    n \in Nat, n = sov(l), e \in Nat, e = p + 1 + n + l
             PROVE  /\ p < Len(data) /\ e <= Len(data)
                    /\ Tag(data, p) = [ok |-> TRUE, next |-> p + 1, value |-> tag]
                    /\ Number(data, p) = [ok |-> TRUE, next |-> p + 1 + n, value |-> l]
                    /\ Part(data, p + 1 + n, e) = content
                    /\ Ahead(data, e, others)
  BY Zenon DEF EncodedAt
<1> DEFINE x == Encoded(tag, content, others)
           X == Len(x)
           o == Len(others)
           L == Len(data)
           g == Groups(l)
<1>1. tag \in Byte /\ tag \in Nat /\ tag < 128 /\ o \in Nat /\ L \in Nat /\ l \in Nat
  BY DEF Byte
<1>2. l < WordEnd
  BY <1>1, WordSizes
<1>3. HasParts(x, tag, g, n, content, l, others)
  BY <1>1, <1>2, EncodedParts
<1>4. /\ X = 1 + n + l + o /\ n \in Nat /\ n >= 1
      /\ x[1] = tag
      /\ \A k \in 1..n : x[1 + k] = g[k]
      /\ \A k \in 1..l : x[1 + n + k] = content[k]
      /\ \A k \in 1..o : x[1 + n + l + k] = others[k]
  BY <1>3, Zenon DEF HasParts
<1>0. X \in Nat /\ o \in Nat /\ L \in Nat
  <2>1. x \in Seq(Byte)
    BY <1>3, Zenon DEF HasParts
  <2> QED
    BY <2>1
<1>5. p + X = L /\ \A k \in 1..X : data[p + k] = x[k]
  BY DEF Ahead
<1> HIDE DEF x, o, L, X
<1>6. /\ e + o = L /\ p < L /\ e <= L /\ p + 1 <= L /\ (p + 1) + n <= L
      /\ 1 \in 1..X
      /\ \A k \in 1..n : 1 + k \in 1..X /\ p + (1 + k) = p + 1 + k
      /\ \A k \in 1..l : 1 + n + k \in 1..X /\ p + (1 + n + k) = p + 1 + n + k
      /\ \A k \in 1..o : 1 + n + l + k \in 1..X /\ p + (1 + n + l + k) = e + k
      /\ p + 1 \in Nat /\ p + 1 + n \in Nat /\ (p + 1) + n \in Nat
  <2>1. n >= 1 /\ X = 1 + n + l + o /\ p + X = L
    BY <1>4, <1>5, Zenon
  <2>2. X \in Nat /\ o \in Nat /\ L \in Nat
    BY <1>0, Zenon
  <2>3. p \in Nat /\ n \in Nat /\ l \in Nat /\ e \in Nat /\ e = p + 1 + n + l
    OBVIOUS
  <2> QED
    <3>1. PartsOf(p, n, l, o, L, X, e)
      BY <2>1, <2>2, <2>3, Zenon DEF PartsOf
    <3>2. PartsFit(p, n, l, o, L, X, e)
      BY <3>1, PartsAddUp, Zenon
    <3> QED
      BY <3>2, Zenon DEF PartsFit
<1>7. data[p + 1] = tag
  <2>1. 1 \in 1..X
    BY <1>6
  <2> QED
    BY <1>4, <1>5, <2>1, Zenon
<1>8. ASSUME NEW k \in 1..n
      PROVE  data[p + 1 + k] = g[k]
  <2>1. 1 + k \in 1..X /\ p + (1 + k) = p + 1 + k
    BY <1>6, Zenon
  <2>2. data[p + (1 + k)] = x[1 + k]
    BY <1>5, <2>1, Zenon
  <2> QED
    BY <1>4, <2>1, <2>2, Zenon
<1>9. ASSUME NEW k \in 1..l
      PROVE  data[p + 1 + n + k] = content[k]
  <2>1. 1 + n + k \in 1..X /\ p + (1 + n + k) = p + 1 + n + k
    BY <1>6, Zenon
  <2>2. data[p + (1 + n + k)] = x[1 + n + k]
    BY <1>5, <2>1, Zenon
  <2> QED
    BY <1>4, <2>1, <2>2, Zenon
<1>10. ASSUME NEW k \in 1..o
       PROVE  data[e + k] = others[k]
  <2>1. 1 + n + l + k \in 1..X /\ p + (1 + n + l + k) = e + k
    BY <1>6, Zenon
  <2>2. data[p + (1 + n + l + k)] = x[1 + n + l + k]
    BY <1>5, <2>1, Zenon
  <2> QED
    BY <1>4, <2>1, <2>2, Zenon
<1>11. Tag(data, p) = [ok |-> TRUE, next |-> p + 1, value |-> tag]
  <2>1. VarintAt(data, p, 1)
    <3>1. p + 1 <= Len(data)
      BY <1>6, Zenon DEF L
    <3> QED
      BY <1>1, <1>7, <3>1, MaxVarintBytesIsNat DEF VarintAt
  <2>2. Part(data, p, p + 1) = <<tag>>
    <3> DEFINE t == <<tag>>
               b == p + 1
               u == 1
    <3>1. t \in Seq(Byte) /\ u = Len(t) /\ t[1] = tag /\ u \in Nat
      BY <1>1
    <3>2. b = p + u /\ b <= Len(data) /\ b \in Nat
      BY <1>6, Zenon DEF L
    <3>3. \A k \in 1..u : data[p + k] = t[k]
      BY <1>7, <3>1
    <3> HIDE DEF t, b, u
    <3>4. PartAt(data, p, t, u)
      BY <3>1, <3>3, Zenon DEF PartAt
    <3>5. Part(data, p, b) = t
      BY <3>1, <3>2, <3>4, PartIs, Zenon
    <3> QED
      BY <3>5 DEF t, b
  <2>3. VarintValue(<<tag>>) = tag
    BY <1>1, SmallGroups, ValueOfGroups
  <2>4. ReadVarint(data, p) = [ok |-> TRUE, next |-> p + 1,
                               value |-> VarintValue(Part(data, p, p + 1))]
    BY <2>1, ReadVarintFound
  <2> QED
    BY <2>2, <2>3, <2>4, Zenon DEF Tag
<1>12. Number(data, p) = [ok |-> TRUE, next |-> p + 1 + n, value |-> l]
  <2> DEFINE q == p + 1
             b == q + n
  <2>1. Tag(data, p).next = q
    BY <1>11
  <2>2. /\ g \in Seq(Byte) /\ Len(g) = n /\ n \in 1..MaxVarintBytes
        /\ \A k \in 1..n : g[k] < 128 <=> k = n
    BY <1>1, <1>2, GroupsAreWritten
  <2>3. VarintValue(g) = l
    BY <1>1, <1>2, ValueOfGroups
  <2>4. \A k \in 1..n : data[q + k] = g[k]
    BY <1>8
  <2>5. q \in Nat /\ b <= Len(data) /\ b \in Nat
    BY <1>6, Zenon DEF L
  <2>6. n \in 1..n /\ n \in Nat
    BY <1>4
  <2> HIDE DEF q, g
  <2>7. VarintAt(data, q, n)
    <3>1. data[q + n] < 128
      BY <2>2, <2>4, <2>6
    <3>2. ASSUME NEW k \in 1..n - 1
          PROVE  data[q + k] >= 128
      <4>1. k \in 1..n /\ k # n
        BY <2>6
      <4> DEFINE z == g[k]
      <4>2. z \in Byte
        BY <2>2, <4>1
      <4>3. ~(z < 128) /\ data[q + k] = z
        BY <2>2, <2>4, <4>1
      <4> HIDE DEF z
      <4>4. z >= 128
        BY <4>2, <4>3 DEF Byte
      <4> QED
        BY <4>3, <4>4
    <3> QED
      BY <2>2, <2>5, <3>1, <3>2 DEF VarintAt
  <2> HIDE DEF b
  <2>8. Part(data, q, b) = g
    <3>1. PartAt(data, q, g, n) /\ b = q + n
      BY <2>2, <2>4, Zenon DEF b, PartAt
    <3> QED
      BY <2>2, <2>5, <2>6, <3>1, PartIs, Zenon
  <2>9. ReadVarint(data, q) = [ok |-> TRUE, next |-> b, value |-> VarintValue(Part(data, q, b))]
    <3>1. ReadVarint(data, q) = [ok |-> TRUE, next |-> q + n,
                                 value |-> VarintValue(Part(data, q, q + n))]
      BY <2>5, <2>7, ReadVarintFound
    <3> QED
      BY <3>1, Zenon DEF b
  <2>10. Number(data, p) = [ok |-> TRUE, next |-> b, value |-> l]
    BY <2>1, <2>3, <2>8, <2>9, Zenon DEF Number
  <2> QED
    BY <2>10 DEF b, q
<1>13. Part(data, p + 1 + n, e) = content
  <2> DEFINE q == p + 1 + n
  <2>1. q \in Nat /\ e = q + l /\ e <= Len(data)
    BY <1>6, Zenon DEF L
  <2>2. \A k \in 1..l : data[q + k] = content[k]
    BY <1>9
  <2> HIDE DEF q
  <2>3. PartAt(data, q, content, l)
    BY <2>2, Zenon DEF PartAt
  <2> DEFINE d == e
  <2>5. d \in Nat /\ d = q + l /\ d <= Len(data)
    BY <2>1
  <2> HIDE DEF d
  <2>6. Part(data, q, d) = content
    BY <1>1, <2>1, <2>3, <2>5, PartIs, Zenon
  <2>4. Part(data, q, e) = content
    BY <2>6 DEF d
  <2> QED
    BY <2>4 DEF q
<1>14. Ahead(data, e, others)
  BY <1>6, <1>10, Zenon DEF Ahead, o, L
<1> QED
  BY <1>1, <1>6, <1>11, <1>12, <1>13, <1>14, Zenon DEF L

LEMMA TagsOfFields ==
  ASSUME NEW w \in {10, 18}
  PROVE  w % 8 = 2
OBVIOUS

\* The encoded field is the next token of the data, and a whole one.
LEMMA EncodedIsWhole ==
  ASSUME NEW data, NEW p, NEW tag, NEW content, NEW others, NEW l, NEW n, NEW e,
         EncodedAt(data, p, tag, content, others, l, n, e)
  PROVE  /\ p < Len(data) /\ Whole(data, p) /\ TokenEnd(data, p) = e
         /\ WireType(data, p) = 2 /\ FieldNum(Tag(data, p).value) = tag \div 8
         /\ Part(data, Number(data, p).next, TokenEnd(data, p)) = content
         /\ Ahead(data, e, others)
<1> DEFINE t == Tag(data, p)
           u == Number(data, p)
           q == p + 1 + n
<1>1. /\ p < Len(data) /\ e <= Len(data)
      /\ t = [ok |-> TRUE, next |-> p + 1, value |-> tag]
      /\ u = [ok |-> TRUE, next |-> q, value |-> l]
      /\ Part(data, q, e) = content
      /\ Ahead(data, e, others)
  BY EncodedIsToken, Zenon
<1>0. tag \in {10, 18} /\ l \in Nat /\ l < IntEnd /\ e = q + l
  BY Zenon DEF EncodedAt
<1>2. t.ok /\ t.value = tag /\ u.ok /\ u.next = q /\ u.value = l
  BY <1>1
<1>3. tag % 8 = 2
  BY <1>0, TagsOfFields, Zenon
<1> HIDE DEF t, u
<1>4. WireType(data, p) = 2
  BY <1>2, <1>3 DEF WireType, t
<1>5. Int_(l) = l
  <2>1. l < WordEnd
    BY <1>0, WordSizes
  <2> QED
    BY <1>0, <2>1, SignedWord, Zenon DEF Int_
<1>6. q + l = e
  BY <1>0, Zenon
<1> HIDE DEF q
<1>7. PayloadOk(2, u)
  <2>1. Int_(u.value) >= 0
    BY <1>0, <1>2, <1>5
  <2> QED
    BY <1>2, <2>1 DEF PayloadOk
<1>8. TokenEnd(data, p) = e
  <2>1. PayloadEnd(2, t.next, u) = u.next + Int_(u.value)
    BY DEF PayloadEnd
  <2>2. u.next + Int_(u.value) = e
    BY <1>2, <1>5, <1>6, Zenon
  <2> QED
    BY <1>4, <2>1, <2>2, Zenon DEF TokenEnd, t, u
<1>9. Whole(data, p)
  BY <1>1, <1>2, <1>4, <1>7, <1>8, Zenon DEF Whole, TokenOk, t, u
<1>10. FieldNum(t.value) = tag \div 8
  BY <1>0, <1>2, SmallField, Zenon
<1> QED
  BY <1>1, <1>2, <1>4, <1>8, <1>9, <1>10, Zenon DEF t, u

-----------------------------------------------------------------------------
(* What the decoder of a message has read, and the authority it has taken.  *)

Told(message, data, p, r, a) ==
    /\ p \in Nat /\ r \in Nat
    /\ ReadSoFar(message, data, p, r, 0)
    /\ EmbeddedRead(message, Tokens(data), r)
    /\ AuthorityOf(message, Tokens(data), r) = a

LEMMA ToldNothing ==
  ASSUME NEW message, NEW data \in Seq(Byte)
  PROVE  Told(message, data, 0, 0, NoBytes) /\ Ahead(data, 0, data)
<1>1. ReadSoFar(message, data, 0, 0, 0)
  BY ReadNothing
<1>2. EmbeddedRead(message, Tokens(data), 0)
  BY DEF EmbeddedRead
<1>3. OfAuthority(Tokens(data), 0) = {}
  BY DEF OfAuthority
<1>4. AuthorityOf(message, Tokens(data), 0) = NoBytes
  BY <1>3, Zenon DEF AuthorityOf
<1>5. Ahead(data, 0, data)
  BY DEF Ahead
<1>6. 0 \in Nat
  OBVIOUS
<1> QED
  BY <1>1, <1>2, <1>4, <1>5, <1>6, Zenon DEF Told

LEMMA ToldAll ==
  ASSUME NEW message, NEW data \in Seq(Byte), NEW p, NEW r, NEW a,
         Told(message, data, p, r, a), Ahead(data, p, <<>>)
  PROVE  WellFormed(message, data) /\ SaidAuthority(message, data) = a
<1>1. p = Len(data)
  <2>1. Len(<<>>) = 0
    OBVIOUS
  <2>2. p \in Nat /\ p + 0 = Len(data)
    BY <2>1, Zenon DEF Ahead
  <2> QED
    BY <2>2
<1>2. ReadSoFar(message, data, Len(data), r, 0)
  BY <1>1, Zenon DEF Told
<1>3. r = Len(Tokens(data)) /\ IsMessage(data, Known(message))
  BY <1>2, ReadAll
<1>4. EmbeddedRead(message, Tokens(data), r) /\ AuthorityOf(message, Tokens(data), r) = a
  BY Zenon DEF Told
<1> QED
  BY <1>3, <1>4, WellFormedIsRead, SaidIsLast, Zenon

\* No bytes are a Params.
LEMMA NothingIsParams == IsMessage(<<>>, {})
<1> DEFINE none == <<>>
<1>1. none \in Seq(Byte) /\ Ahead(none, 0, none)
  BY DEF Ahead
<1> HIDE DEF none
<1>2. Told("Params", none, 0, 0, NoBytes)
  BY <1>1, ToldNothing
<1>3. WellFormed("Params", none)
  BY <1>1, <1>2, ToldAll DEF none
<1>4. Known("Params") = {}
  BY DEF Known, Fields
<1> QED
  BY <1>3, <1>4, Zenon DEF WellFormed, none

\* One more encoded field of a message is ahead: its tag and content, the bytes
\* behind it, its number, and the authority that is then taken.
FieldAhead(message, data, p, r, a, tag, content, others, m, b) ==
    /\ message \in Messages /\ data \in Seq(Byte) /\ tag \in {10, 18}
    /\ content \in Seq(Byte) /\ others \in Seq(Byte) /\ Len(content) < IntEnd
    /\ Told(message, data, p, r, a) /\ Ahead(data, p, Encoded(tag, content, others))
    /\ m = tag \div 8 /\ m \in Known(message)
    /\ Fields[message][m] = "params" => content = <<>>
    /\ b = IF Fields[message][m] = "authority" THEN content ELSE a

LEMMA ToldField ==
  ASSUME NEW message, NEW data, NEW p, NEW r, NEW a, NEW tag, NEW content, NEW others,
         NEW m, NEW b, FieldAhead(message, data, p, r, a, tag, content, others, m, b)
  PROVE  \E e : Told(message, data, e, r + 1, b) /\ Ahead(data, e, others)
<1> USE DEF FieldAhead
<1>a. message \in Messages /\ data \in Seq(Byte) /\ tag \in {10, 18}
  BY Zenon
<1>b. content \in Seq(Byte) /\ others \in Seq(Byte) /\ Len(content) < IntEnd
  BY Zenon
<1>c. Told(message, data, p, r, a) /\ Ahead(data, p, Encoded(tag, content, others))
  BY Zenon
<1>d. m = tag \div 8 /\ m \in Known(message)
      /\ (Fields[message][m] = "params" => content = <<>>)
  BY Zenon
<1>e. b = IF Fields[message][m] = "authority" THEN content ELSE a
  BY Zenon
<1> HIDE DEF FieldAhead
<1> DEFINE T == Tokens(data)
           k == r + 1
<1>1. /\ p \in Nat /\ r \in Nat /\ ReadSoFar(message, data, p, r, 0)
      /\ EmbeddedRead(message, T, r) /\ AuthorityOf(message, T, r) = a
  BY <1>c, Zenon DEF Told
<1>2. PICK l \in Nat : l = Len(content) /\ l < IntEnd
  BY <1>b
<1>3. PICK n \in Nat : n = sov(l)
  <2>1. sov(l) \in Nat
    <3>1. l < WordEnd
      BY <1>2, WordSizes
    <3> DEFINE n == sov(l)
    <3> HIDE DEF n
    <3>2. n \in Nat
      BY <3>1, GroupsAreWritten DEF n
    <3> QED
      BY <3>2 DEF n
  <2> QED
    BY <2>1, Zenon
<1>4. PICK e \in Nat : e = p + 1 + n + l
  BY <1>1
<1>5. /\ p < Len(data) /\ Whole(data, p) /\ TokenEnd(data, p) = e
      /\ WireType(data, p) = 2 /\ FieldNum(Tag(data, p).value) = m
      /\ Part(data, Number(data, p).next, TokenEnd(data, p)) = content
      /\ Ahead(data, e, others)
  <2>1. /\ p < Len(data) /\ Whole(data, p) /\ TokenEnd(data, p) = e
        /\ WireType(data, p) = 2 /\ FieldNum(Tag(data, p).value) = tag \div 8
        /\ Part(data, Number(data, p).next, TokenEnd(data, p)) = content
        /\ Ahead(data, e, others)
    <3>1. p \in Nat /\ data \in Seq(Byte)
      BY <1>a, <1>1, Zenon
    <3>2. Ahead(data, p, Encoded(tag, content, others))
      BY <1>c, Zenon
    <3>3. tag \in {10, 18}
      BY <1>a, Zenon
    <3>4. EncodedAt(data, p, tag, content, others, l, n, e)
      BY <1>b, <1>2, <1>3, <1>4, <3>1, <3>2, <3>3, Zenon DEF EncodedAt
    <3> QED
      BY <3>4, EncodedIsWhole, Zenon
  <2> QED
    BY <1>d, <2>1, Zenon
<1>6. m > 0
  BY <1>a, <1>d, FieldNames, Zenon
<1>7. ReadSoFar(message, data, e, r + 1, 0)
  <2>1. Fits(message, FieldNum(Tag(data, p).value), WireType(data, p))
    <3>1. 2 # 4
      OBVIOUS
    <3> QED
      BY <1>5, <1>6, <3>1, Zenon DEF Fits
  <2>2. ReadSoFar(message, data, TokenEnd(data, p), r + 1, 0 + Change(WireType(data, p)))
    BY <1>a, <1>1, <1>5, <2>1, ReadOneMore, Zenon
  <2>3. 0 + Change(2) = 0
    BY DEF Change
  <2> QED
    BY <1>5, <2>2, <2>3, Zenon
<1>8. At(data, p, r) /\ Depth(T, k) = 0
  BY <1>1, Zenon DEF ReadSoFar
<1>9. T[k].field = m /\ T[k].content = content
  <2>1. /\ T[k].field = FieldNum(Tag(data, p).value)
        /\ T[k].content = Part(data, Number(data, p).next, TokenEnd(data, p))
    BY <1>a, <1>5, <1>8, WholeSays, Zenon
  <2> QED
    BY <1>5, <2>1, Zenon
<1>10. EmbeddedRead(message, T, r + 1)
  <2>1. OfParams(message, T, r + 1) => IsMessage(T[r + 1].content, {})
    BY <1>d, <1>9, NothingIsParams, Zenon DEF OfParams
  <2> HIDE DEF T
  <2> QED
    BY <1>1, <2>1, EmbeddedReadOn, Zenon
<1>11. AuthorityOf(message, T, r + 1) = b
  <2>1. CASE Fields[message][m] = "authority"
    <3>1. HasAuthority(message) /\ m = 1 /\ b = content
      BY <1>a, <1>d, <1>e, <2>1, FieldNames, Zenon
    <3>2. T[r + 1].field = 1
      BY <1>9, <3>1, Zenon
    <3> HIDE DEF T
    <3>3. AuthorityOf(message, T, r + 1) = T[r + 1].content
      BY <1>1, <1>8, <3>1, <3>2, AuthoritySaid, Zenon
    <3> QED
      BY <1>9, <3>1, <3>3, Zenon
  <2>2. CASE Fields[message][m] # "authority"
    <3>1. HasAuthority(message) => Fields[message][1] = "authority"
      BY <1>a, FieldNames, Zenon
    <3>2. HasAuthority(message) => ~(Depth(T, r + 1) = 0 /\ T[r + 1].field = 1)
      BY <1>9, <2>2, <3>1, Zenon
    <3> HIDE DEF T
    <3>3. AuthorityOf(message, T, r + 1) = AuthorityOf(message, T, r)
      BY <1>1, <3>2, AuthorityUnsaid, Zenon
    <3> QED
      BY <1>1, <1>e, <2>2, <3>3, Zenon
  <2> QED
    BY <2>1, <2>2
<1>12. r + 1 \in Nat
  BY <1>1
<1>13. Told(message, data, e, r + 1, b)
  BY <1>7, <1>10, <1>11, <1>12, Zenon DEF Told
<1> QED
  BY <1>5, <1>13, Zenon

\* The Params that is written goes to the field that the message has for it.
LEMMA ParamsAreWritten ==
  ASSUME NEW message \in Messages
  PROVE  /\ ParamsWritten(message) \in Seq(Byte)
         /\ \/ ParamsWritten(message) = <<>>
            \/ \E tag \in {10, 18} : /\ ParamsWritten(message) = Encoded(tag, <<>>, <<>>)
                                     /\ tag \div 8 \in Known(message)
                                     /\ Fields[message][tag \div 8] = "params"
<1>1. ASSUME NEW tag \in {10, 18}
      PROVE  Encoded(tag, <<>>, <<>>) \in Seq(Byte)
  <2> DEFINE none == <<>>
  <2>1. none \in Seq(Byte) /\ Len(none) = 0 /\ tag \in Byte
    BY DEF Byte
  <2>2. 0 < WordEnd
    BY WordSizes
  <2> HIDE DEF none
  <2>3. Encoded(tag, none, none) \in Seq(Byte)
    <3>1. Len(none) < WordEnd
      BY <2>1, <2>2, Zenon
    <3> QED
      BY <2>1, <3>1, EncodedParts DEF HasParts
  <2> QED
    BY <2>3, Zenon DEF none
<1>2. CASE message = "MsgUpdateParams"
  <2>1. ParamsWritten(message) = Encoded(18, <<>>, <<>>)
    BY <1>2 DEF ParamsWritten
  <2>2. 18 \in {10, 18} /\ 18 \div 8 = 2
    OBVIOUS
  <2>3. 2 \in Known(message) /\ Fields[message][2] = "params"
    BY <1>2 DEF Known, Fields
  <2> QED
    BY <1>1, <2>1, <2>2, <2>3, Zenon
<1>3. CASE message \in {"GenesisState", "QueryParamsResponse"}
  <2>1. ParamsWritten(message) = Encoded(10, <<>>, <<>>)
    BY <1>3 DEF ParamsWritten
  <2>2. 10 \in {10, 18} /\ 10 \div 8 = 1
    OBVIOUS
  <2>3. 1 \in Known(message) /\ Fields[message][1] = "params"
    BY <1>3 DEF Known, Fields
  <2> QED
    BY <1>1, <2>1, <2>2, <2>3, Zenon
<1>4. CASE message \notin {"MsgUpdateParams", "GenesisState", "QueryParamsResponse"}
  <2>1. ParamsWritten(message) = <<>>
    BY <1>4 DEF ParamsWritten
  <2>2. <<>> \in Seq(Byte)
    OBVIOUS
  <2> QED
    BY <2>1, <2>2, Zenon
<1> QED
  BY <1>2, <1>3, <1>4

\* What is left is the Params.
LEMMA ParamsAreRead ==
  ASSUME NEW message \in Messages, NEW data \in Seq(Byte), NEW p, NEW r, NEW a,
         Told(message, data, p, r, a), Ahead(data, p, ParamsWritten(message))
  PROVE  WellFormed(message, data) /\ SaidAuthority(message, data) = a
<1>1. CASE ParamsWritten(message) = <<>>
  <2>1. Ahead(data, p, <<>>)
    BY <1>1, Zenon
  <2> QED
    BY <2>1, ToldAll, Zenon
<1>2. CASE \E tag \in {10, 18} : /\ ParamsWritten(message) = Encoded(tag, <<>>, <<>>)
                                 /\ tag \div 8 \in Known(message)
                                 /\ Fields[message][tag \div 8] = "params"
  <2> DEFINE none == <<>>
  <2>1. PICK tag \in {10, 18} : /\ ParamsWritten(message) = Encoded(tag, none, none)
                                /\ tag \div 8 \in Known(message)
                                /\ Fields[message][tag \div 8] = "params"
    BY <1>2, Zenon
  <2>2. none \in Seq(Byte) /\ Len(none) = 0
    OBVIOUS
  <2>3. 0 < IntEnd
    BY WordSizes
  <2>4. "params" # "authority" /\ none = <<>>
    OBVIOUS
  <2> HIDE DEF none
  <2> DEFINE m == tag \div 8
             b == IF Fields[message][m] = "authority" THEN none ELSE a
  <2>5. m = tag \div 8 /\ m \in Known(message) /\ Fields[message][m] = "params"
    BY <2>1, Zenon
  <2> HIDE DEF m
  <2>6. b = a
    BY <2>4, <2>5, Zenon
  <2>7. Ahead(data, p, Encoded(tag, none, none))
    BY <2>1, Zenon
  <2>8. Len(none) < IntEnd
    BY <2>2, <2>3, Zenon
  <2>9. b = IF Fields[message][m] = "authority" THEN none ELSE a
    OBVIOUS
  <2> HIDE DEF b
  <2>10. \E e : Told(message, data, e, r + 1, b) /\ Ahead(data, e, none)
    <3>1. FieldAhead(message, data, p, r, a, tag, none, none, m, b)
      BY <2>1, <2>2, <2>4, <2>5, <2>7, <2>8, <2>9, Zenon DEF FieldAhead
    <3> QED
      BY <3>1, ToldField, Zenon
  <2>11. PICK e : Told(message, data, e, r + 1, a) /\ Ahead(data, e, <<>>)
    BY <2>4, <2>6, <2>10, Zenon
  <2> QED
    BY <2>11, ToldAll, Zenon
<1> QED
  BY <1>1, <1>2, ParamsAreWritten, Zenon

LEMMA WrittenIsRead ==
  ASSUME NEW message \in Messages, NEW a \in Seq(Byte), Len(a) < IntEnd,
         NEW data \in Seq(Byte), data = Written(message, a)
  PROVE  /\ WellFormed(message, data)
         /\ SaidAuthority(message, data) = (IF HasAuthority(message) THEN a ELSE NoBytes)
<1> DEFINE P == ParamsWritten(message)
<1>1. Told(message, data, 0, 0, NoBytes) /\ Ahead(data, 0, data)
  BY ToldNothing
<1>2. P \in Seq(Byte)
  BY ParamsAreWritten, Zenon
<1>3. CASE HasAuthority(message) /\ Len(a) > 0
  <2> DEFINE b == IF Fields[message][1] = "authority" THEN a ELSE NoBytes
  <2>1. data = Encoded(10, a, P)
    BY <1>3, Zenon DEF Written
  <2>2. 1 \in Known(message) /\ Fields[message][1] = "authority"
    BY <1>3, FieldNames, Zenon
  <2>3. "params" # "authority" /\ 1 = 10 \div 8 /\ 10 \in {10, 18}
    OBVIOUS
  <2>4. Ahead(data, 0, Encoded(10, a, P))
    BY <1>1, <2>1, Zenon
  <2>5. b = a
    BY <2>2, Zenon
  <2>6. b = IF Fields[message][1] = "authority" THEN a ELSE NoBytes
    OBVIOUS
  <2> HIDE DEF b, P
  <2>7. Fields[message][1] # "params"
    BY <2>2, <2>3, Zenon
  <2>8. PICK e : Told(message, data, e, 0 + 1, b) /\ Ahead(data, e, P)
    <3>1. FieldAhead(message, data, 0, 0, NoBytes, 10, a, P, 1, b)
      BY <1>1, <1>2, <2>2, <2>3, <2>4, <2>6, <2>7, Zenon DEF FieldAhead
    <3> QED
      BY <3>1, ToldField, Zenon
  <2>9. Told(message, data, e, 0 + 1, a) /\ Ahead(data, e, ParamsWritten(message))
    BY <2>5, <2>8, Zenon DEF P
  <2> QED
    BY <1>3, <2>9, ParamsAreRead, Zenon
<1>4. CASE ~(HasAuthority(message) /\ Len(a) > 0)
  <2>1. data = P
    BY <1>4, Zenon DEF Written
  <2>2. WellFormed(message, data) /\ SaidAuthority(message, data) = NoBytes
    BY <1>1, <2>1, ParamsAreRead, Zenon
  <2>3. HasAuthority(message) => a = NoBytes
    <3>1. CASE Len(a) > 0
      BY <1>4, <3>1, Zenon
    <3>2. CASE ~(Len(a) > 0)
      BY <3>2 DEF NoBytes
    <3> QED
      BY <3>1, <3>2, Zenon
  <2> QED
    BY <2>2, <2>3, Zenon
<1> QED
  BY <1>3, <1>4

\* What Marshal writes is a message of the wire format that says what was meant,
\* by the reference and so to every other decoder of the format.
THEOREM MarshalSaysWhatIsMeant ==
  ASSUME NEW message \in Messages, NEW a \in Authorities
  PROVE  /\ WellFormed(message, Marshal(message, a))
         /\ SaidAuthority(message, Marshal(message, a)) =
                (IF HasAuthority(message) THEN a ELSE NoBytes)
<1> DEFINE P == ParamsWritten(message)
           w == Written(message, a)
<1>1. a \in Seq(Byte) /\ Len(a) < IntEnd
  BY CodecAssumption, Zenon DEF IntEnd
<1>2. Len(a) < WordEnd
  <2> DEFINE l == Len(a)
  <2>1. l \in Nat /\ l < IntEnd
    BY <1>1
  <2> HIDE DEF l
  <2> QED
    BY <2>1, WordSizes DEF l
<1>3. P \in Seq(Byte)
  BY ParamsAreWritten, Zenon
<1>4. w \in Seq(Byte)
  <2>1. CASE HasAuthority(message) /\ Len(a) > 0
    <3>1. w = Encoded(10, a, P)
      BY <2>1, Zenon DEF Written
    <3>2. 10 \in Byte
      BY DEF Byte
    <3> HIDE DEF P, w
    <3>3. HasParts(Encoded(10, a, P), 10, Groups(Len(a)), sov(Len(a)), a, Len(a), P)
      BY <1>1, <1>2, <1>3, <3>2, EncodedParts
    <3> QED
      BY <3>1, <3>3, Zenon DEF HasParts
  <2>2. CASE ~(HasAuthority(message) /\ Len(a) > 0)
    BY <1>3, <2>2, Zenon DEF Written
  <2> QED
    BY <2>1, <2>2
<1>5. Marshal(message, a) = w
  BY <1>1, <1>2, MarshalWrites, Zenon
<1> HIDE DEF w
<1>6. WellFormed(message, w) /\ SaidAuthority(message, w) = (IF HasAuthority(message) THEN a ELSE NoBytes)
  BY <1>1, <1>4, WrittenIsRead DEF w
<1> QED
  BY <1>5, <1>6, Zenon

\* Unmarshal reads back what Marshal writes, which has the length that Size says.
THEOREM MarshalIsReadBack == Spec => []RoundTrip
<1>1. IInv /\ ReadsWireFormat => RoundTrip
  <2> SUFFICES ASSUME IInv, ReadsWireFormat, NEW a \in Authorities,
                      outcome # "reading", input.data = Marshal(input.fn, a)
               PROVE  /\ outcome = "ok"
                      /\ authority = (IF HasAuthority(input.fn) THEN a ELSE NoBytes)
                      /\ Len(input.data) = Size(input.fn, a)
    BY Zenon DEF RoundTrip
  <2> DEFINE m == input.fn
             data == input.data
  <2>1. m \in Messages
    BY Zenon DEF IInv
  <2> HIDE DEF m, data
  <2>2. data = Marshal(m, a)
    BY Zenon DEF m, data
  <2>3. Len(Marshal(m, a)) = Size(m, a)
    BY <2>1, SizeIsExact, Zenon
  <2>4. /\ WellFormed(m, data)
        /\ SaidAuthority(m, data) = (IF HasAuthority(m) THEN a ELSE NoBytes)
    BY <2>1, <2>2, MarshalSaysWhatIsMeant, Zenon
  <2>5. outcome = "ok" /\ authority = SaidAuthority(m, data)
    BY <2>4, Zenon DEF ReadsWireFormat, m, data
  <2> QED
    BY <2>2, <2>3, <2>4, <2>5, Zenon DEF m, data
<1> QED
  BY <1>1, Invariance, TakesTheWireFormat, PTL
=============================================================================
