-------------------------- MODULE ProtoCodecProofs --------------------------
(***************************************************************************)
(* Proofs about the decoders, for every width of a word, every width of a  *)
(* field number and every bytes: what ReadVarint returns, that no sum of   *)
(* an index and a length leaves the data unnoticed, and that every step    *)
(* gets nearer to the end.  That ReadVarint's fold is a number at all is   *)
(* proved first, by induction.  And about the encoders: the groups of a    *)
(* number are its varint and as many as sov says, and Marshal fills the    *)
(* buffer of Size bytes to its start.                                      *)
(***************************************************************************)
EXTENDS ProtoCodec, FiniteSetTheorems, SequenceTheorems, WellFoundedInduction, TLAPS

-----------------------------------------------------------------------------
(* Induction by sets of numbers.                                            *)

Less == {p \in Nat \X Nat : p[1] < p[2]}

LEMMA LeastNumber ==
  ASSUME NEW T \in SUBSET Nat, T # {}
  PROVE  \E x \in T : \A y \in T : x <= y
<1>1. IsWellFoundedOn(Less, Nat)
  BY NatLessThanWellFounded, Zenon DEF OpToRel, Less
<1>2. PICK x \in T : \A y \in T : ~(<<y, x>> \in Less)
  BY <1>1, WFMin, Zenon
<1>3. ASSUME NEW y \in T
      PROVE  x <= y
  <2>1. x \in Nat /\ y \in Nat /\ ~(y < x)
    BY <1>2 DEF Less
  <2> QED
    BY <2>1
<1> QED
  BY <1>3

\* A set of numbers that has 0 and every successor has all.
LEMMA NatSetInduction ==
  ASSUME NEW P, 0 \in P, \A n \in Nat : n \in P => n + 1 \in P
  PROVE  Nat \subseteq P
<1> DEFINE T == Nat \ P
<1> SUFFICES ASSUME T # {}
             PROVE  FALSE
  OBVIOUS
<1>1. PICK x \in T : \A y \in T : x <= y
  <2>1. T \in SUBSET Nat
    OBVIOUS
  <2> HIDE DEF T
  <2> QED
    BY <2>1, LeastNumber
<1>2. x \in Nat /\ x # 0 /\ x - 1 \in T
  OBVIOUS
<1> QED
  BY <1>1, <1>2

-----------------------------------------------------------------------------
(* The value of a varint is a word.                                         *)

Least(s) == CHOOSE x \in s : \A y \in s : x <= y

ValueOf(bytes, s, f) ==
    IF s = {} THEN 0 ELSE (bytes[Least(s)] % 128) + 128 * f[s \ {Least(s)}]

IsValue(bytes, B, f) == f = [s \in B |-> ValueOf(bytes, s, f)]

\* The recursive function that FoldRight chooses.
LEMMA FoldIsChosen ==
  ASSUME NEW bytes
  PROVE  FoldRight(LAMBDA b, high : (b % 128) + 128 * high, bytes, 0)
           = (CHOOSE f : IsValue(bytes, SUBSET DOMAIN bytes, f))[DOMAIN bytes]
<1>1. FoldRight(LAMBDA b, high : (b % 128) + 128 * high, bytes, 0)
        = (CHOOSE f : f = [s \in SUBSET DOMAIN bytes |->
              IF s = {} THEN 0
              ELSE (bytes[CHOOSE x \in s : \A y \in s : x <= y] % 128)
                     + 128 * f[s \ {CHOOSE x \in s : \A y \in s : x <= y}]])[DOMAIN bytes]
  BY Zenon DEF FoldRight, MapThenFoldSet, Min
<1> QED
  BY <1>1, Zenon DEF ValueOf, Least, IsValue

Places(n) == SUBSET (1..n)

Small(n, k) == {s \in Places(n) : Cardinality(s) <= k}

LEMMA PlacesAreFinite ==
  ASSUME NEW n \in Nat, NEW s \in Places(n)
  PROVE  IsFiniteSet(s) /\ Cardinality(s) \in Nat /\ (s = {} <=> Cardinality(s) = 0)
<1>1. IsFiniteSet(1..n)
  BY FS_Interval
<1>2. IsFiniteSet(s)
  BY <1>1, FS_Subset DEF Places
<1> QED
  BY <1>2, FS_CardinalityType, FS_EmptySet

LEMMA LeastIsTaken ==
  ASSUME NEW n \in Nat, NEW s \in Places(n), s # {}
  PROVE  /\ Least(s) \in s /\ Least(s) \in 1..n
         /\ s \ {Least(s)} \in Places(n)
         /\ Cardinality(s \ {Least(s)}) = Cardinality(s) - 1
<1>1. s \in SUBSET Nat
  BY DEF Places
<1>2. Least(s) \in s
  BY <1>1, LeastNumber DEF Least
<1>3. Cardinality(s \ {Least(s)}) = Cardinality(s) - 1
  BY <1>2, PlacesAreFinite, FS_RemoveElement
<1> QED
  BY <1>2, <1>3 DEF Places

LEMMA ValueExists ==
  ASSUME NEW bytes, NEW n \in Nat, NEW m \in Nat
  PROVE  \E f : IsValue(bytes, Small(n, m), f)
<1> DEFINE P == {k \in Nat : \E f : IsValue(bytes, Small(n, k), f)}
<1>1. 0 \in P
  <2> DEFINE f == [s \in Small(n, 0) |-> 0]
  <2>1. \A s \in Small(n, 0) : s = {}
    BY PlacesAreFinite DEF Small
  <2>2. f = [s \in Small(n, 0) |-> ValueOf(bytes, s, f)]
    BY <2>1 DEF ValueOf
  <2> QED
    BY <2>2 DEF IsValue
<1>2. ASSUME NEW k \in Nat, k \in P
      PROVE  k + 1 \in P
  <2>1. PICK f : IsValue(bytes, Small(n, k), f)
    BY <1>2
  <2> DEFINE h == [s \in Small(n, k + 1) |-> ValueOf(bytes, s, f)]
  <2>2. ASSUME NEW s \in Small(n, k)
        PROVE  s \in Small(n, k + 1) /\ h[s] = f[s]
    <3>1. s \in Small(n, k + 1)
      BY PlacesAreFinite DEF Small
    <3>2. f[s] = ValueOf(bytes, s, f)
      BY <2>1 DEF IsValue
    <3> QED
      BY <3>1, <3>2
  <2>3. ASSUME NEW s \in Small(n, k + 1)
        PROVE  ValueOf(bytes, s, f) = ValueOf(bytes, s, h)
    <3>1. CASE s = {}
      BY <3>1 DEF ValueOf
    <3>2. CASE s # {}
      <4>1. s \ {Least(s)} \in Small(n, k)
        BY <3>2, PlacesAreFinite, LeastIsTaken DEF Small
      <4>2. h[s \ {Least(s)}] = f[s \ {Least(s)}]
        BY <2>2, <4>1
      <4> HIDE DEF h
      <4> QED
        BY <3>2, <4>2 DEF ValueOf
    <3> QED
      BY <3>1, <3>2
  <2>4. h = [s \in Small(n, k + 1) |-> ValueOf(bytes, s, h)]
    <3> DEFINE hh == [s \in Small(n, k + 1) |-> ValueOf(bytes, s, h)]
    <3>1. \A s \in Small(n, k + 1) : h[s] = ValueOf(bytes, s, f) /\ hh[s] = ValueOf(bytes, s, h)
      OBVIOUS
    <3>2. \A s \in Small(n, k + 1) : h[s] = hh[s]
      BY <2>3, <3>1
    <3>3. h = [s \in Small(n, k + 1) |-> h[s]]
      OBVIOUS
    <3>4. hh = [s \in Small(n, k + 1) |-> hh[s]]
      OBVIOUS
    <3> HIDE DEF h, hh
    <3>5. h = hh
      BY <3>2, <3>3, <3>4
    <3> QED
      BY <3>5 DEF hh
  <2>5. IsValue(bytes, Small(n, k + 1), h)
    BY <2>4, Zenon DEF IsValue
  <2> HIDE DEF h
  <2> QED
    BY <2>5
<1> HIDE DEF P
<1>3. Nat \subseteq P
  BY <1>1, <1>2, NatSetInduction
<1> QED
  BY <1>3 DEF P

LEMMA AllAreSmall ==
  ASSUME NEW n \in Nat
  PROVE  Places(n) = Small(n, n)
<1> SUFFICES ASSUME NEW s \in Places(n)
             PROVE  Cardinality(s) <= n
  BY DEF Small
<1>1. IsFiniteSet(1..n) /\ Cardinality(1..n) = n
  BY FS_Interval
<1> QED
  BY <1>1, FS_Subset DEF Places

LEMMA GroupIsNat ==
  ASSUME NEW b \in Byte, NEW high \in Nat
  PROVE  (b % 128) + 128 * high \in Nat
<1>1. b % 128 \in Nat
  BY DEF Byte
<1>2. 128 * high \in Nat
  OBVIOUS
<1> QED
  BY <1>1, <1>2

LEMMA ValueIsNat ==
  ASSUME NEW n \in Nat, NEW bytes \in [1..n -> Byte], NEW f,
         IsValue(bytes, Places(n), f)
  PROVE  f[1..n] \in Nat
<1> DEFINE P == {k \in Nat : \A s \in Places(n) : Cardinality(s) = k => f[s] \in Nat}
<1>1. ASSUME NEW s \in Places(n)
      PROVE  f[s] = ValueOf(bytes, s, f)
  BY DEF IsValue
<1>2. 0 \in P
  <2> SUFFICES ASSUME NEW s \in Places(n), Cardinality(s) = 0
               PROVE  f[s] \in Nat
    OBVIOUS
  <2>1. s = {}
    BY PlacesAreFinite, Zenon
  <2>2. f[s] = 0
    BY <1>1, <2>1, Zenon DEF ValueOf
  <2> QED
    BY <2>2
<1>3. ASSUME NEW k \in Nat, k \in P
      PROVE  k + 1 \in P
  <2> SUFFICES ASSUME NEW s \in Places(n), Cardinality(s) = k + 1
               PROVE  f[s] \in Nat
    OBVIOUS
  <2>1. s # {}
    BY PlacesAreFinite
  <2>2. /\ Least(s) \in 1..n /\ s \ {Least(s)} \in Places(n)
        /\ Cardinality(s \ {Least(s)}) = k
    BY <2>1, LeastIsTaken
  <2>3. f[s \ {Least(s)}] \in Nat
    BY <1>3, <2>2
  <2>4. bytes[Least(s)] \in Byte
    BY <2>2
  <2>5. f[s] = (bytes[Least(s)] % 128) + 128 * f[s \ {Least(s)}]
    BY <1>1, <2>1 DEF ValueOf
  <2> QED
    BY <2>3, <2>4, <2>5, GroupIsNat
<1> HIDE DEF P
<1>4. Nat \subseteq P
  BY <1>2, <1>3, NatSetInduction
<1>5. Cardinality(1..n) \in P
  BY <1>4, PlacesAreFinite DEF Places
<1> QED
  BY <1>5 DEF P, Places

LEMMA FoldIsNat ==
  ASSUME NEW bytes \in Seq(Byte)
  PROVE  FoldRight(LAMBDA b, high : (b % 128) + 128 * high, bytes, 0) \in Nat
<1> DEFINE n == Len(bytes)
<1>1. n \in Nat /\ bytes \in [1..n -> Byte] /\ DOMAIN bytes = 1..n
  OBVIOUS
<1> HIDE DEF n
<1>2. Places(n) = Small(n, n)
  BY <1>1, AllAreSmall
<1>3. \E f : IsValue(bytes, Places(n), f)
  BY <1>1, <1>2, ValueExists
<1> DEFINE f == CHOOSE g : IsValue(bytes, Places(n), g)
<1>4. IsValue(bytes, Places(n), f)
  BY <1>3
<1>5. FoldRight(LAMBDA b, high : (b % 128) + 128 * high, bytes, 0) = f[1..n]
  BY <1>1, FoldIsChosen, Zenon DEF Places
<1> HIDE DEF f
<1>6. f[1..n] \in Nat
  BY <1>1, <1>4, ValueIsNat
<1> QED
  BY <1>5, <1>6, Zenon

-----------------------------------------------------------------------------
(* Words and ints.                                                          *)

IntEnd  == 2^(WordBits - 1)
WordEnd == 2^WordBits

LEMMA PowersGrow ==
  ASSUME NEW n \in Nat, n + 3 <= WordBits
  PROVE  2^(n + 3) \in Int /\ 2^(n + 3) >= 8
<1> DEFINE P == {k \in Nat : k + 3 <= WordBits => 2^(k + 3) >= 8}
<1>1. 0 \in P
  <2>1. 2^3 = 8
    OBVIOUS
  <2> QED
    BY <2>1
<1>2. ASSUME NEW k \in Nat, k \in P
      PROVE  k + 1 \in P
  <2> SUFFICES ASSUME k + 4 <= WordBits
               PROVE  2^(k + 4) >= 8
    OBVIOUS
  <2>1. k + 3 \in 0..WordBits + 6 /\ (k + 3) + 1 = k + 4
    BY WireAssumption
  <2>2. 2^(k + 4) = 2 * 2^(k + 3)
    BY <2>1, PowersOfTwo
  <2>3. 2^(k + 3) >= 8
    BY <1>2, <2>1, WireAssumption
  <2>4. 2^(k + 3) \in Int
    OBVIOUS
  <2> QED
    BY <2>2, <2>3, <2>4
<1> HIDE DEF P
<1>3. Nat \subseteq P
  BY <1>1, <1>2, NatSetInduction
<1>4. 2^(n + 3) >= 8
  BY <1>3 DEF P
<1> QED
  BY <1>4

LEMMA WordSizes ==
  /\ IntEnd \in Nat /\ WordEnd \in Nat
  /\ IntEnd >= 8 /\ WordEnd = 2 * IntEnd
<1>1. WordBits \in Nat /\ WordBits > 6
  BY WireAssumption
<1>2. WordBits - 4 \in Nat /\ (WordBits - 4) + 3 = WordBits - 1 /\ (WordBits - 4) + 3 <= WordBits
  BY <1>1
<1>3. 2^(WordBits - 1) \in Int /\ 2^(WordBits - 1) >= 8
  BY <1>2, PowersGrow
<1>4. WordBits - 1 \in 0..WordBits + 6 /\ (WordBits - 1) + 1 = WordBits
  BY <1>1
<1>5. 2^WordBits = 2 * 2^(WordBits - 1)
  BY <1>4, PowersOfTwo
<1> QED
  BY <1>3, <1>5 DEF IntEnd, WordEnd

\* A word below IntEnd is itself as an int, and any other one is negative.
LEMMA SignedWord ==
  ASSUME NEW w \in Nat, w < WordEnd
  PROVE  /\ w < IntEnd => Signed(w, WordBits) = w
         /\ w >= IntEnd => Signed(w, WordBits) = w - WordEnd
         /\ Signed(w, WordBits) \in Int
         /\ Signed(w, WordBits) >= 0 => Signed(w, WordBits) = w /\ w < IntEnd
<1>1. w % WordEnd = w
  BY WordSizes
<1>2. Signed(w, WordBits) = IF w >= IntEnd THEN w - WordEnd ELSE w
  BY <1>1 DEF Signed, IntEnd, WordEnd
<1> QED
  BY <1>2, WordSizes

\* A sum of two ints that are not negative is not negative if it does not wrap.
LEMMA PlusProperties ==
  ASSUME NEW a \in Nat, NEW b \in Nat, a < IntEnd, b < IntEnd
  PROVE  /\ Plus(a, b) \in Int
         /\ Plus(a, b) >= 0 => Plus(a, b) = a + b /\ a + b < IntEnd
<1>1. a + b \in Nat /\ a + b < WordEnd
  BY WordSizes
<1> QED
  BY <1>1, SignedWord DEF Plus

\* The fixed sizes of wire types 1 and 5.
LEMMA FixedPlus ==
  ASSUME NEW a \in Nat, a < IntEnd
  PROVE  /\ Plus(a, 8) \in Int
         /\ Plus(a, 8) >= 0 => Plus(a, 8) = a + 8 /\ a + 8 < IntEnd
         /\ Plus(a, 4) \in Int
         /\ Plus(a, 4) >= 0 => Plus(a, 4) = a + 4 /\ a + 4 < IntEnd
<1>1. /\ a + 8 \in Nat /\ a + 8 < WordEnd
      /\ a + 4 \in Nat /\ a + 4 < WordEnd
  BY WordSizes
<1> DEFINE e == a + 8
           f == a + 4
<1>2. Plus(a, 8) = Signed(e, WordBits) /\ Plus(a, 4) = Signed(f, WordBits)
  BY DEF Plus
<1>3. e \in Nat /\ e < WordEnd /\ f \in Nat /\ f < WordEnd
  BY <1>1
<1> HIDE DEF e, f
<1>4. /\ Signed(e, WordBits) \in Int /\ Signed(f, WordBits) \in Int
      /\ Signed(e, WordBits) >= 0 => Signed(e, WordBits) = e /\ e < IntEnd
      /\ Signed(f, WordBits) >= 0 => Signed(f, WordBits) = f /\ f < IntEnd
  BY <1>3, SignedWord
<1> QED
  BY <1>2, <1>4 DEF e, f

LEMMA VarintValueIsWord ==
  ASSUME NEW bytes \in Seq(Byte)
  PROVE  VarintValue(bytes) \in Nat /\ VarintValue(bytes) < WordEnd
<1> DEFINE v == FoldRight(LAMBDA b, high : (b % 128) + 128 * high, bytes, 0)
<1>1. v \in Nat
  BY FoldIsNat, Zenon
<1>2. VarintValue(bytes) = v % WordEnd
  BY Zenon DEF VarintValue, WordEnd
<1> HIDE DEF v
<1>3. v % WordEnd \in Nat /\ v % WordEnd < WordEnd
  BY <1>1, WordSizes
<1> QED
  BY <1>2, <1>3

\* The loop that reads a varint ends behind its last byte, in the data.
LEMMA ReadVarintProperties ==
  ASSUME NEW data \in Seq(Byte), NEW index \in Nat,
         NEW r, r = ReadVarint(data, index)
  PROVE  /\ r.ok \in BOOLEAN
         /\ r.next \in Nat /\ r.next >= index
         /\ r.ok => r.next > index /\ r.next <= Len(data)
         /\ r.value \in Nat /\ r.value < WordEnd
<1> DEFINE ends == {n \in 1..MaxVarintBytes :
                      /\ index + n <= Len(data)
                      /\ data[index + n] < 128
                      /\ \A k \in 1..n - 1 : data[index + k] >= 128}
           n == CHOOSE m \in ends : TRUE
<1>1. r = IF ends = {}
          THEN [ok |-> FALSE, next |-> index, value |-> 0]
          ELSE [ok |-> TRUE, next |-> index + n,
                value |-> VarintValue(SubSeq(data, index + 1, index + n))]
  BY DEF ReadVarint
<1>2. CASE ends = {}
  <2> HIDE DEF ends, n
  <2> QED
    BY <1>1, <1>2, WordSizes
<1>3. CASE ends # {}
  <2>1. n \in ends
    BY <1>3
  <2>2. n \in Nat /\ n >= 1 /\ index + n <= Len(data)
    BY <2>1, WireAssumption DEF MaxVarintBytes
  <2> HIDE DEF ends, n
  <2> DEFINE bytes == SubSeq(data, index + 1, index + n)
  <2>3. bytes \in Seq(Byte)
    BY <2>2, SubSeqProperties
  <2>4. r = [ok |-> TRUE, next |-> index + n, value |-> VarintValue(bytes)]
    BY <1>1, <1>3
  <2> HIDE DEF bytes
  <2>5. VarintValue(bytes) \in Nat /\ VarintValue(bytes) < WordEnd
    BY <2>3, VarintValueIsWord
  <2>6. r.ok \in BOOLEAN /\ r.next = index + n /\ r.value = VarintValue(bytes)
    BY <2>4
  <2>7. index + n \in Nat /\ index + n >= index /\ index + n > index
    BY <2>2
  <2> QED
    BY <2>2, <2>5, <2>6, <2>7
<1> QED
  BY <1>2, <1>3

-----------------------------------------------------------------------------
(* What the encoders write: the groups of a varint, and how many they are.  *)

LEMMA PowersArePositive ==
  ASSUME NEW n \in 0..WordBits + 7
  PROVE  2^n \in Nat /\ 2^n >= 1
<1> DEFINE P == {k \in Nat : k <= WordBits + 7 => 2^k >= 1}
<1>1. 0 \in P
  <2>1. 2^0 = 1
    OBVIOUS
  <2> QED
    BY <2>1
<1>2. ASSUME NEW k \in Nat, k \in P
      PROVE  k + 1 \in P
  <2> SUFFICES ASSUME k + 1 <= WordBits + 7
               PROVE  2^(k + 1) >= 1
    OBVIOUS
  <2>1. k \in 0..WordBits + 6 /\ k <= WordBits + 7
    BY WireAssumption
  <2>2. 2^(k + 1) = 2 * 2^k
    BY <2>1, PowersOfTwo
  <2>3. 2^k >= 1 /\ 2^k \in Int
    BY <1>2, <2>1
  <2> QED
    BY <2>2, <2>3
<1> HIDE DEF P
<1>3. Nat \subseteq P
  BY <1>1, <1>2, NatSetInduction
<1>4. n \in Nat /\ n <= WordBits + 7
  BY WireAssumption
<1>5. 2^n >= 1 /\ 2^n \in Int
  BY <1>3, <1>4 DEF P
<1> QED
  BY <1>5

LEMMA PowersAreOrdered ==
  ASSUME NEW a \in Nat, NEW b \in Nat, a <= b, b <= WordBits + 7
  PROVE  2^a <= 2^b
<1> DEFINE P == {k \in Nat : a + k <= WordBits + 7 => 2^a <= 2^(a + k)}
<1>1. 0 \in P
  <2>1. 2^a \in Int /\ a + 0 = a
    OBVIOUS
  <2> QED
    BY <2>1
<1>2. ASSUME NEW k \in Nat, k \in P
      PROVE  k + 1 \in P
  <2> SUFFICES ASSUME a + (k + 1) <= WordBits + 7
               PROVE  2^a <= 2^(a + (k + 1))
    OBVIOUS
  <2> DEFINE c == a + k
  <2>1. c \in 0..WordBits + 6 /\ c \in 0..WordBits + 7 /\ c + 1 = a + (k + 1)
    BY WireAssumption
  <2>2. 2^a <= 2^c
    BY <1>2, <2>1, WireAssumption
  <2> HIDE DEF c
  <2>3. 2^(c + 1) = 2 * 2^c
    BY <2>1, PowersOfTwo
  <2>4. 2^c \in Nat /\ 2^a \in Int
    BY <2>1, PowersArePositive
  <2>5. 2^a <= 2^(c + 1)
    BY <2>2, <2>3, <2>4
  <2> QED
    BY <2>1, <2>5
<1> HIDE DEF P
<1>3. Nat \subseteq P
  BY <1>1, <1>2, NatSetInduction
<1>4. b - a \in Nat /\ a + (b - a) = b
  OBVIOUS
<1> QED
  BY <1>3, <1>4 DEF P

\* Seven bits are one group.
LEMMA NextGroup ==
  ASSUME NEW n \in 0..WordBits
  PROVE  2^(n + 7) = 128 * 2^n /\ 2^n \in Nat /\ 2^n >= 1
<1>1. /\ n \in Nat /\ n + 1 \in Nat
      /\ \A k \in 0..6 : n + k \in 0..WordBits + 6
      /\ (n + 1) + 1 = n + 2 /\ (n + 2) + 1 = n + 3 /\ (n + 3) + 1 = n + 4
      /\ (n + 4) + 1 = n + 5 /\ (n + 5) + 1 = n + 6 /\ (n + 6) + 1 = n + 7 /\ n + 0 = n
  BY WireAssumption
<1>2. 2^(n + 1) = 2 * 2^n
  BY <1>1, PowersOfTwo
<1>3. 2^(n + 2) = 2 * 2^(n + 1)
  BY <1>1, PowersOfTwo
<1>4. 2^(n + 3) = 2 * 2^(n + 2)
  BY <1>1, PowersOfTwo
<1>5. 2^(n + 4) = 2 * 2^(n + 3)
  BY <1>1, PowersOfTwo
<1>6. 2^(n + 5) = 2 * 2^(n + 4)
  BY <1>1, PowersOfTwo
<1>7. 2^(n + 6) = 2 * 2^(n + 5)
  BY <1>1, PowersOfTwo
<1>8. 2^(n + 7) = 2 * 2^(n + 6)
  BY <1>1, PowersOfTwo
<1>9. 2^n \in Nat /\ 2^n >= 1
  BY WireAssumption, PowersArePositive
<1> QED
  BY <1>2, <1>3, <1>4, <1>5, <1>6, <1>7, <1>8, <1>9

IsBits(x, n) == x < 2^n /\ (n > 0 => x >= 2^(n - 1))

LEMMA BitsOfWord ==
  ASSUME NEW x \in Nat, x < WordEnd
  PROVE  Bits(x) \in 0..WordBits /\ IsBits(x, Bits(x))
<1> DEFINE T == {n \in 0..WordBits : x < 2^n}
<1>1. T \in SUBSET Nat /\ T # {}
  <2>1. WordBits \in 0..WordBits
    BY WireAssumption
  <2>2. WordBits \in T
    BY <2>1, Zenon DEF WordEnd
  <2> QED
    BY <2>2
<1>2. PICK n \in T : \A m \in T : n <= m
  <2> HIDE DEF T
  <2> QED
    BY <1>1, LeastNumber
<1>3. n \in 0..WordBits /\ x < 2^n
  BY <1>2
<1>4. n > 0 => x >= 2^(n - 1)
  <2> SUFFICES ASSUME n > 0
               PROVE  x >= 2^(n - 1)
    OBVIOUS
  <2>1. n - 1 \in 0..WordBits /\ ~(n <= n - 1) /\ n - 1 \in Nat
    BY <1>3, WireAssumption
  <2>2. ~(x < 2^(n - 1))
    BY <1>2, <2>1
  <2>3. 2^(n - 1) \in Int
    BY <2>1
  <2> QED
    BY <2>2, <2>3
<1>5. \E m \in 0..WordBits : x < 2^m /\ (m > 0 => x >= 2^(m - 1))
  BY <1>3, <1>4
<1> QED
  BY <1>5, Zenon DEF Bits, IsBits

\* How many groups v has.
IsCount(v, n) ==
    /\ n \in 1..MaxVarintBytes
    /\ v < 2^(7 * n)
    /\ n > 1 => v >= 2^(7 * (n - 1))

LEMMA CountSizes ==
  ASSUME NEW n \in 1..MaxVarintBytes
  PROVE  /\ n \in Nat /\ 7 * n \in 0..WordBits + 6 /\ 7 * (n - 1) \in 0..WordBits
         /\ 7 * (n - 1) + 7 = 7 * n
BY WireAssumption DEF MaxVarintBytes

LEMMA CountIsOne ==
  ASSUME NEW v \in Nat, NEW n, NEW m, IsCount(v, n), IsCount(v, m)
  PROVE  n = m
<1>1. ASSUME NEW i, NEW j, IsCount(v, i), IsCount(v, j), i < j
      PROVE  FALSE
  <2>1. /\ i \in 1..MaxVarintBytes /\ j \in 1..MaxVarintBytes
        /\ i \in Nat /\ j \in Nat /\ 7 * i \in Nat /\ 7 * (j - 1) \in 0..WordBits
    BY <1>1, CountSizes, WireAssumption DEF IsCount
  <2> DEFINE a == 7 * i
             b == 7 * (j - 1)
  <2>2. a \in Nat /\ b \in Nat /\ a <= b /\ b <= WordBits + 7
    BY <1>1, <2>1, WireAssumption
  <2>3. v < 2^a /\ v >= 2^b
    BY <1>1, <2>1 DEF IsCount
  <2> HIDE DEF a, b
  <2>4. 2^a <= 2^b /\ 2^a \in Int /\ 2^b \in Int
    BY <2>2, PowersAreOrdered
  <2> QED
    BY <2>3, <2>4
<1>2. n \in Nat /\ m \in Nat
  BY CountSizes DEF IsCount
<1>3. ~(n < m) /\ ~(m < n)
  BY <1>1
<1> QED
  BY <1>2, <1>3

\* sov counts them.
LEMMA SovIsCount ==
  ASSUME NEW v \in Nat, v < WordEnd
  PROVE  IsCount(v, sov(v))
<1> DEFINE x == IF v = 0 THEN 1 ELSE v
           b == Bits(x)
           n == (b + 6) \div 7
<1>1. x \in Nat /\ x < WordEnd /\ x >= 1
  BY WordSizes
<1>2. b \in 0..WordBits /\ IsBits(x, b)
  <2> HIDE DEF x
  <2> QED
    BY <1>1, BitsOfWord
<1>3. b \in Nat /\ b <= WordBits /\ x < 2^b /\ (b > 0 => x >= 2^(b - 1))
  BY <1>2, WireAssumption DEF IsBits
<1>4. b >= 1
  <2>1. 2^0 = 1
    OBVIOUS
  <2>2. b = 0 => x < 1
    BY <1>3, <2>1
  <2> HIDE DEF b, x
  <2> QED
    BY <1>1, <1>3, <2>2
<1>5. sov(v) = n
  BY Zenon DEF sov
<1> HIDE DEF b
<1>6. n \in 1..MaxVarintBytes /\ b <= 7 * n /\ 7 * (n - 1) <= b - 1
  BY <1>3, <1>4, WireAssumption DEF MaxVarintBytes
<1>7. n \in Nat /\ n >= 1 /\ 7 * n \in Nat /\ 7 * n <= WordBits + 7 /\ 7 * (n - 1) \in Nat
      /\ b - 1 <= WordBits + 7 /\ b - 1 \in Nat
  BY <1>3, <1>4, <1>6, CountSizes, WireAssumption
<1> DEFINE c == 7 * n
           d == 7 * (n - 1)
           e == b - 1
<1>8. /\ c \in Nat /\ c <= WordBits + 7 /\ d \in Nat /\ e \in Nat /\ e <= WordBits + 7
      /\ b <= c /\ d <= e /\ d <= WordBits + 7
  BY <1>6, <1>7, WireAssumption
<1>9. x < 2^b /\ x >= 2^e
  BY <1>3, <1>4
<1> HIDE DEF c, d, e
<1>10. /\ 2^b <= 2^c /\ 2^d <= 2^e
       /\ 2^b \in Int /\ 2^c \in Int /\ 2^d \in Int /\ 2^e \in Int
  BY <1>3, <1>8, PowersAreOrdered
<1>11. x < 2^c /\ x >= 2^d
  <2> HIDE DEF x
  <2> QED
    BY <1>1, <1>9, <1>10
<1>12. v < 2^c
  BY <1>1, <1>10, <1>11
<1>13. n > 1 => v >= 2^d
  <2> SUFFICES ASSUME n > 1
               PROVE  v >= 2^d
    OBVIOUS
  <2>1. 1 <= d
    BY <1>7 DEF d
  <2>2. 2^1 = 2
    OBVIOUS
  <2>3. 2^1 <= 2^d
    BY <1>8, <2>1, PowersAreOrdered
  <2>4. x # 1
    BY <1>10, <1>11, <2>2, <2>3
  <2> QED
    BY <1>11, <2>4
<1> HIDE DEF n
<1> QED
  BY <1>5, <1>6, <1>12, <1>13, Zenon DEF c, d, IsCount

LEMMA QuotientIsNat ==
  ASSUME NEW v \in Nat, NEW d \in Nat, d >= 1
  PROVE  v \div d \in Nat
OBVIOUS

\* The groups: all but the last have the high bit.
LEMMA GroupsAreWritten ==
  ASSUME NEW v \in Nat, v < WordEnd, NEW n, n = sov(v)
  PROVE  /\ n \in 1..MaxVarintBytes /\ n \in Nat
         /\ Groups(v) \in Seq(Byte) /\ Len(Groups(v)) = n
         /\ \A k \in 1..n : /\ Groups(v)[k] % 128 = (v \div 2^(7 * (k - 1))) % 128
                            /\ Groups(v)[k] < 128 <=> k = n
         /\ v < 2^(7 * n)
<1>1. IsCount(v, n)
  BY SovIsCount
<1> DEFINE m == CHOOSE k \in 1..MaxVarintBytes :
                    v < 2^(7 * k) /\ (k > 1 => v >= 2^(7 * (k - 1)))
           g(k) == ((v \div 2^(7 * (k - 1))) % 128) + (IF k < n THEN 128 ELSE 0)
<1>2. IsCount(v, m)
  BY <1>1, Zenon DEF IsCount
<1>3. m = n
  <2> HIDE DEF m
  <2> QED
    BY <1>1, <1>2, CountIsOne
<1>4. Groups(v) = [k \in 1..n |-> g(k)]
  BY <1>3, Zenon DEF Groups
<1>5. n \in 1..MaxVarintBytes /\ n \in Nat /\ v < 2^(7 * n)
  BY <1>1, CountSizes DEF IsCount
<1> HIDE DEF m
<1>6. ASSUME NEW k \in 1..n
      PROVE  /\ g(k) \in Byte /\ g(k) % 128 = (v \div 2^(7 * (k - 1))) % 128
             /\ g(k) < 128 <=> k = n
  <2> DEFINE e == 7 * (k - 1)
             q == v \div 2^e
  <2>1. k \in 1..MaxVarintBytes /\ k \in Nat
    BY <1>5, WireAssumption DEF MaxVarintBytes
  <2>2. e \in 0..WordBits
    BY <2>1, CountSizes
  <2> HIDE DEF e
  <2>3. 2^e \in Nat /\ 2^e >= 1
    BY <2>2, NextGroup
  <2>4. q \in Nat
    BY <2>3, QuotientIsNat
  <2>5. g(k) = (q % 128) + (IF k < n THEN 128 ELSE 0)
    BY DEF e
  <2> HIDE DEF q
  <2>6. q % 128 \in 0..127
    BY <2>4
  <2>7. g(k) \in Byte /\ g(k) % 128 = q % 128 /\ (g(k) < 128 <=> k = n)
    <3> DEFINE s == q % 128
               t == (q % 128) + (IF k < n THEN 128 ELSE 0)
    <3>1. t = s + (IF k < n THEN 128 ELSE 0)
      OBVIOUS
    <3>2. g(k) = t
      BY <2>5, Zenon
    <3> HIDE DEF s, t, g
    <3>3. s \in 0..127
      BY <2>6, Zenon DEF s
    <3>4. t \in Byte /\ t % 128 = s /\ (t < 128 <=> k = n)
      BY <1>5, <2>1, <3>1, <3>3 DEF Byte
    <3> QED
      BY <3>2, <3>4, Zenon DEF s
  <2> QED
    BY <2>7, Zenon DEF q, e
<1> HIDE DEF g
<1>7. Groups(v) \in Seq(Byte) /\ Len(Groups(v)) = n
  BY <1>4, <1>5, <1>6
<1>8. \A k \in 1..n : Groups(v)[k] = g(k)
  BY <1>4
<1> QED
  BY <1>5, <1>6, <1>7, <1>8, Zenon

LEMMA Product ==
  ASSUME NEW d \in Nat, NEW t \in Nat, NEW u \in Nat, t < u
  PROVE  d * t + d <= d * u
<1> DEFINE c == u - t - 1
<1>1. c \in Nat /\ u = t + 1 + c
  OBVIOUS
<1> HIDE DEF c
<1>2. d * u = d * t + d + d * c
  BY <1>1
<1>3. d * c \in Nat
  BY <1>1
<1>4. d * t \in Nat /\ d * u \in Nat
  OBVIOUS
<1> QED
  BY <1>2, <1>3, <1>4

\* The quotient of a division is one.
LEMMA QuotientIsOne ==
  ASSUME NEW v \in Nat, NEW d \in Nat, d >= 1, NEW t \in Nat, NEW m \in Nat, m < d, v = d * t + m
  PROVE  v \div d = t
<1> DEFINE q == v \div d
           r == v % d
<1>1. q \in Nat /\ r \in Nat /\ r < d /\ v = d * q + r
  OBVIOUS
<1> HIDE DEF q, r
<1>2. ~(q < t)
  BY <1>1, Product
<1>3. ~(t < q)
  BY <1>1, Product
<1>4. q = t
  BY <1>1, <1>2, <1>3
<1> QED
  BY <1>4 DEF q

LEMMA NextQuotient ==
  ASSUME NEW v \in Nat, NEW p \in Nat, p >= 1
  PROVE  /\ v \div p = ((v \div p) % 128) + 128 * (v \div (128 * p))
         /\ v < 128 * p => (v \div p) % 128 = v \div p
<1> DEFINE q == v \div p
           r == v % p
           t == q \div 128
           s == q % 128
           d == 128 * p
           m == p * s + r
<1>1. q \in Nat /\ r \in Nat /\ r < p /\ v = p * q + r
  OBVIOUS
<1> HIDE DEF q, r
<1>2. t \in Nat /\ s \in Nat /\ s < 128 /\ q = 128 * t + s
  BY <1>1
<1> HIDE DEF t, s
<1>3. p * s + p <= p * 128 /\ p * s \in Nat
  BY <1>2, Product
<1>4. d \in Nat /\ d >= 1 /\ m \in Nat /\ m < d
  BY <1>1, <1>3
<1>5. p * q = d * t + p * s
  <2>1. p * q = p * (128 * t + s)
    BY <1>2
  <2>2. p * (128 * t + s) = p * (128 * t) + p * s
    BY <1>2
  <2>3. p * (128 * t) = d * t
    BY <1>2
  <2> QED
    BY <2>1, <2>2, <2>3
<1>6. v = d * t + m
  <2>1. p * q \in Nat /\ d * t \in Nat /\ p * s \in Nat
    BY <1>1, <1>2, <1>3, <1>4
  <2> QED
    BY <1>1, <1>5, <2>1
<1> HIDE DEF d, m
<1>7. v \div d = t
  BY <1>2, <1>4, <1>6, QuotientIsOne
<1>8. v < d => q < 128
  <2> SUFFICES ASSUME v < d, 128 <= q
               PROVE  FALSE
    BY <1>1
  <2>1. p * 128 <= p * q
    <3>1. 127 < q
      BY <1>1
    <3>2. p * 127 + p <= p * q
      BY <1>1, <3>1, Product
    <3> QED
      BY <3>2
  <2>2. p * q \in Nat
    BY <1>1
  <2> QED
    BY <1>1, <2>1, <2>2 DEF d
<1>9. q < 128 => q % 128 = q
  BY <1>1
<1> QED
  BY <1>2, <1>7, <1>8, <1>9 DEF q, d, t, s

LEMMA LeastOfInterval ==
  ASSUME NEW k \in Nat, NEW n \in Nat, k <= n
  PROVE  Least(k..n) = k /\ (k..n) \ {k} = (k + 1)..n
<1>1. k \in k..n /\ \A y \in k..n : k <= y
  OBVIOUS
<1>2. ASSUME NEW x \in k..n, \A y \in k..n : x <= y
      PROVE  x = k
  BY <1>1, <1>2
<1>3. Least(k..n) \in k..n /\ \A y \in k..n : Least(k..n) <= y
  BY <1>1, Zenon DEF Least
<1>4. Least(k..n) = k
  BY <1>2, <1>3
<1> QED
  BY <1>4

\* From its k-th group on, the value of v is v without the groups before.
LEMMA FoldOfGroups ==
  ASSUME NEW v \in Nat, v < WordEnd, NEW n, n = sov(v),
         NEW f, IsValue(Groups(v), Places(n), f)
  PROVE  f[1..n] = v
<1> DEFINE rest(k) == v \div 2^(7 * (k - 1))
           P == {j \in Nat : j < n => f[(n - j)..n] = rest(n - j)}
<1>1. /\ n \in 1..MaxVarintBytes /\ n \in Nat /\ v < 2^(7 * n) /\ n >= 1
      /\ \A k \in 1..n : Groups(v)[k] % 128 = rest(k) % 128
  BY GroupsAreWritten
<1>2. ASSUME NEW k \in 1..n
      PROVE  f[k..n] = (rest(k) % 128) + 128 * f[(k + 1)..n]
  <2>1. k \in Nat /\ k <= n /\ k..n \in Places(n) /\ k..n # {}
    BY <1>1 DEF Places
  <2>2. f[k..n] = ValueOf(Groups(v), k..n, f)
    BY <2>1 DEF IsValue
  <2>3. Least(k..n) = k /\ (k..n) \ {k} = (k + 1)..n
    BY <1>1, <2>1, LeastOfInterval
  <2>4. f[k..n] = (Groups(v)[k] % 128) + 128 * f[(k + 1)..n]
    BY <2>1, <2>2, <2>3, Zenon DEF ValueOf
  <2> QED
    BY <1>1, <2>4, Zenon
<1>3. ASSUME NEW k \in 1..n
      PROVE  /\ rest(k) = (rest(k) % 128) + 128 * rest(k + 1)
             /\ k = n => rest(k) % 128 = rest(k)
             /\ rest(k) \in Nat
  <2> DEFINE a == 7 * (k - 1)
             p == 2^a
  <2>1. k \in 1..MaxVarintBytes /\ k \in Nat
    BY <1>1, WireAssumption DEF MaxVarintBytes
  <2>2. a \in 0..WordBits /\ a + 7 = 7 * k /\ 7 * ((k + 1) - 1) = a + 7
    BY <2>1, CountSizes
  <2>3. 2^(a + 7) = 128 * 2^a /\ 2^a \in Nat /\ 2^a >= 1
    <3> HIDE DEF a
    <3> QED
      BY <2>2, NextGroup
  <2>4. rest(k) = v \div p /\ rest(k + 1) = v \div (128 * p)
    <3>1. 2^(7 * ((k + 1) - 1)) = 128 * p
      BY <2>2, <2>3, Zenon
    <3> QED
      BY <3>1, Zenon
  <2>5. k = n => v < 128 * p
    <3>1. k = n => v < 2^(7 * k)
      BY <1>1, Zenon
    <3>2. 2^(7 * k) = 128 * p
      BY <2>2, <2>3, Zenon
    <3> QED
      BY <3>1, <3>2, Zenon
  <2> HIDE DEF a, p
  <2>6. p \in Nat /\ p >= 1
    BY <2>3, Zenon DEF p
  <2>7. /\ v \div p = ((v \div p) % 128) + 128 * (v \div (128 * p))
        /\ v < 128 * p => (v \div p) % 128 = v \div p
        /\ v \div p \in Nat
    <3>1. /\ v \div p = ((v \div p) % 128) + 128 * (v \div (128 * p))
          /\ v < 128 * p => (v \div p) % 128 = v \div p
      BY <2>6, NextQuotient, ZenonT(30)
    <3>2. v \div p \in Nat
      BY <2>6, QuotientIsNat, Zenon
    <3> QED
      BY <3>1, <3>2, Zenon
  <2> HIDE DEF rest
  <2> QED
    BY <2>4, <2>5, <2>7, Zenon
<1>4. 0 \in P
  <2>1. n \in 1..n /\ n - 0 = n
    BY <1>1
  <2>2. f[(n + 1)..n] = 0
    <3>1. (n + 1)..n = {}
      BY <1>1
    <3>2. {} \in Places(n)
      BY DEF Places
    <3>3. f[{}] = ValueOf(Groups(v), {}, f)
      BY <3>2 DEF IsValue
    <3> QED
      BY <3>1, <3>3, Zenon DEF ValueOf
  <2>3. rest(n) % 128 = rest(n) /\ rest(n) \in Nat
    BY <1>3, <2>1
  <2>4. f[n..n] = (rest(n) % 128) + 128 * f[(n + 1)..n]
    BY <1>2, <2>1
  <2> HIDE DEF rest
  <2>5. f[n..n] = rest(n)
    BY <2>2, <2>3, <2>4
  <2> QED
    BY <2>1, <2>5
<1>5. ASSUME NEW j \in Nat, j \in P
      PROVE  j + 1 \in P
  <2> SUFFICES ASSUME j + 1 < n
               PROVE  f[(n - (j + 1))..n] = rest(n - (j + 1))
    OBVIOUS
  <2> DEFINE k == n - (j + 1)
  <2>1. k \in 1..n /\ k + 1 = n - j /\ j < n
    BY <1>1
  <2>2. f[(k + 1)..n] = rest(k + 1)
    BY <1>5, <2>1
  <2>3. f[k..n] = (rest(k) % 128) + 128 * f[(k + 1)..n]
    BY <1>2, <2>1, ZenonT(30)
  <2>4. rest(k) = (rest(k) % 128) + 128 * rest(k + 1)
    BY <1>3, <2>1
  <2> HIDE DEF rest, k
  <2>5. f[k..n] = rest(k)
    BY <2>2, <2>3, <2>4, Zenon
  <2> QED
    BY <2>5 DEF k
<1> HIDE DEF P
<1>6. Nat \subseteq P
  BY <1>4, <1>5, NatSetInduction
<1>7. n - 1 \in P /\ n - 1 < n /\ n - (n - 1) = 1
  BY <1>1, <1>6
<1>8. f[1..n] = rest(1)
  BY <1>7 DEF P
<1>9. rest(1) = v
  <2>1. 7 * (1 - 1) = 0 /\ 2^0 = 1 /\ v \div 1 = v
    OBVIOUS
  <2> QED
    BY <2>1, Zenon
<1> QED
  BY <1>8, <1>9, Zenon

\* The value of the groups of v is v.
LEMMA ValueOfGroups ==
  ASSUME NEW v \in Nat, v < WordEnd
  PROVE  VarintValue(Groups(v)) = v
<1> DEFINE bytes == Groups(v)
           n == sov(v)
           f == CHOOSE g : IsValue(bytes, Places(n), g)
           fold == FoldRight(LAMBDA b, high : (b % 128) + 128 * high, bytes, 0)
<1>1. bytes \in Seq(Byte) /\ n \in Nat /\ Len(bytes) = n
  BY GroupsAreWritten
<1>2. DOMAIN bytes = 1..n
  <2> HIDE DEF bytes, n
  <2> QED
    BY <1>1
<1>3. IsValue(bytes, Places(n), f)
  <2> HIDE DEF bytes, n
  <2>1. Places(n) = Small(n, n)
    BY <1>1, AllAreSmall
  <2> QED
    BY <1>1, <2>1, ValueExists
<1>4. fold = f[1..n]
  BY <1>2, FoldIsChosen, Zenon DEF Places
<1>5. f[1..n] = v
  <2> HIDE DEF f
  <2> QED
    BY <1>3, FoldOfGroups
<1>6. v % WordEnd = v
  BY WordSizes
<1>7. VarintValue(bytes) = fold % WordEnd
  BY Zenon DEF VarintValue, WordEnd
<1> QED
  BY <1>4, <1>5, <1>6, <1>7, Zenon

-----------------------------------------------------------------------------
(* The buffer that is filled from its end.                                  *)

Filled(out, size, bytes) ==
    /\ bytes \in Seq(Byte)
    /\ out.i \in Nat /\ out.i + Len(bytes) = size
    /\ out.buf \in [1..size -> Byte]
    /\ \A k \in 1..Len(bytes) : out.buf[out.i + k] = bytes[k]

LEMMA Joined ==
  ASSUME NEW s \in Seq(Byte), NEW t \in Seq(Byte),
         NEW m, m = Len(s), NEW n, n = Len(t)
  PROVE  /\ s \o t \in Seq(Byte) /\ Len(s \o t) = m + n
         /\ \A k \in 1..m : (s \o t)[k] = s[k]
         /\ \A k \in 1..n : (s \o t)[m + k] = t[k]
<1>1. s \o t \in Seq(Byte) /\ Len(s \o t) = Len(s) + Len(t)
      /\ Len(s) \in Nat /\ Len(t) \in Nat
  OBVIOUS
<1>2. \A k \in 1..Len(s) + Len(t) : (s \o t)[k] = IF k <= Len(s) THEN s[k] ELSE t[k - Len(s)]
  OBVIOUS
<1> DEFINE u == s \o t
<1>3. /\ m \in Nat /\ n \in Nat
      /\ \A k \in 1..m + n : u[k] = IF k <= m THEN s[k] ELSE t[k - m]
  BY <1>1, <1>2
<1> HIDE DEF u
<1>4. ASSUME NEW k \in 1..m
      PROVE  u[k] = s[k]
  BY <1>3
<1>5. ASSUME NEW k \in 1..n
      PROVE  u[m + k] = t[k]
  <2>1. m + k \in 1..m + n /\ ~(m + k <= m) /\ (m + k) - m = k
    BY <1>3
  <2> QED
    BY <1>3, <2>1
<1> QED
  BY <1>1, <1>4, <1>5, Zenon DEF u

LEMMA PrependFills ==
  ASSUME NEW size \in Nat, NEW out, NEW bytes, Filled(out, size, bytes),
         NEW new \in Seq(Byte), Len(new) <= out.i
  PROVE  Filled(Prepend(out, new), size, new \o bytes)
<1> DEFINE n   == Len(new)
           m   == Len(bytes)
           i   == out.i
           buf == out.buf
           at  == i - n
           all == new \o bytes
           put == [k \in DOMAIN buf |-> IF k - at \in DOMAIN new THEN new[k - at] ELSE buf[k]]
<1>1. /\ n \in Nat /\ m \in Nat /\ i \in Nat /\ i + m = size /\ n <= i
      /\ buf \in [1..size -> Byte] /\ bytes \in Seq(Byte)
      /\ DOMAIN new = 1..n
      /\ \A k \in 1..n : new[k] \in Byte
      /\ \A k \in 1..m : buf[i + k] = bytes[k]
  BY DEF Filled
<1>2. /\ all \in Seq(Byte) /\ Len(all) = n + m
      /\ \A k \in 1..n : all[k] = new[k]
      /\ \A k \in 1..m : all[n + k] = bytes[k]
  <2>1. bytes \in Seq(Byte) /\ n = Len(new) /\ m = Len(bytes)
    BY <1>1
  <2> HIDE DEF n, m
  <2> QED
    BY <2>1, Joined
<1>3. Prepend(out, new) = [buf |-> put, i |-> at]
  BY Zenon DEF Prepend, Write
<1> HIDE DEF n, m, i, buf, all
<1>4. at \in Nat /\ at + (n + m) = size
  BY <1>1
<1> HIDE DEF at
<1>5. put \in [1..size -> Byte]
  BY <1>1
<1>6. ASSUME NEW k \in 1..n + m
      PROVE  put[at + k] = all[k]
  <2>1. at + k \in 1..size /\ k \in Nat /\ (at + k) - at = k
    BY <1>1, <1>4
  <2>2. put[at + k] = IF k \in 1..n THEN new[k] ELSE buf[at + k]
    BY <1>1, <2>1
  <2>3. CASE k \in 1..n
    <3> HIDE DEF put
    <3> QED
      BY <1>2, <2>2, <2>3
  <2>4. CASE k \notin 1..n
    <3> DEFINE j == k - n
    <3>1. j \in 1..m /\ at + k = i + j /\ n + j = k
      BY <1>1, <2>4 DEF at
    <3>2. buf[at + k] = bytes[j] /\ all[n + j] = bytes[j]
      BY <1>1, <1>2, <3>1
    <3> HIDE DEF put, j
    <3> QED
      BY <2>2, <2>4, <3>1, <3>2
  <2> QED
    BY <2>3, <2>4
<1> HIDE DEF put
<1>7. Prepend(out, new).buf = put /\ Prepend(out, new).i = at
  BY <1>3
<1> QED
  BY <1>2, <1>4, <1>5, <1>6, <1>7, Zenon DEF Filled, all

\* A length-delimited field before other bytes.
Encoded(tag, content, others) ==
    <<tag>> \o (Groups(Len(content)) \o (content \o others))

HasParts(x, tag, g, n, content, l, others) ==
    /\ x \in Seq(Byte) /\ n \in Nat /\ n >= 1 /\ l \in Nat /\ Len(others) \in Nat
    /\ Len(x) = SizeField(l) + Len(others) /\ Len(x) = 1 + n + l + Len(others)
    /\ x[1] = tag
    /\ \A k \in 1..n : x[1 + k] = g[k]
    /\ \A k \in 1..l : x[1 + n + k] = content[k]
    /\ \A k \in 1..Len(others) : x[1 + n + l + k] = others[k]

LEMMA EncodedParts ==
  ASSUME NEW tag \in Byte, NEW content \in Seq(Byte), NEW others \in Seq(Byte),
         NEW l, l = Len(content), l < WordEnd
  PROVE  HasParts(Encoded(tag, content, others), tag, Groups(l), sov(l), content, l, others)
<1> DEFINE r == content \o others
           s == Groups(l) \o r
           t == <<tag>> \o s
           o == Len(others)
           n == sov(l)
<1>1. l \in Nat /\ o \in Nat
  OBVIOUS
<1>2. Groups(l) \in Seq(Byte) /\ Len(Groups(l)) = n /\ n \in Nat /\ n >= 1
  BY <1>1, GroupsAreWritten
<1> HIDE DEF n
<1>3. /\ r \in Seq(Byte) /\ Len(r) = l + o
      /\ \A k \in 1..l : r[k] = content[k]
      /\ \A k \in 1..o : r[l + k] = others[k]
  <2>1. o = Len(others)
    OBVIOUS
  <2> HIDE DEF o
  <2> QED
    BY <2>1, Joined
<1> HIDE DEF r
<1>4. /\ s \in Seq(Byte) /\ Len(s) = n + (l + o)
      /\ \A k \in 1..n : s[k] = Groups(l)[k]
      /\ \A k \in 1..l + o : s[n + k] = r[k]
  <2>1. l + o = Len(r) /\ n = Len(Groups(l))
    BY <1>2, <1>3, Zenon
  <2> DEFINE g == Groups(l)
             p == l + o
  <2>2. g \in Seq(Byte) /\ n = Len(g) /\ p = Len(r)
    BY <1>2, <2>1, Zenon
  <2> HIDE DEF g, o, p
  <2>3. /\ g \o r \in Seq(Byte) /\ Len(g \o r) = n + p
        /\ \A k \in 1..n : (g \o r)[k] = g[k]
        /\ \A k \in 1..p : (g \o r)[n + k] = r[k]
    BY <1>3, <2>2, Joined, SMTT(30)
  <2> QED
    BY <2>3, Zenon DEF g, p
<1> HIDE DEF s
<1>5. <<tag>> \in Seq(Byte) /\ Len(<<tag>>) = 1 /\ <<tag>>[1] = tag
  OBVIOUS
<1>6. /\ t \in Seq(Byte) /\ Len(t) = 1 + (n + (l + o))
      /\ \A k \in 1..1 : t[k] = <<tag>>[k]
      /\ \A k \in 1..n + (l + o) : t[1 + k] = s[k]
  <2> DEFINE h == <<tag>>
             e == 1
             p == n + (l + o)
  <2>1. h \in Seq(Byte) /\ e = Len(h) /\ p = Len(s)
    BY <1>4, <1>5, Zenon
  <2> HIDE DEF h, e, o, p
  <2>2. /\ h \o s \in Seq(Byte) /\ Len(h \o s) = e + p
        /\ \A k \in 1..e : (h \o s)[k] = h[k]
        /\ \A k \in 1..p : (h \o s)[e + k] = s[k]
    BY <1>4, <2>1, Joined, SMTT(30)
  <2> QED
    BY <2>2, Zenon DEF h, e, p
<1> HIDE DEF t, o
<1>7. t[1] = tag
  BY <1>5, <1>6
<1>8. ASSUME NEW k \in 1..n
      PROVE  t[1 + k] = Groups(l)[k]
  BY <1>1, <1>2, <1>4, <1>6
<1>9. ASSUME NEW k \in 1..l
      PROVE  t[1 + n + k] = content[k]
  <2>1. k \in 1..l + o /\ n + k \in 1..n + (l + o) /\ 1 + n + k = 1 + (n + k)
    <3>1. n \in Nat /\ k \in Nat /\ k >= 1 /\ k <= l
      BY <1>1, <1>2
    <3> QED
      BY <1>1, <3>1
  <2> QED
    BY <1>3, <1>4, <1>6, <2>1
<1>10. ASSUME NEW k \in 1..o
       PROVE  t[1 + n + l + k] = others[k]
  <2>1. l + k \in 1..l + o /\ n + (l + k) \in 1..n + (l + o) /\ 1 + n + l + k = 1 + (n + (l + k))
    <3>1. n \in Nat /\ k \in Nat /\ k >= 1 /\ k <= o
      BY <1>1, <1>2
    <3> QED
      BY <1>1, <3>1
  <2> QED
    BY <1>3, <1>4, <1>6, <2>1
<1>11. Len(t) = SizeField(l) + o /\ Len(t) = 1 + n + l + o
  <2>1. n \in Nat /\ Len(t) = 1 + (n + (l + o))
    BY <1>2, <1>6
  <2>2. SizeField(l) = 1 + l + n
    BY DEF SizeField, n
  <2> QED
    BY <1>1, <2>1, <2>2
<1>12. t = Encoded(tag, content, others)
  BY Zenon DEF Encoded, t, s, r
<1> QED
  BY <1>1, <1>2, <1>6, <1>7, <1>8, <1>9, <1>10, <1>11, <1>12, Zenon DEF o, n, HasParts

LEMMA FieldFills ==
  ASSUME NEW size \in Nat, NEW out, NEW bytes, Filled(out, size, bytes),
         NEW tag \in Byte, NEW content \in Seq(Byte), Len(content) < WordEnd,
         SizeField(Len(content)) <= out.i
  PROVE  Filled(PutField(out, tag, content), size, Encoded(tag, content, bytes))
<1> DEFINE l == Len(content)
           n == sov(l)
           A == Prepend(out, content)
           B == encodeVarint(A, l)
           C == Prepend(B, <<tag>>)
<1>1. out.i \in Nat /\ l \in Nat
  BY DEF Filled
<1>2. /\ Groups(l) \in Seq(Byte) /\ Len(Groups(l)) = n /\ n \in Nat
  <2> HIDE DEF l, n
  <2>1. l < WordEnd
    BY DEF l
  <2> QED
    BY <1>1, <2>1, GroupsAreWritten DEF n
<1>3. 1 + l + n <= out.i
  BY DEF SizeField
<1>4. l <= out.i
  <2> DEFINE i == out.i
  <2>1. 1 + l + n <= i /\ i \in Nat
    BY <1>1, <1>3
  <2> HIDE DEF i, l, n
  <2> QED
    BY <1>1, <1>2, <2>1 DEF i
<1>5. Filled(A, size, content \o bytes)
  BY <1>4, PrependFills
<1>6. A.i = out.i - l
  BY DEF Prepend
<1>7. B = Prepend(A, Groups(l))
  BY <1>2, Zenon DEF encodeVarint, Prepend
<1>8. n <= A.i
  <2> DEFINE i == out.i
  <2>1. 1 + l + n <= i /\ i \in Nat /\ A.i = i - l
    BY <1>1, <1>3, <1>6
  <2> HIDE DEF i, l, n
  <2> QED
    BY <1>1, <1>2, <2>1
<1>9. Filled(B, size, Groups(l) \o (content \o bytes))
  <2> HIDE DEF A, B, n
  <2> QED
    BY <1>2, <1>5, <1>7, <1>8, PrependFills
<1>10. B.i = A.i - n
  BY <1>2, <1>7 DEF Prepend
<1>11. 1 <= B.i
  <2> DEFINE i == out.i
  <2>1. 1 + l + n <= i /\ i \in Nat /\ B.i = (i - l) - n
    BY <1>1, <1>3, <1>6, <1>10, Zenon
  <2> HIDE DEF i, l, n
  <2> QED
    BY <1>1, <1>2, <2>1
<1>12. <<tag>> \in Seq(Byte) /\ Len(<<tag>>) = 1
  OBVIOUS
<1>13. Filled(C, size, <<tag>> \o (Groups(l) \o (content \o bytes)))
  <2> HIDE DEF B
  <2> QED
    BY <1>9, <1>11, <1>12, PrependFills
<1>14. C = PutField(out, tag, content)
  BY Zenon DEF PutField
<1> QED
  BY <1>13, <1>14, Zenon DEF Encoded

LEMMA FullBuffer ==
  ASSUME NEW size \in Nat, NEW out, NEW bytes, Filled(out, size, bytes), Len(bytes) = size
  PROVE  SubSeq(out.buf, 1, size - out.i) = bytes
<1>1. out.i = 0 /\ bytes \in Seq(Byte) /\ out.buf \in [1..size -> Byte]
  BY DEF Filled
<1>2. \A k \in 1..size : out.buf[k] = bytes[k]
  <2>1. \A k \in 1..Len(bytes) : out.buf[out.i + k] = bytes[k]
    BY DEF Filled
  <2> QED
    BY <1>1, <2>1
<1> DEFINE buf == out.buf
<1>3. buf \in Seq(Byte) /\ Len(buf) = size /\ \A k \in 1..size : buf[k] = bytes[k]
  BY <1>1, <1>2
<1> HIDE DEF buf
<1>4. SubSeq(buf, 1, size) = buf
  BY <1>3
<1>5. buf = bytes
  BY <1>1, <1>3
<1>6. size - out.i = size
  BY <1>1
<1> QED
  BY <1>4, <1>5, <1>6, Zenon DEF buf

LEMMA EmptyBuffer ==
  ASSUME NEW size \in Nat
  PROVE  Filled([buf |-> [k \in 1..size |-> 0], i |-> size], size, <<>>)
BY DEF Filled, Byte

\* What Marshal writes: the authority, if there is one, and Params before it.
ParamsWritten(message) ==
    CASE message = "MsgUpdateParams" -> Encoded(18, <<>>, <<>>)
      [] message \in {"GenesisState", "QueryParamsResponse"} -> Encoded(10, <<>>, <<>>)
      [] OTHER -> <<>>

Written(message, a) ==
    IF HasAuthority(message) /\ Len(a) > 0
    THEN Encoded(10, a, ParamsWritten(message)) ELSE ParamsWritten(message)

LEMMA SizesAreNat ==
  ASSUME NEW l \in Nat, l < WordEnd
  PROVE  SizeField(l) \in Nat /\ SizeField(l) >= 1 + l
<1> DEFINE n == sov(l)
<1>1. n \in Nat
  <2> HIDE DEF n
  <2> QED
    BY GroupsAreWritten DEF n
<1>2. SizeField(l) = 1 + l + n
  BY Zenon DEF SizeField
<1> HIDE DEF n
<1> QED
  BY <1>1, <1>2

\* A message that has only a Params.
LEMMA ParamsFill ==
  ASSUME NEW size \in Nat, NEW out, Filled(out, size, <<>>), SizeField(0) <= size,
         NEW tag \in Byte
  PROVE  /\ Filled(PutField(out, tag, <<>>), size, Encoded(tag, <<>>, <<>>))
         /\ Encoded(tag, <<>>, <<>>) \in Seq(Byte)
         /\ Len(Encoded(tag, <<>>, <<>>)) = SizeField(0)
<1> DEFINE none == <<>>
<1>1. none \in Seq(Byte) /\ Len(none) = 0
  OBVIOUS
<1>2. 0 < WordEnd
  BY WordSizes
<1>3. out.i = size
  BY DEF Filled
<1> HIDE DEF none
<1>4. Filled(out, size, none)
  BY Zenon DEF none
<1>5. Filled(PutField(out, tag, none), size, Encoded(tag, none, none))
  <2>1. Len(none) < WordEnd /\ SizeField(Len(none)) <= out.i
    BY <1>1, <1>2, <1>3, Zenon
  <2> QED
    BY <1>1, <1>4, <2>1, FieldFills
<1>6. Encoded(tag, none, none) \in Seq(Byte) /\ Len(Encoded(tag, none, none)) = SizeField(0) + 0
  <2> DEFINE x == Encoded(tag, none, none)
             l == Len(none)
  <2>1. l = Len(none) /\ l < WordEnd
    BY <1>1, <1>2, Zenon
  <2> HIDE DEF l
  <2>2. HasParts(x, tag, Groups(l), sov(l), none, l, none)
    BY <1>1, <2>1, EncodedParts, Zenon
  <2>3. x \in Seq(Byte) /\ Len(x) = SizeField(l) + Len(none)
    BY <2>2, Zenon DEF HasParts
  <2> QED
    BY <1>1, <2>1, <2>3, Zenon
<1>7. SizeField(0) \in Nat
  BY <1>2, SizesAreNat
<1>8. SizeField(0) + 0 = SizeField(0)
  BY <1>7
<1> QED
  BY <1>5, <1>6, <1>8, Zenon DEF none

\* The authority goes before what is written.
LEMMA AuthorityFills ==
  ASSUME NEW size \in Nat, NEW out, NEW bytes, Filled(out, size, bytes),
         NEW a \in Seq(Byte), Len(a) < WordEnd,
         NEW s, s = (IF Len(a) > 0 THEN SizeField(Len(a)) ELSE 0), size = s + Len(bytes),
         NEW w, w = (IF Len(a) > 0 THEN Encoded(10, a, bytes) ELSE bytes)
  PROVE  Filled(PutAuthority(out, a), size, w) /\ Len(w) = size
<1>1. bytes \in Seq(Byte) /\ Len(bytes) \in Nat /\ out.i \in Nat /\ out.i + Len(bytes) = size
  BY DEF Filled
<1>2. Len(a) \in Nat
  OBVIOUS
<1>3. CASE Len(a) > 0
  <2>1. s = SizeField(Len(a)) /\ w = Encoded(10, a, bytes)
        /\ PutAuthority(out, a) = PutField(out, 10, a)
    BY <1>3, Zenon DEF PutAuthority
  <2>2. s \in Nat
    BY <1>2, <2>1, SizesAreNat
  <2>3. s <= out.i
    <3> DEFINE i == out.i
               m == Len(bytes)
    <3>1. i \in Nat /\ m \in Nat /\ i + m = size /\ size = s + m
      BY <1>1
    <3> HIDE DEF i, m
    <3> QED
      BY <2>2, <3>1 DEF i
  <2>4. 10 \in Byte
    BY DEF Byte
  <2>5. Filled(PutField(out, 10, a), size, Encoded(10, a, bytes))
    <3>1. SizeField(Len(a)) <= out.i
      BY <2>1, <2>3, Zenon
    <3> QED
      BY <2>4, <3>1, FieldFills
  <2>6. Len(Encoded(10, a, bytes)) = SizeField(Len(a)) + Len(bytes)
    BY <1>1, <2>4, EncodedParts DEF HasParts
  <2> QED
    BY <2>1, <2>5, <2>6, Zenon
<1>4. CASE ~(Len(a) > 0)
  <2>1. s = 0 /\ w = bytes /\ PutAuthority(out, a) = out
    BY <1>4, Zenon DEF PutAuthority
  <2>2. Len(bytes) = size
    BY <1>1, <2>1
  <2> QED
    BY <2>1, <2>2, Zenon
<1> QED
  BY <1>3, <1>4

LEMMA MarshalWrites ==
  ASSUME NEW message \in Messages, NEW a \in Seq(Byte), Len(a) < WordEnd
  PROVE  /\ Marshal(message, a) = Written(message, a)
         /\ Len(Marshal(message, a)) = Size(message, a)
<1> DEFINE size == Size(message, a)
           new  == [buf |-> [k \in 1..size |-> 0], i |-> size]
           out  == MarshalToSizedBuffer(message, new, a)
           s    == IF Len(a) > 0 THEN SizeField(Len(a)) ELSE 0
           p    == SizeField(0)
<1>1. p \in Nat /\ s \in Nat
  <2>1. 0 < WordEnd
    BY WordSizes
  <2>2. p \in Nat
    BY <2>1, SizesAreNat
  <2>3. Len(a) > 0 => SizeField(Len(a)) \in Nat
    BY SizesAreNat
  <2> QED
    BY <2>2, <2>3
<1>2. SUFFICES size \in Nat /\ Filled(out, size, Written(message, a))
                            /\ Len(Written(message, a)) = size
  <2> SUFFICES ASSUME size \in Nat, Filled(out, size, Written(message, a)),
                      Len(Written(message, a)) = size
               PROVE  /\ Marshal(message, a) = Written(message, a)
                      /\ Len(Marshal(message, a)) = Size(message, a)
    OBVIOUS
  <2>1. Marshal(message, a) = SubSeq(out.buf, 1, size - out.i)
    BY Zenon DEF Marshal
  <2> HIDE DEF size, out
  <2>2. SubSeq(out.buf, 1, size - out.i) = Written(message, a)
    BY FullBuffer
  <2> QED
    BY <2>1, <2>2, Zenon DEF size
<1>3. 10 \in Byte /\ 18 \in Byte /\ <<>> \in Seq(Byte) /\ Len(<<>>) = 0
  BY DEF Byte
<1>4. CASE message = "MsgUpdateParams"
  <2> DEFINE w == Encoded(18, <<>>, <<>>)
             m == PutField(new, 18, <<>>)
  <2>1. size = s + p /\ out = PutAuthority(m, a)
    <3>1. size = SizeMsgUpdateParams(a) /\ out = MarshalMsgUpdateParams(new, a)
      <4> HIDE DEF new
      <4> QED
        BY <1>4 DEF Size, MarshalToSizedBuffer
    <3> QED
      BY <3>1, Zenon DEF SizeMsgUpdateParams, SizeParams, MarshalMsgUpdateParams
  <2>2. Written(message, a) = IF Len(a) > 0 THEN Encoded(10, a, w) ELSE w
    <3>1. HasAuthority("MsgUpdateParams")
      BY DEF HasAuthority, Fields
    <3>2. ParamsWritten("MsgUpdateParams") = w
      BY DEF ParamsWritten
    <3> QED
      BY <1>4, <3>1, <3>2, Zenon DEF Written
  <2>3. size \in Nat /\ p <= size
    <3> HIDE DEF size, s, p
    <3> QED
      BY <1>1, <2>1
  <2>4. Filled(new, size, <<>>)
    <3> HIDE DEF size
    <3> QED
      BY <2>3, EmptyBuffer
  <2> HIDE DEF size, new
  <2>5. Filled(m, size, w) /\ Len(w) = p
    BY <1>3, <2>3, <2>4, ParamsFill
  <2> HIDE DEF m, w, out, p
  <2>6. size = s + Len(w)
    BY <2>1, <2>5, Zenon
  <2> DEFINE u == IF Len(a) > 0 THEN Encoded(10, a, w) ELSE w
  <2>7. Filled(PutAuthority(m, a), size, u) /\ Len(u) = size
    <3>1. u = IF Len(a) > 0 THEN Encoded(10, a, w) ELSE w
      OBVIOUS
    <3>2. s = IF Len(a) > 0 THEN SizeField(Len(a)) ELSE 0
      OBVIOUS
    <3> HIDE DEF u, s
    <3> QED
      BY <2>3, <2>5, <2>6, <3>1, <3>2, AuthorityFills
  <2> QED
    BY <2>1, <2>2, <2>3, <2>7, Zenon
<1>5. CASE message = "Module"
  <2>1. size = s /\ out = PutAuthority(new, a)
    <3>1. size = SizeModule(a) /\ out = MarshalModule(new, a)
      <4> HIDE DEF new
      <4> QED
        BY <1>5 DEF Size, MarshalToSizedBuffer
    <3> QED
      BY <3>1, Zenon DEF SizeModule, MarshalModule
  <2>2. Written(message, a) = IF Len(a) > 0 THEN Encoded(10, a, <<>>) ELSE <<>>
    <3>1. HasAuthority("Module")
      BY DEF HasAuthority, Fields
    <3>2. ParamsWritten("Module") = <<>>
      BY DEF ParamsWritten
    <3> QED
      BY <1>5, <3>1, <3>2, Zenon DEF Written
  <2>3. size \in Nat
    BY <1>1, <2>1, Zenon
  <2>4. Filled(new, size, <<>>)
    <3> HIDE DEF size
    <3> QED
      BY <2>3, EmptyBuffer
  <2> HIDE DEF size, new, out
  <2>5. size = s + Len(<<>>)
    <3> HIDE DEF s
    <3> QED
      BY <1>1, <1>3, <2>1
  <2> DEFINE u == IF Len(a) > 0 THEN Encoded(10, a, <<>>) ELSE <<>>
  <2>6. Filled(PutAuthority(new, a), size, u) /\ Len(u) = size
    <3>1. u = IF Len(a) > 0 THEN Encoded(10, a, <<>>) ELSE <<>>
      OBVIOUS
    <3>2. s = IF Len(a) > 0 THEN SizeField(Len(a)) ELSE 0
      OBVIOUS
    <3> HIDE DEF u, s
    <3> QED
      BY <2>3, <2>4, <2>5, <3>1, <3>2, AuthorityFills
  <2> QED
    BY <2>1, <2>2, <2>3, <2>6, Zenon
<1>6. CASE message \in {"GenesisState", "QueryParamsResponse"}
  <2> DEFINE w == Encoded(10, <<>>, <<>>)
             m == PutField(new, 10, <<>>)
  <2>1. size = p /\ out = m
    <3>1. size = SizeField(SizeParams) /\ out = m
      <4> HIDE DEF new
      <4> QED
        BY <1>6 DEF Size, MarshalToSizedBuffer, SizeGenesisState, SizeQueryParamsResponse,
                    MarshalGenesisState, MarshalQueryParamsResponse
    <3> QED
      BY <3>1, Zenon DEF SizeParams
  <2>2. Written(message, a) = w
    <3>1. ~HasAuthority(message)
      BY <1>6 DEF HasAuthority, Fields
    <3>2. ParamsWritten(message) = w
      BY <1>6 DEF ParamsWritten
    <3> QED
      BY <3>1, <3>2, Zenon DEF Written
  <2>3. size \in Nat /\ p <= size
    <3> HIDE DEF size, p
    <3> QED
      BY <1>1, <2>1
  <2>4. Filled(new, size, <<>>)
    <3> HIDE DEF size
    <3> QED
      BY <2>3, EmptyBuffer
  <2> HIDE DEF size, new
  <2>5. Filled(m, size, w) /\ Len(w) = p
    BY <1>3, <2>3, <2>4, ParamsFill
  <2> QED
    BY <2>1, <2>2, <2>3, <2>5, Zenon
<1>7. CASE message \in {"MsgUpdateParamsResponse", "Params", "QueryParamsRequest"}
  <2>1. size = 0 /\ out = new
    <3> HIDE DEF new
    <3> QED
      BY <1>7 DEF Size, MarshalToSizedBuffer, SizeMsgUpdateParamsResponse, SizeParams,
                  SizeQueryParamsRequest, MarshalMsgUpdateParamsResponse, MarshalParams,
                  MarshalQueryParamsRequest
  <2>2. Written(message, a) = <<>>
    <3>1. ~HasAuthority(message)
      BY <1>7 DEF HasAuthority, Fields
    <3>2. ParamsWritten(message) = <<>>
      BY <1>7 DEF ParamsWritten
    <3> QED
      BY <3>1, <3>2, Zenon DEF Written
  <2>3. size \in Nat
    BY <2>1
  <2>4. Filled(new, size, <<>>)
    <3> HIDE DEF size
    <3> QED
      BY <2>3, EmptyBuffer
  <2> HIDE DEF new
  <2> QED
    BY <1>3, <2>1, <2>2, <2>3, <2>4, Zenon
<1> QED
  BY <1>4, <1>5, <1>6, <1>7 DEF Messages, Fields

\* Size tells the exact length of what Marshal writes, at every width of a word:
\* no byte of the buffer is left over, and none is written before its start.
THEOREM SizeIsExact ==
  ASSUME NEW message \in Messages, NEW a \in Authorities
  PROVE  Len(Marshal(message, a)) = Size(message, a)
<1>1. a \in Seq(Byte) /\ Len(a) < IntEnd
  BY CodecAssumption, Zenon DEF IntEnd
<1>2. Len(a) < WordEnd
  <2> DEFINE l == Len(a)
  <2>1. l \in Nat /\ l < IntEnd
    BY <1>1
  <2> HIDE DEF l
  <2> QED
    BY <2>1, WordSizes DEF l
<1> QED
  BY <1>1, <1>2, MarshalWrites, Zenon

-----------------------------------------------------------------------------
(* The inductive invariant.  A skip function may leave its index behind the *)
(* data, where its next iteration fails; Unmarshal may not.  The outermost  *)
(* call is one of Unmarshal, so that a skip function has a caller.          *)

Frames ==
    {f \in [fn : Messages \cup Skips, data : Seq(Byte), index : Nat, depth : Nat] :
        /\ Len(f.data) < IntEnd
        /\ f.index < IntEnd
        /\ f.fn \in Messages => f.index <= Len(f.data)}

IInv ==
    /\ input.fn \in Messages /\ input.data \in Seq(Byte)
    /\ authority \in Seq(Byte)
    /\ outcome \in {"reading", "ok", "error"}
    /\ stack \in Seq(Frames)
    /\ outcome = "reading" => stack # <<>> /\ stack[1].fn = input.fn

\* What MovesOn says of a step.
Moves ==
    outcome' = "reading" =>
         LET n == Len(stack)
             m == Len(stack')
             moved(k) == stack'[k].index > stack[k].index
         IN  \/ m = n /\ moved(n)
             \/ m = n + 1 /\ (stack'[m].fn \in Skips \/ moved(n))
             \/ m = n - 1 /\ (stack[n].fn \in Skips => moved(m))

LEMMA FunctionNames == Messages \cap Skips = {}
BY DEF Messages, Skips, Fields

LEMMA FrameFields ==
  ASSUME NEW f \in Frames
  PROVE  /\ f.fn \in Messages \cup Skips /\ f.data \in Seq(Byte)
         /\ f.index \in Nat /\ f.depth \in Nat
         /\ Len(f.data) \in Nat /\ Len(f.data) < IntEnd /\ f.index < IntEnd
         /\ f.fn \in Messages => f.index <= Len(f.data)
BY DEF Frames

LEMMA NewFrame ==
  ASSUME NEW fn \in Messages \cup Skips, NEW data \in Seq(Byte), Len(data) < IntEnd
  PROVE  Frame(fn, data) \in Frames /\ Frame(fn, data).fn = fn
BY WordSizes DEF Frame, Frames

LEMMA TopIsFrame ==
  ASSUME IInv, outcome = "reading"
  PROVE  /\ Len(stack) \in Nat /\ Len(stack) >= 1
         /\ \A k \in 1..Len(stack) : stack[k] \in Frames
         /\ top \in Frames /\ top = stack[Len(stack)]
         /\ Len(stack) = 1 => top.fn \in Messages
<1>1. stack \in Seq(Frames) /\ stack # <<>>
  BY DEF IInv
<1>2. Len(stack) \in Nat /\ Len(stack) >= 1 /\ \A k \in 1..Len(stack) : stack[k] \in Frames
  BY <1>1
<1> QED
  BY <1>2 DEF top, IInv

LEMMA PushProperties ==
  ASSUME IInv, outcome = "reading", NEW frame \in Frames, frame.fn = top.fn,
         NEW t, t = [stack EXCEPT ![Len(stack)] = frame]
  PROVE  /\ t \in Seq(Frames) /\ Len(t) = Len(stack) /\ t # <<>>
         /\ t[Len(stack)] = frame
         /\ t[1].fn = input.fn
<1>1. stack \in Seq(Frames) /\ stack[1].fn = input.fn
  BY DEF IInv
<1>2. Len(stack) \in Nat /\ Len(stack) >= 1 /\ top = stack[Len(stack)]
  BY TopIsFrame
<1>3. Len(stack) \in 1..Len(stack)
  BY <1>2
<1>4. /\ t \in Seq(Frames) /\ Len(t) = Len(stack)
      /\ \A k \in 1..Len(stack) : t[k] = IF k = Len(stack) THEN frame ELSE stack[k]
  BY <1>1, <1>3, ExceptSeq
<1>5. t # <<>>
  BY <1>2, <1>4
<1>6. t[Len(stack)] = frame
  BY <1>2, <1>4
<1>7. t[1].fn = input.fn
  BY <1>1, <1>2, <1>4
<1> QED
  BY <1>4, <1>5, <1>6, <1>7

LEMMA ContinueKeeps ==
  ASSUME IInv, outcome = "reading", NEW frame \in Frames, frame.fn = top.fn,
         frame.index > top.index,
         Continue(frame), input' = input, authority' \in Seq(Byte)
  PROVE  IInv' /\ Moves
<1>1. stack' = [stack EXCEPT ![Len(stack)] = frame] /\ outcome' = outcome
  BY DEF Continue
<1>2. /\ stack' \in Seq(Frames) /\ Len(stack') = Len(stack) /\ stack' # <<>>
      /\ stack'[Len(stack)] = frame /\ stack'[1].fn = input.fn
  BY <1>1, PushProperties
<1>3. IInv'
  BY <1>1, <1>2 DEF IInv
<1>4. Moves
  BY <1>2, TopIsFrame DEF Moves
<1> QED
  BY <1>3, <1>4

LEMMA CallKeeps ==
  ASSUME IInv, outcome = "reading", NEW frame \in Frames, frame.fn = top.fn,
         NEW callee \in Frames,
         callee.fn \in Skips \/ frame.index > top.index,
         Call(frame, callee), input' = input, authority' \in Seq(Byte)
  PROVE  IInv' /\ Moves
<1> DEFINE t == [stack EXCEPT ![Len(stack)] = frame]
<1>1. stack' = Append(t, callee) /\ outcome' = outcome
  BY DEF Call
<1>2. /\ t \in Seq(Frames) /\ Len(t) = Len(stack) /\ t # <<>>
      /\ t[Len(stack)] = frame /\ t[1].fn = input.fn
  BY PushProperties
<1>3. Len(stack) \in Nat /\ Len(stack) >= 1 /\ top = stack[Len(stack)]
  BY TopIsFrame
<1> HIDE DEF t
<1>4. /\ stack' \in Seq(Frames) /\ Len(stack') = Len(stack) + 1
      /\ stack'[Len(stack) + 1] = callee /\ stack'[Len(stack)] = t[Len(stack)]
      /\ stack'[1] = t[1] /\ stack' # <<>>
  BY <1>1, <1>2, <1>3
<1>5. IInv'
  BY <1>1, <1>2, <1>4 DEF IInv
<1>6. Moves
  BY <1>2, <1>3, <1>4 DEF Moves
<1> QED
  BY <1>5, <1>6

LEMMA FailKeeps ==
  ASSUME IInv, Fail, input' = input, authority' \in Seq(Byte)
  PROVE  IInv' /\ Moves
BY DEF IInv, Fail, Moves

\* Leaving a call of Unmarshal, or of a skip function that has a caller.
LEMMA FrontProperties ==
  ASSUME IInv, outcome = "reading"
  PROVE  /\ Front(stack) \in Seq(Frames) /\ Len(Front(stack)) = Len(stack) - 1
         /\ \A k \in 1..Len(stack) - 1 : Front(stack)[k] = stack[k]
<1>1. stack \in Seq(Frames) /\ Len(stack) \in Nat /\ Len(stack) >= 1
      /\ \A k \in 1..Len(stack) : stack[k] \in Frames
  BY TopIsFrame DEF IInv
<1>2. Front(stack) = SubSeq(stack, 1, Len(stack) - 1)
  BY DEF Front
<1> DEFINE n == Len(stack) - 1
<1>3. n \in Nat /\ n - 1 + 1 = n /\ \A i \in 1..n : stack[i] \in Frames /\ 1 + i - 1 = i
  BY <1>1
<1> HIDE DEF n
<1>4. /\ SubSeq(stack, 1, n) \in Seq(Frames)
      /\ Len(SubSeq(stack, 1, n)) = IF 1 <= n THEN n - 1 + 1 ELSE 0
      /\ \A i \in 1..n - 1 + 1 : SubSeq(stack, 1, n)[i] = stack[1 + i - 1]
  BY <1>3, SubSeqProperties
<1>5. Len(SubSeq(stack, 1, n)) = n /\ \A i \in 1..n : SubSeq(stack, 1, n)[i] = stack[i]
  BY <1>3, <1>4
<1> QED
  BY <1>2, <1>4, <1>5 DEF n

LEMMA ReturnKeeps ==
  ASSUME IInv, outcome = "reading", top.fn \in Messages, Return,
         input' = input, authority' = authority
  PROVE  IInv' /\ Moves
<1>1. CASE top.index > Len(top.data)
  BY <1>1, FailKeeps DEF Return, IInv
<1>2. CASE ~(top.index > Len(top.data))
  <2>1. stack' = Front(stack) /\ outcome' = IF Len(stack) = 1 THEN "ok" ELSE outcome
    BY <1>2 DEF Return
  <2>2. Len(stack) \in Nat /\ Len(stack) >= 1 /\ top = stack[Len(stack)]
    BY TopIsFrame
  <2>3. /\ stack' \in Seq(Frames) /\ Len(stack') = Len(stack) - 1
        /\ \A k \in 1..Len(stack) - 1 : stack'[k] = stack[k]
    BY <2>1, FrontProperties
  <2>4. Len(stack) # 1 => stack' # <<>> /\ stack'[1] = stack[1]
    BY <2>2, <2>3
  <2>5. IInv'
    BY <2>1, <2>3, <2>4 DEF IInv
  <2>6. Moves
    BY <2>2, <2>3, FunctionNames DEF Moves
  <2> QED
    BY <2>5, <2>6
<1> QED
  BY <1>1, <1>2

LEMMA ReturnSkippedKeeps ==
  ASSUME IInv, outcome = "reading", top.fn \in Skips,
         NEW n \in Nat, n > 0, n < IntEnd, ReturnSkipped(n),
         input' = input, authority' = authority
  PROVE  IInv' /\ Moves
<1> DEFINE caller == stack[Len(stack) - 1]
           after  == Plus(caller.index, n)
<1>1. CASE n < 0 \/ after < 0 \/ after > Len(caller.data)
  <2>1. Fail
    BY <1>1 DEF ReturnSkipped
  <2> QED
    BY <2>1, FailKeeps DEF IInv
<1>2. CASE ~(n < 0 \/ after < 0 \/ after > Len(caller.data))
  <2> DEFINE l     == Len(stack)
             frame == [caller EXCEPT !.index = after]
  <2>1. stack' = [Front(stack) EXCEPT ![l - 1] = frame] /\ outcome' = outcome
    BY <1>2 DEF ReturnSkipped
  <2>2. l \in Nat /\ l > 1 /\ caller \in Frames
    <3>1. l \in Nat /\ l >= 1 /\ l # 1
      BY TopIsFrame, FunctionNames
    <3>2. ASSUME NEW j \in Nat, j >= 1, j # 1
          PROVE  j - 1 \in 1..j /\ j > 1
      BY <3>2
    <3>3. l - 1 \in 1..l /\ l > 1
      BY <3>1, <3>2
    <3> QED
      BY <3>1, <3>3, TopIsFrame
  <2>3. caller.index \in Nat /\ caller.index < IntEnd /\ Len(caller.data) \in Nat
    BY <2>2, FrameFields
  <2>4. after \in Int /\ (after >= 0 => after = caller.index + n /\ after < IntEnd)
    BY <2>3, PlusProperties
  <2>5. after \in Nat /\ after > caller.index /\ after < IntEnd /\ after <= Len(caller.data)
    BY <1>2, <2>3, <2>4
  <2> HIDE DEF after
  <2>6. frame \in Frames /\ frame.index = after /\ frame.fn = caller.fn
    BY <2>2, <2>5 DEF Frames
  <2>7. /\ Front(stack) \in Seq(Frames) /\ Len(Front(stack)) = l - 1
        /\ \A k \in 1..l - 1 : Front(stack)[k] = stack[k]
    BY FrontProperties
  <2> HIDE DEF frame, caller, l
  <2>8. /\ stack' \in Seq(Frames) /\ Len(stack') = l - 1 /\ stack' # <<>>
        /\ \A k \in 1..l - 1 : stack'[k] = IF k = l - 1 THEN frame ELSE Front(stack)[k]
    BY <2>1, <2>2, <2>6, <2>7
  <2>9. stack'[l - 1] = frame /\ caller = stack[l - 1]
    BY <2>2, <2>8 DEF caller, l
  <2>10. stack'[1].fn = stack[1].fn
    BY <2>2, <2>6, <2>7, <2>8, <2>9
  <2>11. IInv'
    BY <2>1, <2>8, <2>10 DEF IInv
  <2>12. Moves
    BY <2>2, <2>5, <2>6, <2>8, <2>9 DEF Moves, l
  <2> QED
    BY <2>11, <2>12
<1> QED
  BY <1>1, <1>2

-----------------------------------------------------------------------------
(* One iteration of Unmarshal.                                              *)

\* Content that the code takes lies in the data, behind its length.
LEMMA ContentProperties ==
  ASSUME NEW f \in Frames, NEW index \in Nat, NEW c, c = Content(f, index), c.ok
  PROVE  /\ c.from \in Nat /\ c.from > index
         /\ c.post \in Nat /\ c.post >= c.from /\ c.post <= Len(f.data)
<1> DEFINE r == ReadVarint(f.data, index)
           n == Int_(r.value)
           p == Plus(r.next, n)
<1>1. /\ c.ok = (r.ok /\ n >= 0 /\ p >= 0 /\ p <= Len(f.data))
      /\ c.from = r.next /\ c.post = p
  BY DEF Content
<1>2. r.ok /\ n >= 0 /\ p >= 0 /\ p <= Len(f.data)
  BY <1>1
<1>3. f.data \in Seq(Byte) /\ Len(f.data) \in Nat /\ Len(f.data) < IntEnd
  BY FrameFields
<1>4. /\ r.next \in Nat /\ (r.ok => r.next > index /\ r.next <= Len(f.data))
      /\ r.value \in Nat /\ r.value < WordEnd
  BY <1>3, ReadVarintProperties
<1> HIDE DEF r
<1>5. n \in Nat /\ n < IntEnd
  BY <1>2, <1>4, SignedWord, WordSizes DEF Int_
<1> HIDE DEF n
<1>6. r.next < IntEnd
  BY <1>2, <1>3, <1>4, WordSizes
<1>7. p \in Int /\ (p >= 0 => p = r.next + n)
  BY <1>4, <1>5, <1>6, PlusProperties
<1> HIDE DEF p
<1> QED
  BY <1>1, <1>2, <1>3, <1>4, <1>5, <1>7

LEMMA PartProperties ==
  ASSUME NEW data \in Seq(Byte), NEW from \in Nat, NEW to \in Nat, to <= Len(data)
  PROVE  /\ SubSeq(data, from + 1, to) \in Seq(Byte)
         /\ Len(SubSeq(data, from + 1, to)) <= Len(data)
<1>1. Len(data) \in Nat /\ \A i \in 1..Len(data) : data[i] \in Byte
  OBVIOUS
<1>2. \A i \in from + 1..to : data[i] \in Byte
  BY <1>1
<1>3. /\ SubSeq(data, from + 1, to) \in Seq(Byte)
      /\ Len(SubSeq(data, from + 1, to))
           = IF from + 1 <= to THEN to - (from + 1) + 1 ELSE 0
  BY <1>2, SubSeqProperties
<1> QED
  BY <1>1, <1>3

LEMMA MovedFrame ==
  ASSUME NEW f \in Frames, NEW i \in Nat, i < IntEnd,
         f.fn \in Messages => i <= Len(f.data)
  PROVE  /\ [f EXCEPT !.index = i] \in Frames
         /\ [f EXCEPT !.index = i].fn = f.fn
         /\ [f EXCEPT !.index = i].index = i
BY DEF Frames

LEMMA UnmarshalKeeps ==
  ASSUME IInv, NEW message \in Messages, NEW skip \in Skips, Unmarshal(message, skip)
  PROVE  IInv' /\ Moves
<1> DEFINE f        == top
           tag      == ReadVarint(f.data, f.index)
           fieldNum == FieldNum(tag.value)
           wireType == tag.value % 8
           known    == KnownField(message, fieldNum)
           content  == Content(f, tag.next)
           refused  == \/ ~tag.ok \/ TagRefused(wireType, fieldNum)
                       \/ known /\ (wireType # 2 \/ ~content.ok)
           isParams == Fields[message][fieldNum] = "params"
<1>1. /\ outcome = "reading" /\ top.fn = message /\ input' = input
      /\ \/ f.index >= Len(f.data) /\ Return /\ UNCHANGED authority
         \/ refused /\ Fail /\ UNCHANGED authority
         \/ /\ ~refused /\ known
            /\ IF isParams THEN EmbeddedParams(f, content) ELSE AuthorityField(f, content)
         \/ ~refused /\ UnknownField(f, skip)
  BY Zenon DEF Unmarshal, Running
<1>2. f \in Frames /\ top.fn \in Messages
  BY <1>1, TopIsFrame
<1>3. /\ f.data \in Seq(Byte) /\ f.index \in Nat /\ f.index < IntEnd
      /\ Len(f.data) \in Nat /\ Len(f.data) < IntEnd
  BY <1>2, FrameFields
<1>4. authority \in Seq(Byte)
  BY DEF IInv
<1>5. CASE Return /\ UNCHANGED authority
  BY <1>1, <1>2, <1>5, ReturnKeeps
<1>6. CASE Fail /\ UNCHANGED authority
  BY <1>1, <1>4, <1>6, FailKeeps
<1>7. CASE /\ ~refused /\ known
           /\ IF isParams THEN EmbeddedParams(f, content) ELSE AuthorityField(f, content)
  <2>1. tag.ok /\ content.ok
    BY <1>7
  <2>2. tag.next \in Nat /\ tag.next > f.index
    BY <1>3, <2>1, ReadVarintProperties
  <2> HIDE DEF tag
  <2>3. /\ content.from \in Nat /\ content.from > tag.next
        /\ content.post \in Nat /\ content.post >= content.from
        /\ content.post <= Len(f.data)
    BY <1>2, <2>1, <2>2, ContentProperties
  <2> HIDE DEF content
  <2> DEFINE part  == SubSeq(f.data, content.from + 1, content.post)
             frame == [f EXCEPT !.index = content.post]
  <2>4. content.post < IntEnd /\ content.post > f.index
    BY <1>3, <2>2, <2>3, WordSizes
  <2>5. part \in Seq(Byte) /\ Len(part) \in Nat /\ Len(part) < IntEnd
    <3>1. part \in Seq(Byte) /\ Len(part) <= Len(f.data)
      BY <1>3, <2>3, PartProperties
    <3> HIDE DEF part
    <3> QED
      BY <1>3, <3>1, WordSizes
  <2>6. frame \in Frames /\ frame.fn = top.fn /\ frame.index > top.index
    BY <1>2, <2>3, <2>4, MovedFrame
  <2>7. CASE AuthorityField(f, content)
    <3>1. Continue(frame) /\ authority' = part
      BY <2>7 DEF AuthorityField
    <3> HIDE DEF frame, part
    <3> QED
      BY <1>1, <2>5, <2>6, <3>1, ContinueKeeps
  <2>8. CASE EmbeddedParams(f, content)
    <3> DEFINE callee == Frame("Params", part)
    <3>1. Call(frame, callee) /\ authority' = authority
      BY <2>8 DEF EmbeddedParams
    <3> HIDE DEF frame, part
    <3>2. "Params" \in Messages
      BY DEF Messages, Fields
    <3>3. callee \in Frames
      BY <2>5, <3>2, NewFrame
    <3> HIDE DEF callee
    <3> QED
      BY <1>1, <1>4, <2>6, <3>1, <3>3, CallKeeps
  <2> QED
    BY <1>7, <2>7, <2>8
<1>8. CASE UnknownField(f, skip)
  <2> DEFINE rest   == SubSeq(f.data, f.index + 1, Len(f.data))
             callee == Frame(skip, rest)
  <2>1. Call(f, callee) /\ authority' = authority
    BY <1>8 DEF UnknownField
  <2>2. rest \in Seq(Byte) /\ Len(rest) <= Len(f.data)
    BY <1>3, PartProperties
  <2> HIDE DEF rest
  <2>3. callee \in Frames /\ callee.fn = skip
    BY <1>3, <2>2, NewFrame, WordSizes
  <2> HIDE DEF callee
  <2> QED
    BY <1>1, <1>2, <1>4, <2>1, <2>3, CallKeeps
<1> QED
  BY <1>1, <1>5, <1>6, <1>7, <1>8, Zenon

-----------------------------------------------------------------------------
(* One iteration of a skip function.                                        *)

\* A token that is not refused ends behind its tag, below the end of the ints,
\* and opens or closes a group that it may.
LEMMA TokenProperties ==
  ASSUME NEW f \in Frames, NEW tag, tag = ReadVarint(f.data, f.index),
         tag.ok, ~CannotSkip(f, tag)
  PROVE  /\ IndexAfter(f, tag) \in Nat /\ IndexAfter(f, tag) > f.index
         /\ IndexAfter(f, tag) < IntEnd
         /\ DepthAfter(f, tag) \in Nat
<1> DEFINE number == ReadVarint(f.data, tag.next)
           w      == tag.value % 8
           n      == Int_(number.value)
           after  == IndexAfter(f, tag)
<1>1. /\ f.data \in Seq(Byte) /\ f.index \in Nat /\ f.depth \in Nat
      /\ Len(f.data) \in Nat /\ Len(f.data) < IntEnd
  BY FrameFields
<1>2. /\ tag.next \in Nat /\ tag.next > f.index /\ tag.next <= Len(f.data)
      /\ tag.value \in Nat
  BY <1>1, ReadVarintProperties
<1>3. w \in 0..7
  BY <1>2
<1>4. /\ number.ok \in BOOLEAN /\ number.next \in Nat
      /\ (number.ok => number.next > tag.next /\ number.next <= Len(f.data))
      /\ number.value \in Nat /\ number.value < WordEnd
  BY <1>1, <1>2, ReadVarintProperties
<1>5. /\ w \in {0, 2} => number.ok
      /\ w = 2 => ~(n < 0)
      /\ w = 4 => f.depth # 0
      /\ w \notin {6, 7}
      /\ ~(after < 0)
  BY DEF CannotSkip
<1>6. /\ w = 0 => after = number.next
      /\ w = 1 => after = Plus(tag.next, 8)
      /\ w = 2 => after = Plus(number.next, n)
      /\ w = 5 => after = Plus(tag.next, 4)
      /\ w \in {3, 4} => after = tag.next
  BY DEF IndexAfter
<1>7. n \in Int /\ (n >= 0 => n < IntEnd)
  BY <1>4, SignedWord, WordSizes DEF Int_
<1> HIDE DEF number, w, n, after
<1>8. tag.next < IntEnd /\ (number.ok => number.next < IntEnd)
  BY <1>1, <1>2, <1>4, WordSizes
<1>9. after \in Nat /\ after > f.index /\ after < IntEnd
  <2>1. CASE w = 0
    BY <1>1, <1>2, <1>4, <1>5, <1>6, <1>8, <2>1
  <2>2. CASE w = 1
    <3>1. /\ Plus(tag.next, 8) \in Int
          /\ Plus(tag.next, 8) >= 0 => Plus(tag.next, 8) = tag.next + 8 /\ tag.next + 8 < IntEnd
      BY <1>2, <1>8, FixedPlus
    <3> QED
      BY <1>1, <1>2, <1>5, <1>6, <2>2, <3>1
  <2>3. CASE w = 2
    <3>1. number.ok /\ n \in Nat /\ n < IntEnd
      BY <1>5, <1>7, <2>3
    <3>2. /\ Plus(number.next, n) \in Int
          /\ Plus(number.next, n) >= 0 => /\ Plus(number.next, n) = number.next + n
                                          /\ number.next + n < IntEnd
      BY <1>4, <1>8, <3>1, PlusProperties
    <3> QED
      BY <1>1, <1>2, <1>4, <1>5, <1>6, <2>3, <3>1, <3>2
  <2>4. CASE w = 5
    <3>1. /\ Plus(tag.next, 4) \in Int
          /\ Plus(tag.next, 4) >= 0 => Plus(tag.next, 4) = tag.next + 4 /\ tag.next + 4 < IntEnd
      BY <1>2, <1>8, FixedPlus
    <3> QED
      BY <1>1, <1>2, <1>5, <1>6, <2>4, <3>1
  <2>5. CASE w \in {3, 4}
    BY <1>1, <1>2, <1>6, <1>8, <2>5
  <2> QED
    BY <1>3, <1>5, <2>1, <2>2, <2>3, <2>4, <2>5
<1>10. DepthAfter(f, tag) \in Nat
  <2>1. DepthAfter(f, tag) = f.depth + (IF w = 3 THEN 1 ELSE IF w = 4 THEN -1 ELSE 0)
    BY DEF DepthAfter, w
  <2> QED
    BY <1>1, <1>5, <2>1
<1> QED
  BY <1>9, <1>10 DEF after

LEMMA SkipKeeps ==
  ASSUME IInv, NEW file \in Skips, Skip(file)
  PROVE  IInv' /\ Moves
<1> DEFINE f   == top
           tag == ReadVarint(f.data, f.index)
           bad == f.index >= Len(f.data) \/ ~tag.ok \/ CannotSkip(f, tag)
<1>1. /\ outcome = "reading" /\ top.fn = file /\ input' = input /\ authority' = authority
      /\ \/ Fail
         \/ ~bad /\ ReturnSkipped(IndexAfter(f, tag))
         \/ ~bad /\ Continue([f EXCEPT !.index = IndexAfter(f, tag),
                                       !.depth = DepthAfter(f, tag)])
  BY Zenon DEF Skip, Running
<1>2. f \in Frames /\ top.fn \in Skips /\ authority \in Seq(Byte)
  BY <1>1, TopIsFrame DEF IInv
<1>3. CASE Fail
  BY <1>1, <1>2, <1>3, FailKeeps
<1>4. ASSUME ~bad
      PROVE  /\ IndexAfter(f, tag) \in Nat /\ IndexAfter(f, tag) > f.index
             /\ IndexAfter(f, tag) < IntEnd
             /\ DepthAfter(f, tag) \in Nat
  BY <1>2, <1>4, TokenProperties
<1>5. CASE ~bad /\ ReturnSkipped(IndexAfter(f, tag))
  <2> DEFINE n == IndexAfter(f, tag)
  <2>1. n \in Nat /\ n > f.index /\ n < IntEnd /\ ReturnSkipped(n)
    BY <1>4, <1>5
  <2>2. f.index \in Nat
    BY <1>2, FrameFields
  <2> HIDE DEF n
  <2>3. n > 0
    BY <2>1, <2>2
  <2> QED
    BY <1>1, <1>2, <2>1, <2>3, ReturnSkippedKeeps
<1>6. CASE ~bad /\ Continue([f EXCEPT !.index = IndexAfter(f, tag),
                                      !.depth = DepthAfter(f, tag)])
  <2> DEFINE i     == IndexAfter(f, tag)
             d     == DepthAfter(f, tag)
             frame == [f EXCEPT !.index = i, !.depth = d]
  <2>1. i \in Nat /\ i > f.index /\ i < IntEnd /\ d \in Nat /\ Continue(frame)
    BY <1>4, <1>6
  <2> HIDE DEF i, d
  <2>2. f.fn \notin Messages
    BY <1>2, FunctionNames
  <2>3. frame \in Frames /\ frame.fn = top.fn /\ frame.index = i
    BY <1>2, <2>1, <2>2 DEF Frames
  <2> HIDE DEF frame
  <2> QED
    BY <1>1, <1>2, <2>1, <2>3, ContinueKeeps
<1> QED
  BY <1>1, <1>3, <1>5, <1>6, Zenon

-----------------------------------------------------------------------------
(* The theorems.                                                            *)

LEMMA InitIInv == Init => IInv
<1> SUFFICES ASSUME Init
             PROVE  IInv
  OBVIOUS
<1>1. /\ input.fn \in Messages /\ input.data \in Seq(Byte) /\ Len(input.data) < IntEnd
  BY CodecAssumption DEF Init, IntEnd
<1> DEFINE frame == Frame(input.fn, input.data)
<1>2. frame \in Frames /\ frame.fn = input.fn
  BY <1>1, NewFrame
<1>3. stack = <<frame>> /\ authority = <<>> /\ outcome = "reading"
  BY DEF Init, NoBytes
<1> HIDE DEF frame
<1>4. stack \in Seq(Frames) /\ stack # <<>> /\ stack[1] = frame
  BY <1>2, <1>3
<1>5. authority \in Seq(Byte)
  BY <1>3
<1> QED
  BY <1>1, <1>2, <1>3, <1>4, <1>5 DEF IInv

LEMMA NextKeepsIInv ==
  ASSUME IInv, [Next]_vars
  PROVE  IInv' /\ [Moves]_vars
<1>1. CASE \/ UnmarshalMsgUpdateParams \/ UnmarshalMsgUpdateParamsResponse
           \/ UnmarshalGenesisState    \/ UnmarshalParams
           \/ UnmarshalQueryParamsRequest \/ UnmarshalQueryParamsResponse
           \/ UnmarshalModule
  <2>1. \E message \in Messages, skip \in Skips : Unmarshal(message, skip)
    <3>1. /\ {"MsgUpdateParams", "MsgUpdateParamsResponse", "GenesisState", "Params",
              "QueryParamsRequest", "QueryParamsResponse", "Module"} \subseteq Messages
          /\ {"skipTx", "skipGenesis", "skipParams", "skipQuery", "skipModule"} \subseteq Skips
      BY DEF Messages, Fields, Skips
    <3> QED
      BY <1>1, <3>1, Zenon DEF UnmarshalMsgUpdateParams, UnmarshalMsgUpdateParamsResponse,
         UnmarshalGenesisState, UnmarshalParams, UnmarshalQueryParamsRequest,
         UnmarshalQueryParamsResponse, UnmarshalModule
  <2> QED
    BY <2>1, UnmarshalKeeps
<1>2. CASE skipTx \/ skipGenesis \/ skipParams \/ skipQuery \/ skipModule
  <2>1. \E file \in Skips : Skip(file)
    BY <1>2, Zenon DEF skipTx, skipGenesis, skipParams, skipQuery, skipModule, Skips
  <2> QED
    BY <2>1, SkipKeeps
<1>3. CASE Returned \/ UNCHANGED vars
  BY <1>3 DEF Returned, vars, IInv
<1> QED
  BY <1>1, <1>2, <1>3 DEF Next

\* Every call in progress has an index that an int holds, on data whose length
\* an int holds; an index of Unmarshal is in its data; and the outermost call is
\* the one that was made.
THEOREM Invariance == Spec => []IInv
<1>1. Init => IInv
  BY InitIInv
<1>2. IInv /\ [Next]_vars => IInv'
  BY NextKeepsIInv
<1> QED
  BY <1>1, <1>2, PTL DEF Spec

\* Whatever the bytes are and however wide a word is, the calls in progress and
\* what they have read keep their types, and a call that reads has a caller.
THEOREM TypeCorrect == Spec => []TypeOK
<1>1. IInv => TypeOK
  <2> SUFFICES ASSUME IInv
               PROVE  TypeOK
    OBVIOUS
  <2>1. ASSUME NEW k \in DOMAIN stack
        PROVE  /\ stack[k].fn \in Messages \cup Skips /\ stack[k].data \in Seq(Byte)
               /\ stack[k].index \in Int /\ stack[k].depth \in Nat
    <3>1. stack[k] \in Frames
      BY DEF IInv
    <3> QED
      BY <3>1, FrameFields
  <2> QED
    BY <2>1 DEF IInv, TypeOK
<1> QED
  BY <1>1, Invariance, PTL

\* No length or sum that a message announces takes Unmarshal's index out of its
\* data: a sum that wraps is negative, and is refused, at every width of a word.
THEOREM IndicesStayInData == Spec => []IndexInData
<1>1. IInv => IndexInData
  <2> SUFFICES ASSUME IInv, NEW k \in DOMAIN stack
               PROVE  /\ stack[k].index >= 0
                      /\ stack[k].fn \in Messages => stack[k].index <= Len(stack[k].data)
    BY DEF IndexInData
  <2>1. stack[k] \in Frames
    BY DEF IInv
  <2> QED
    BY <2>1, FrameFields
<1> QED
  BY <1>1, Invariance, PTL

\* Every step of a decoder that goes on moves an index towards the end of its
\* bytes, or enters a skip function whose first step will.
THEOREM EveryCallMovesOn == Spec => MovesOn
<1>1. IInv /\ [Next]_vars => [Moves]_vars
  BY NextKeepsIInv
<1>2. Spec => [][Moves]_vars
  BY <1>1, Invariance, PTL DEF Spec
<1> QED
  BY <1>2 DEF MovesOn, Moves
=============================================================================
