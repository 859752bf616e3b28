---------------------------- MODULE MpackReaderProofs ----------------------------
(***************************************************************************)
(* First MpackTag, then MpackReader.                                       *)
(*                                                                         *)
(* Every value that lib/mpack writes is the one that it reads back, for    *)
(* every base of a byte that TagAssumption allows: TagComesBack for the    *)
(* tags, TimeComesBack for timestamps.  Below them is what a number and    *)
(* its bytes have to do with each other, whatever the sign (LoadedAre,     *)
(* SignedLoadedAre), and that the width a number is written in is one that *)
(* holds it (LeastIs, LeastSignedIs).                                      *)
(*                                                                         *)
(* Then the reader, for every source, every size of the buffer and         *)
(* everything that a fill function may give.  Inv(s, m) is what holds of a *)
(* reader s over a memory of m bytes, whatever it waits for; the lemmas    *)
(* follow a call through the operators that it is made of.                 *)
(***************************************************************************)
EXTENDS MpackReader, FiniteSetTheorems, SequenceTheorems, TLAPS

-----------------------------------------------------------------------------
(* Tags and numbers.                                                       *)

Byte == 0..(Base - 1)

LEMMA BaseIsNat ==
    /\ Base \in Nat /\ Base > 16
    /\ \A b \in Byte : b \in Nat /\ b < Base
BY TagAssumption DEF Byte

\* The four ranges of small values cover what is below the 32 types.
LEMMA RangesAre ==
    /\ FixMap \in Nat /\ FixArray \in Nat /\ FixString \in Nat /\ FixInt \in Nat
    /\ Code(0) \in Int /\ Code(31) \in Int
    /\ FixMap <= FixArray /\ FixArray <= FixString /\ FixString <= Code(0)
    /\ Code(2) = Code(0) + 2 /\ Code(20) = Code(0) + 20 /\ Code(31) = Code(0) + 31
<1>1. /\ Base \in Nat /\ FixCount \in Nat /\ FixStr \in Nat /\ FixInt \in Nat
      /\ Base \div 2 \in Nat
  BY TagAssumption
<1>2. Base \div 2 + 2 * FixCount + FixStr + 32 + FixInt = Base
  BY TagAssumption
<1> QED
  BY <1>1, <1>2 DEF FixMap, FixArray, FixString, Code

\* Every one of the 32 types has a number of 0, 1, 2, 4 or 8 bytes behind it.
LEMMA CodesAre ==
    \A i \in 1..32 :
        /\ Codes[i][2] \in {0, 1, 2, 4, 8}
        /\ Codes[i][1] \in {"ext", "fixext"} => Codes[i][2] <= 4
        /\ Codes[i][1] = "fixext" => i \in 21..25
        /\ Codes[i][1] = "bool" => i \in 3..4
BY DEF Codes

LEMMA CodeOfByte ==
    ASSUME NEW b \in Byte, ~IsFix(b)
    PROVE  /\ b - Code(0) + 1 \in 1..32
           /\ CodeOf(b) = Codes[b - Code(0) + 1]
<1>1. Base \in Nat /\ FixInt \in Nat /\ b \in Nat
  BY RangesAre, BaseIsNat
<1> QED
  BY <1>1 DEF IsFix, CodeOf, Code

LEMMA TagSizeIs ==
    ASSUME NEW b \in Byte
    PROVE  TagSize(b) \in 1..9
<1>1. CASE IsFix(b)
  BY <1>1 DEF TagSize
<1>2. CASE ~IsFix(b)
  BY <1>2, CodesAre, CodeOfByte DEF TagSize
<1> QED
  BY <1>1, <1>2

LEMMA ProductIsNat == \A x, y \in Nat : x * y \in Nat
OBVIOUS

\* Quotient and remainder.
LEMMA DivMod ==
    ASSUME NEW v \in Int, NEW n \in Nat \ {0}
    PROVE  /\ v \div n \in Int /\ v % n \in 0..(n - 1)
           /\ v = (n * (v \div n)) + (v % n)
OBVIOUS

\* They are what multiplies to the number.
LEMMA DivIs ==
    ASSUME NEW v \in Int, NEW n \in Nat \ {0}, NEW q \in Int, NEW m \in 0..(n - 1),
           v = (n * q) + m
    PROVE  v \div n = q /\ v % n = m
<1>1. PICK p \in Int : p = v \div n
  BY DivMod
<1>2. PICK k \in 0..(n - 1) : k = v % n
  BY DivMod
<1>3. (n * p) + k = (n * q) + m
  BY <1>1, <1>2, DivMod
<1>4. \A i \in Int : i >= 1 => n * i >= n
  OBVIOUS
<1>5. n * (p - q) = m - k /\ n * (q - p) = k - m
  BY <1>3
<1>6. ~(p - q >= 1) /\ ~(q - p >= 1)
  <2>1. m - k < n /\ k - m < n
    OBVIOUS
  <2>2. p - q \in Int /\ q - p \in Int
    OBVIOUS
  <2> QED
    BY <1>4, <1>5, <2>1, <2>2
<1>7. p = q
  BY <1>6
<1>8. k = m
  BY <1>3, <1>7
<1> QED
  BY <1>1, <1>2, <1>7, <1>8

\* A number of two digits, each of them less than its base.
LEMMA TwoDigits ==
    ASSUME NEW v \in Int, NEW a \in Nat \ {0}, NEW b \in Nat \ {0}
    PROVE  /\ v % (a * b) = (a * ((v \div a) % b)) + (v % a)
           /\ v \div (a * b) = (v \div a) \div b
<1>1. PICK q \in Int : q = v \div a
  BY DivMod
<1>2. PICK m \in 0..(a - 1) : m = v % a
  BY DivMod
<1>3. PICK p \in Int : p = q \div b
  BY DivMod
<1>4. PICK k \in 0..(b - 1) : k = q % b
  BY DivMod
<1>5. v = (a * q) + m /\ q = (b * p) + k
  BY <1>1, <1>2, <1>3, <1>4, DivMod
<1>6. v = ((a * b) * p) + ((a * k) + m)
  <2>1. a * ((b * p) + k) = (a * (b * p)) + (a * k)
    OBVIOUS
  <2>2. a * (b * p) = (a * b) * p
    OBVIOUS
  <2>3. a * q = ((a * b) * p) + (a * k)
    BY <1>5, <2>1, <2>2
  <2>4. (a * b) * p \in Int /\ a * k \in Int
    OBVIOUS
  <2> QED
    BY <1>5, <2>3, <2>4
<1>7. a * b \in Nat \ {0} /\ (a * k) + m \in 0..((a * b) - 1)
  <2>1. a * b \in Nat \ {0} /\ a * k \in Nat
    OBVIOUS
  <2>2. a * k <= a * (b - 1)
    OBVIOUS
  <2>3. a * (b - 1) = (a * b) - a
    OBVIOUS
  <2>4. PICK x \in Nat : x = a * b
    BY <2>1
  <2>5. PICK y \in Nat : y = a * k
    BY <2>1
  <2>6. y <= x - a
    BY <2>2, <2>3, <2>4, <2>5
  <2>7. y + m \in 0..(x - 1)
    BY <2>6
  <2> QED
    BY <2>1, <2>4, <2>5, <2>7
<1>8. v \div (a * b) = p /\ v % (a * b) = (a * k) + m
  <2>1. PICK n \in Nat \ {0} : n = a * b
    BY <1>7
  <2>2. PICK j \in 0..(n - 1) : j = (a * k) + m
    BY <1>7, <2>1
  <2>3. v = (n * p) + j
    BY <1>6, <2>1, <2>2
  <2>4. v \div n = p /\ v % n = j
    BY <2>3, DivIs
  <2> QED
    BY <2>1, <2>2, <2>4
<1> QED
  BY <1>1, <1>2, <1>3, <1>4, <1>8

\* A quotient is between two numbers if the dividend is.
LEMMA DivBetween ==
    ASSUME NEW v \in Int, NEW n \in Nat \ {0}, NEW c \in Int, NEW d \in Int
    PROVE  /\ n * c <= v <=> c <= v \div n
           /\ v < n * d <=> v \div n < d
<1>1. PICK q \in Int : q = v \div n
  BY DivMod
<1>2. PICK m \in 0..(n - 1) : m = v % n
  BY DivMod
<1>3. v = (n * q) + m
  BY <1>1, <1>2, DivMod
<1>4. \A x, y \in Int : x <= y => n * x <= n * y
  OBVIOUS
<1>5. \A x, y \in Int : x < y => (n * x) + n <= n * y
  <2> SUFFICES ASSUME NEW x \in Int, NEW y \in Int, x < y PROVE (n * x) + n <= n * y
    OBVIOUS
  <2>1. n * (x + 1) <= n * y
    BY <1>4
  <2>2. n * (x + 1) = (n * x) + n
    OBVIOUS
  <2> QED
    BY <2>1, <2>2
<1>6. n * q \in Int /\ n * c \in Int /\ n * d \in Int
  OBVIOUS
<1>7. c <= q => n * c <= v
  BY <1>3, <1>4, <1>6
<1>8. q < c => ~(n * c <= v)
  BY <1>3, <1>5, <1>6
<1>9. q < d => v < n * d
  BY <1>3, <1>5, <1>6
<1>10. d <= q => ~(v < n * d)
  BY <1>3, <1>4, <1>6
<1> QED
  BY <1>1, <1>7, <1>8, <1>9, <1>10

-----------------------------------------------------------------------------
(* Numbers as bytes.                                                       *)

LEMMA WordsAre ==
    /\ Base \in Nat \ {0} /\ Word \in Nat \ {0} /\ LongWord \in Nat \ {0}
    /\ Word = Base * Base /\ LongWord = Word * Word
    /\ Base \div 2 \in Nat /\ Base = 2 * (Base \div 2)
    /\ Word \div 2 = Base * (Base \div 2) /\ LongWord \div 2 = Word * (Word \div 2)
<1>1. Base \in Nat \ {0} /\ Base % 2 = 0
  BY TagAssumption
<1>2. PICK h \in Nat : h = Base \div 2 /\ Base = 2 * h
  <2>1. Base = (2 * (Base \div 2)) + (Base % 2)
    BY <1>1, DivMod
  <2>2. Base \div 2 \in Nat
    BY <1>1
  <2> QED
    BY <1>1, <2>1, <2>2
<1>3. Word \in Nat \ {0} /\ Word = Base * Base
  BY <1>1 DEF Word
<1>4. LongWord \in Nat \ {0} /\ LongWord = Word * Word
  BY <1>3 DEF LongWord
<1>5. \A n, m \in Nat : n = (2 * m) + 0 => n \div 2 = m
  <2> SUFFICES ASSUME NEW n \in Nat, NEW m \in Nat, n = (2 * m) + 0
               PROVE  n \div 2 = m
    OBVIOUS
  <2> QED
    BY DivIs
<1>6. Base * h \in Nat /\ Word = (2 * (Base * h)) + 0
  BY <1>1, <1>2, <1>3
<1>7. Word \div 2 = Base * h
  BY <1>3, <1>5, <1>6
<1>8. PICK w \in Nat : w = Word \div 2 /\ Word = 2 * w
  BY <1>6, <1>7
<1>9. Word * w \in Nat /\ LongWord = (2 * (Word * w)) + 0
  BY <1>3, <1>4, <1>8
<1>10. LongWord \div 2 = Word * w
  BY <1>4, <1>5, <1>9
<1> QED
  BY <1>1, <1>2, <1>3, <1>4, <1>7, <1>8, <1>10

LEMMA StoredAre ==
    ASSUME NEW v \in Int
    PROVE  /\ store_u8(v) \in Seq(Byte) /\ Len(store_u8(v)) = 1 /\ store_u8(v)[1] = v % Base
           /\ store_u16(v) \in Seq(Byte) /\ Len(store_u16(v)) = 2
           /\ store_u32(v) \in Seq(Byte) /\ Len(store_u32(v)) = 4
           /\ store_u64(v) \in Seq(Byte) /\ Len(store_u64(v)) = 8
<1>1. ASSUME NEW u \in Int
      PROVE  store_u8(u) \in Seq(Byte) /\ Len(store_u8(u)) = 1 /\ store_u8(u)[1] = u % Base
  <2>1. u % Base \in Byte
    BY WordsAre, DivMod DEF Byte
  <2> QED
    BY <2>1 DEF store_u8
<1>2. ASSUME NEW u \in Int
      PROVE  store_u16(u) \in Seq(Byte) /\ Len(store_u16(u)) = 2
  <2>1. u \div Base \in Int
    BY WordsAre, DivMod
  <2> QED
    BY <1>1, <2>1, ConcatProperties DEF store_u16
<1>3. ASSUME NEW u \in Int
      PROVE  store_u32(u) \in Seq(Byte) /\ Len(store_u32(u)) = 4
  <2>1. u \div Word \in Int
    BY WordsAre, DivMod
  <2>2. PICK s \in Seq(Byte) : s = store_u16(u \div Word) /\ Len(s) = 2
    BY <1>2, <2>1
  <2>3. PICK t \in Seq(Byte) : t = store_u16(u) /\ Len(t) = 2
    BY <1>2
  <2>4. s \o t \in Seq(Byte) /\ Len(s \o t) = Len(s) + Len(t)
    BY ConcatProperties
  <2>5. Len(s \o t) = 4
    BY <2>2, <2>3, <2>4
  <2>6. store_u32(u) = s \o t
    BY <2>2, <2>3 DEF store_u32
  <2> QED
    BY <2>4, <2>5, <2>6
<1>4. store_u64(v) \in Seq(Byte) /\ Len(store_u64(v)) = 8
  <2>1. v \div LongWord \in Int
    BY WordsAre, DivMod
  <2>2. PICK s \in Seq(Byte) : s = store_u32(v \div LongWord) /\ Len(s) = 4
    BY <1>3, <2>1
  <2>3. PICK t \in Seq(Byte) : t = store_u32(v) /\ Len(t) = 4
    BY <1>3
  <2>4. s \o t \in Seq(Byte) /\ Len(s \o t) = Len(s) + Len(t)
    BY ConcatProperties
  <2>5. Len(s \o t) = 8
    BY <2>2, <2>3, <2>4
  <2>6. store_u64(v) = s \o t
    BY <2>2, <2>3 DEF store_u64
  <2> QED
    BY <2>4, <2>5, <2>6
<1> QED
  BY <1>1, <1>2, <1>3, <1>4

\* The bytes stand in p from the i-th on.
Has(p, i, bytes) == \A j \in 1..Len(bytes) : p[i + j - 1] = bytes[j]

LEMMA HasBoth ==
    ASSUME NEW s \in Seq(Byte), NEW t \in Seq(Byte), NEW i \in Nat, NEW p, Has(p, i, s \o t)
    PROVE  Has(p, i, s) /\ Has(p, i + Len(s), t)
<1>1. /\ Len(s) \in Nat /\ Len(t) \in Nat /\ Len(s \o t) = Len(s) + Len(t)
      /\ \A j \in 1..Len(s) : (s \o t)[j] = s[j]
      /\ \A j \in 1..Len(t) : (s \o t)[Len(s) + j] = t[j]
  BY ConcatProperties, LenProperties
<1>2. Has(p, i, s)
  BY <1>1 DEF Has
<1>3. ASSUME NEW j \in 1..Len(t)
      PROVE  p[i + Len(s) + j - 1] = t[j]
  <2>1. Len(s) + j \in 1..Len(s \o t)
    BY <1>1
  <2>2. p[i + (Len(s) + j) - 1] = (s \o t)[Len(s) + j]
    BY <2>1 DEF Has
  <2>3. i + (Len(s) + j) - 1 = i + Len(s) + j - 1
    BY <1>1
  <2> QED
    BY <1>1, <2>2, <2>3
<1> QED
  BY <1>2, <1>3 DEF Has

LEMMA HalvesAre ==
    ASSUME NEW v \in Int, NEW p, NEW i \in Nat
    PROVE  /\ v \div Base \in Int /\ v \div Word \in Int /\ v \div LongWord \in Int
           /\ v % Base \in Nat /\ v % Word \in Nat /\ v % LongWord \in Nat
           /\ Has(p, i, store_u8(v)) => p[i] = v % Base
           /\ Has(p, i, store_u16(v)) => /\ Has(p, i, store_u8(v \div Base))
                                         /\ Has(p, i + 1, store_u8(v))
           /\ Has(p, i, store_u32(v)) => /\ Has(p, i, store_u16(v \div Word))
                                         /\ Has(p, i + 2, store_u16(v))
           /\ Has(p, i, store_u64(v)) => /\ Has(p, i, store_u32(v \div LongWord))
                                         /\ Has(p, i + 4, store_u32(v))
<1>1. /\ v \div Base \in Int /\ v \div Word \in Int /\ v \div LongWord \in Int
      /\ v % Base \in Nat /\ v % Word \in Nat /\ v % LongWord \in Nat
  BY WordsAre, DivMod
<1>2. Has(p, i, store_u8(v)) => p[i] = v % Base
  <2>1. Len(store_u8(v)) = 1 /\ store_u8(v)[1] = v % Base /\ i + 1 - 1 = i
    BY StoredAre
  <2> QED
    BY <2>1 DEF Has
<1>3. Has(p, i, store_u16(v)) => Has(p, i, store_u8(v \div Base)) /\ Has(p, i + 1, store_u8(v))
  BY <1>1, StoredAre, HasBoth DEF store_u16
<1>4. Has(p, i, store_u32(v)) => Has(p, i, store_u16(v \div Word)) /\ Has(p, i + 2, store_u16(v))
  BY <1>1, StoredAre, HasBoth DEF store_u32
<1>5. Has(p, i, store_u64(v)) => /\ Has(p, i, store_u32(v \div LongWord))
                                 /\ Has(p, i + 4, store_u32(v))
  BY <1>1, StoredAre, HasBoth DEF store_u64
<1> QED
  BY <1>1, <1>2, <1>3, <1>4, <1>5

\* What is loaded is the number that was stored, up to what the width cuts off.
LEMMA LoadedAre ==
    ASSUME NEW v \in Int, NEW p, NEW i \in Nat
    PROVE  /\ Has(p, i, store_u8(v)) => load_u8(p, i) = v % Base
           /\ Has(p, i, store_u16(v)) => load_u16(p, i) = v % Word
           /\ Has(p, i, store_u32(v)) => load_u32(p, i) = v % LongWord
           /\ Has(p, i, store_u64(v)) /\ Unsigned64(v) => load_u64(p, i) = v
<1>1. ASSUME NEW u \in Int, NEW k \in Nat, Has(p, k, store_u8(u))
      PROVE  load_u8(p, k) = u % Base
  BY <1>1, HalvesAre DEF load_u8
<1>2. ASSUME NEW u \in Int, NEW k \in Nat, Has(p, k, store_u16(u))
      PROVE  load_u16(p, k) = u % Word
  <2>1. load_u8(p, k) = (u \div Base) % Base /\ load_u8(p, k + 1) = u % Base
    BY <1>1, <1>2, HalvesAre
  <2>2. u % Word = (Base * ((u \div Base) % Base)) + (u % Base)
    BY WordsAre, TwoDigits
  <2> QED
    BY <2>1, <2>2 DEF load_u16
<1>3. ASSUME NEW u \in Int, NEW k \in Nat, Has(p, k, store_u32(u))
      PROVE  load_u32(p, k) = u % LongWord
  <2>1. load_u16(p, k) = (u \div Word) % Word /\ load_u16(p, k + 2) = u % Word
    BY <1>2, <1>3, HalvesAre
  <2>2. u % LongWord = (Word * ((u \div Word) % Word)) + (u % Word)
    BY WordsAre, TwoDigits
  <2> QED
    BY <2>1, <2>2 DEF load_u32
<1>4. ASSUME Has(p, i, store_u64(v)), Unsigned64(v)
      PROVE  load_u64(p, i) = v
  <2>1. load_u32(p, i) = (v \div LongWord) % LongWord /\ load_u32(p, i + 4) = v % LongWord
    BY <1>3, <1>4, HalvesAre
  <2>2. PICK q \in Int : q = v \div LongWord
    BY HalvesAre
  <2>3. v = (LongWord * q) + (v % LongWord)
    BY <2>2, WordsAre, DivMod
  <2>4. q \in 0..(LongWord - 1)
    <3>1. LongWord * 0 <= v /\ q < LongWord
      BY <1>4, <2>2, WordsAre DEF Unsigned64
    <3>2. 0 <= q
      BY <2>2, <3>1, WordsAre, DivBetween
    <3> QED
      BY <3>1, <3>2, WordsAre
  <2>5. q % LongWord = q
    <3>1. q = (LongWord * 0) + q
      BY WordsAre
    <3> QED
      BY <2>4, <3>1, WordsAre, DivIs
  <2> QED
    BY <2>1, <2>2, <2>3, <2>5 DEF load_u64
<1> QED
  BY <1>1, <1>2, <1>3, <1>4

\* The numbers that an unsigned width has are their own remainders.
LEMMA SmallIsItself ==
    ASSUME NEW n \in Nat \ {0}, NEW v \in 0..(n - 1)
    PROVE  v % n = v /\ v \div n = 0
<1>1. v = (n * 0) + v
  OBVIOUS
<1> QED
  BY <1>1, DivIs

\* The numbers of a signed width, half of them negative.
Signed(v, n) == v \in -(n \div 2)..((n \div 2) - 1)

LEMMA SignedHalves ==
    ASSUME NEW v \in Int
    PROVE  /\ Signed(v, Word) => Signed(v \div Base, Base)
           /\ Signed(v, LongWord) => Signed(v \div Word, Word)
<1>1. ASSUME NEW n \in Nat \ {0}, NEW h \in Nat, v \in -(n * h)..((n * h) - 1)
      PROVE  v \div n \in -h..(h - 1)
  <2>1. n * (-h) = -(n * h) /\ n * h \in Int
    OBVIOUS
  <2>2. n * (-h) <= v /\ v < n * h
    BY <1>1, <2>1
  <2>3. -h <= v \div n /\ v \div n < h
    BY <2>2, DivBetween
  <2>4. v \div n \in Int
    BY DivMod
  <2> QED
    BY <2>3, <2>4
<1>2. Signed(v, Word) => Signed(v \div Base, Base)
  BY <1>1, WordsAre DEF Signed
<1>3. Word \div 2 \in Nat
  <2>1. Base * (Base \div 2) \in Nat
    BY WordsAre
  <2> QED
    BY <2>1, WordsAre
<1>4. Signed(v, LongWord) => Signed(v \div Word, Word)
  BY <1>1, <1>3, WordsAre DEF Signed
<1> QED
  BY <1>2, <1>4

LEMMA SignedLoadedAre ==
    ASSUME NEW v \in Int, NEW p, NEW i \in Nat
    PROVE  /\ Has(p, i, store_u8(v)) /\ Signed(v, Base) => load_i8(p, i) = v
           /\ Has(p, i, store_u16(v)) /\ Signed(v, Word) => load_i16(p, i) = v
           /\ Has(p, i, store_u32(v)) /\ Signed(v, LongWord) => load_i32(p, i) = v
           /\ Has(p, i, store_u64(v)) /\ Signed64(v) => load_i64(p, i) = v
<1>1. ASSUME NEW u \in Int, NEW k \in Nat, Has(p, k, store_u8(u)), Signed(u, Base)
      PROVE  load_i8(p, k) = u
  <2>1. p[k] = u % Base
    BY <1>1, HalvesAre
  <2>2. PICK h \in Nat : h = Base \div 2 /\ Base = 2 * h
    BY WordsAre
  <2>3. u \in -h..(h - 1)
    BY <1>1, <2>2 DEF Signed
  <2>4. CASE u >= 0
    <3>1. u \in 0..(Base - 1)
      BY <2>2, <2>3, <2>4
    <3>2. u % Base = u
      BY <3>1, WordsAre, SmallIsItself
    <3> QED
      BY <2>1, <2>2, <2>3, <3>2 DEF load_i8
  <2>5. CASE u < 0
    <3>1. u = (Base * (-1)) + (u + Base) /\ u + Base \in 0..(Base - 1) /\ u + Base >= h
      BY <2>2, <2>3, <2>5
    <3>2. u % Base = u + Base
      BY <3>1, WordsAre, DivIs
    <3>3. ~(u + Base < h) /\ (u + Base) - Base = u
      BY <2>2, <2>3, <3>1
    <3> QED
      BY <2>1, <2>2, <3>2, <3>3 DEF load_i8
  <2> QED
    BY <2>4, <2>5
<1>2. ASSUME NEW u \in Int, NEW k \in Nat, Has(p, k, store_u16(u)), Signed(u, Word)
      PROVE  load_i16(p, k) = u
  <2>1. load_i8(p, k) = u \div Base
    BY <1>1, <1>2, HalvesAre, SignedHalves
  <2>2. load_u8(p, k + 1) = u % Base
    BY <1>2, HalvesAre, LoadedAre
  <2>3. u = (Base * (u \div Base)) + (u % Base)
    BY WordsAre, DivMod
  <2> QED
    BY <2>1, <2>2, <2>3 DEF load_i16
<1>3. ASSUME NEW u \in Int, NEW k \in Nat, Has(p, k, store_u32(u)), Signed(u, LongWord)
      PROVE  load_i32(p, k) = u
  <2>1. load_i16(p, k) = u \div Word
    BY <1>2, <1>3, HalvesAre, SignedHalves
  <2>2. load_u16(p, k + 2) = u % Word
    BY <1>3, HalvesAre, LoadedAre
  <2>3. u = (Word * (u \div Word)) + (u % Word)
    BY WordsAre, DivMod
  <2> QED
    BY <2>1, <2>2, <2>3 DEF load_i32
<1>4. ASSUME Has(p, i, store_u64(v)), Signed64(v)
      PROVE  load_i64(p, i) = v
  <2>1. load_i32(p, i) = v \div LongWord
    BY <1>3, <1>4, HalvesAre DEF Signed64, Signed
  <2>2. load_u32(p, i + 4) = v % LongWord
    BY <1>4, HalvesAre, LoadedAre
  <2>3. v = (LongWord * (v \div LongWord)) + (v % LongWord)
    BY WordsAre, DivMod
  <2> QED
    BY <2>1, <2>2, <2>3 DEF load_i64
<1> QED
  BY <1>1, <1>2, <1>3, <1>4

-----------------------------------------------------------------------------
(* Tags as bytes.                                                          *)

\* Of the widths of a number there is a least one.
LEMMA MinIs ==
    ASSUME NEW S, S \subseteq 0..3, S # {}
    PROVE  Min(S) \in S
<1>1. \E m \in S : \A n \in S : m <= n
  <2>1. \A m \in 0..3 : m = 0 \/ m = 1 \/ m = 2 \/ m = 3
    OBVIOUS
  <2>2. 0 \in S \/ 1 \in S \/ 2 \in S \/ 3 \in S
    BY <2>1
  <2> QED
    BY <2>1, <2>2
<1> QED
  BY <1>1 DEF Min

LEMMA MaxIs ==
    ASSUME NEW a \in Nat, NEW b \in Nat, a <= b
    PROVE  Max(a..b) = b
<1>1. b \in a..b /\ \A y \in a..b : b >= y
  OBVIOUS
<1>2. PICK m : m = Max(a..b)
  OBVIOUS
<1>3. m \in a..b /\ \A y \in a..b : m >= y
  BY <1>1, <1>2 DEF Max
<1> QED
  BY <1>1, <1>2, <1>3

LEMMA WidthsAre ==
    /\ Width(0) = 1 /\ Width(1) = 2 /\ Width(2) = 4 /\ Width(3) = 8 /\ Width(4) = 16
    /\ Limit(1) = Base /\ Limit(2) = Word /\ Limit(4) = LongWord
    /\ UMax(1) = Base - 1 /\ UMax(2) = Word - 1 /\ UMax(4) = LongWord - 1
    /\ IMin(1) = -(Base \div 2) /\ IMin(2) = -(Word \div 2) /\ IMin(4) = -(LongWord \div 2)
<1>1. Width(0) = 1 /\ Width(1) = 2 /\ Width(2) = 4 /\ Width(3) = 8 /\ Width(4) = 16
  BY DEF Width
<1>2. Limit(1) = Base /\ Limit(2) = Word /\ Limit(4) = LongWord
  <2>1. 1 # 2 /\ 1 # 4 /\ 2 # 4
    OBVIOUS
  <2> QED
    BY <2>1, Zenon DEF Limit
<1> QED
  BY <1>1, <1>2 DEF UMax, IMin

LEMMA CodeIs ==
    ASSUME NEW i \in 0..31
    PROVE  /\ Code(i) \in Byte /\ ~IsFix(Code(i)) /\ CodeOf(Code(i)) = Codes[i + 1]
           /\ Code(i) - Code(2) = i - 2 /\ Code(i) - Code(20) = i - 20
<1>1. Base \in Nat /\ FixInt \in Nat
  BY BaseIsNat, RangesAre
<1>2. Code(0) \in Nat
  BY RangesAre
<1>3. /\ Code(i) \in Byte /\ ~IsFix(Code(i))
      /\ Code(i) - Code(2) = i - 2 /\ Code(i) - Code(20) = i - 20 /\ Code(i) - Code(0) + 1 = i + 1
  BY <1>1, <1>2 DEF Code, Byte, IsFix
<1>4. CodeOf(Code(i)) = Codes[Code(i) - Code(0) + 1]
  BY <1>3, CodeOfByte
<1> QED
  BY <1>3, <1>4

\* The bytes are a tag of which a reader sees t.
Reads(w, t) ==
    w \in Seq(Byte) /\ Len(w) > 0 /\ Len(w) = TagSize(w[1]) /\ mpack_parse_tag(w) = t

LEMMA ParsedCode ==
    ASSUME NEW i \in 0..31, NEW w, w[1] = Code(i), NEW c, c = Codes[i + 1]
    PROVE  /\ c[1] \in {"ext", "fixext"} => TagSize(w[1]) = 1 + c[2] + 1
           /\ c[1] \notin {"ext", "fixext"} => TagSize(w[1]) = 1 + c[2] + 0
           /\ c[1] = "bool" => mpack_parse_tag(w) = Tag("bool", i - 2, 0)
           /\ c[1] = "int" => mpack_parse_tag(w) = Tag("int", LoadSigned(w, 2, c[2]), 0)
           /\ c[1] = "ext" => mpack_parse_tag(w) =
                                 Tag("ext", Load(w, 2, c[2]), load_i8(w, c[2] + 2))
           /\ c[1] = "fixext" => mpack_parse_tag(w) = Tag("ext", Width(i - 20), load_i8(w, 2))
           /\ c[1] \notin {"bool", "int", "ext", "fixext"} =>
                 mpack_parse_tag(w) = Tag(c[1], Load(w, 2, c[2]), 0)
<1> DEFINE b == w[1]
<1>1. ~IsFix(b) /\ CodeOf(b) = c /\ b - Code(2) = i - 2 /\ b - Code(20) = i - 20
  BY CodeIs
<1>2. TagSize(b) = 1 + c[2] + (IF c[1] \in {"ext", "fixext"} THEN 1 ELSE 0)
  BY <1>1 DEF TagSize
<1>3. mpack_parse_tag(w) =
         CASE c[1] = "bool"   -> Tag("bool", b - Code(2), 0)
           [] c[1] = "int"    -> Tag("int", LoadSigned(w, 2, c[2]), 0)
           [] c[1] = "ext"    -> Tag("ext", Load(w, 2, c[2]), load_i8(w, c[2] + 2))
           [] c[1] = "fixext" -> Tag("ext", Width(b - Code(20)), load_i8(w, 2))
           [] OTHER           -> Tag(c[1], Load(w, 2, c[2]), 0)
  BY <1>1, Zenon DEF mpack_parse_tag
<1> HIDE DEF b
<1>4. c[1] = "bool" => mpack_parse_tag(w) = Tag("bool", i - 2, 0)
  BY <1>1, <1>3, Zenon
<1>5. c[1] = "int" => mpack_parse_tag(w) = Tag("int", LoadSigned(w, 2, c[2]), 0)
  BY <1>3, Zenon
<1>6. c[1] = "ext" => mpack_parse_tag(w) = Tag("ext", Load(w, 2, c[2]), load_i8(w, c[2] + 2))
  BY <1>3, Zenon
<1>7. c[1] = "fixext" => mpack_parse_tag(w) = Tag("ext", Width(i - 20), load_i8(w, 2))
  BY <1>1, <1>3, Zenon
<1>8. c[1] \notin {"bool", "int", "ext", "fixext"} =>
          mpack_parse_tag(w) = Tag(c[1], Load(w, 2, c[2]), 0)
  BY <1>3, Zenon
<1>9. c[1] \in {"ext", "fixext"} => TagSize(b) = 1 + c[2] + 1
  BY <1>2, Zenon
<1>10. c[1] \notin {"ext", "fixext"} => TagSize(b) = 1 + c[2] + 0
  BY <1>2, Zenon
<1> QED
  BY <1>4, <1>5, <1>6, <1>7, <1>8, <1>9, <1>10 DEF b

LEMMA ParsedInt ==
    ASSUME NEW i \in 0..31, NEW w, w[1] = Code(i), Codes[i + 1][1] = "int",
           NEW k, k = Codes[i + 1][2]
    PROVE  /\ TagSize(w[1]) = 1 + k + 0
           /\ mpack_parse_tag(w) = Tag("int", LoadSigned(w, 2, k), 0)
<1>1. PICK c : c = Codes[i + 1]
  OBVIOUS
<1>2. c[1] = "int" /\ k = c[2]
  BY <1>1
<1>3. c[1] = "int" => mpack_parse_tag(w) = Tag("int", LoadSigned(w, 2, c[2]), 0)
  BY <1>1, ParsedCode
<1>4. c[1] \notin {"ext", "fixext"} => TagSize(w[1]) = 1 + c[2] + 0
  BY <1>1, ParsedCode
<1>5. c[1] \notin {"ext", "fixext"}
  BY <1>2
<1> QED
  BY <1>2, <1>3, <1>4, <1>5

LEMMA DigitsAre ==
    ASSUME NEW v \in Int, NEW k \in {1, 2, 4, 8}
    PROVE  /\ Digits(v, k) \in Seq(Byte) /\ Len(Digits(v, k)) = k
           /\ k = 1 => Digits(v, k) = store_u8(v)
           /\ k = 2 => Digits(v, k) = store_u16(v)
           /\ k = 4 => Digits(v, k) = store_u32(v)
           /\ k = 8 => Digits(v, k) = store_u64(v)
<1>1. /\ k = 1 => Digits(v, k) = store_u8(v)
      /\ k = 2 => Digits(v, k) = store_u16(v)
      /\ k = 4 => Digits(v, k) = store_u32(v)
      /\ k = 8 => Digits(v, k) = store_u64(v)
  <2>1. 1 # 2 /\ 1 # 4 /\ 1 # 8 /\ 2 # 4 /\ 2 # 8 /\ 4 # 8
    OBVIOUS
  <2> QED
    BY <2>1, Zenon DEF Digits
<1> QED
  BY <1>1, StoredAre

\* The number fits into k bytes.
Wide(v, k) ==
    /\ k = 1 => v \in 0..(Base - 1)
    /\ k = 2 => v \in 0..(Word - 1)
    /\ k = 4 => v \in 0..(LongWord - 1)
    /\ k = 8 => Unsigned64(v)

SignedWide(v, k) ==
    /\ k = 1 => Signed(v, Base)
    /\ k = 2 => Signed(v, Word)
    /\ k = 4 => Signed(v, LongWord)
    /\ k = 8 => Signed64(v)

LEMMA DigitsLoad ==
    ASSUME NEW v \in Int, NEW k \in {1, 2, 4, 8}, NEW p, NEW i \in Nat, Has(p, i, Digits(v, k))
    PROVE  /\ Wide(v, k) => Load(p, i, k) = v
           /\ SignedWide(v, k) => LoadSigned(p, i, k) = v
<1>1. /\ k = 1 => Load(p, i, k) = load_u8(p, i)
      /\ k = 2 => Load(p, i, k) = load_u16(p, i)
      /\ k = 4 => Load(p, i, k) = load_u32(p, i)
      /\ k = 8 => Load(p, i, k) = load_u64(p, i)
      /\ k = 1 => LoadSigned(p, i, k) = load_i8(p, i)
      /\ k = 2 => LoadSigned(p, i, k) = load_i16(p, i)
      /\ k = 4 => LoadSigned(p, i, k) = load_i32(p, i)
      /\ k = 8 => LoadSigned(p, i, k) = load_i64(p, i)
  <2>1. 0 # 1 /\ 0 # 2 /\ 0 # 4 /\ 0 # 8 /\ 1 # 2 /\ 1 # 4 /\ 1 # 8 /\ 2 # 4 /\ 2 # 8 /\ 4 # 8
    OBVIOUS
  <2> QED
    BY <2>1, Zenon DEF Load, LoadSigned
<1>2. CASE k = 1
  <2>1. Has(p, i, store_u8(v))
    BY <1>2, DigitsAre
  <2>2. load_u8(p, i) = v % Base /\ (Signed(v, Base) => load_i8(p, i) = v)
    BY <2>1, LoadedAre, SignedLoadedAre
  <2>3. v \in 0..(Base - 1) => v % Base = v
    BY WordsAre, SmallIsItself
  <2> QED
    BY <1>1, <1>2, <2>2, <2>3 DEF Wide, SignedWide
<1>3. CASE k = 2
  <2>1. Has(p, i, store_u16(v))
    BY <1>3, DigitsAre
  <2>2. load_u16(p, i) = v % Word /\ (Signed(v, Word) => load_i16(p, i) = v)
    BY <2>1, LoadedAre, SignedLoadedAre
  <2>3. v \in 0..(Word - 1) => v % Word = v
    BY WordsAre, SmallIsItself
  <2> QED
    BY <1>1, <1>3, <2>2, <2>3 DEF Wide, SignedWide
<1>4. CASE k = 4
  <2>1. Has(p, i, store_u32(v))
    BY <1>4, DigitsAre
  <2>2. load_u32(p, i) = v % LongWord /\ (Signed(v, LongWord) => load_i32(p, i) = v)
    BY <2>1, LoadedAre, SignedLoadedAre
  <2>3. v \in 0..(LongWord - 1) => v % LongWord = v
    BY WordsAre, SmallIsItself
  <2> QED
    BY <1>1, <1>4, <2>2, <2>3 DEF Wide, SignedWide
<1>5. CASE k = 8
  <2>1. Has(p, i, store_u64(v))
    BY <1>5, DigitsAre
  <2>2. /\ Unsigned64(v) => load_u64(p, i) = v
        /\ Signed64(v) => load_i64(p, i) = v
    BY <2>1, LoadedAre, SignedLoadedAre
  <2> QED
    BY <1>1, <1>5, <2>2 DEF Wide, SignedWide
<1> QED
  BY <1>2, <1>3, <1>4, <1>5

LEMMA EncodedAre ==
    ASSUME NEW i \in 0..31, NEW v \in Int, NEW k \in {1, 2, 4, 8}, NEW w, w = Encoded(i, v, k)
    PROVE  w \in Seq(Byte) /\ Len(w) = 1 + k /\ w[1] = Code(i) /\ Has(w, 2, Digits(v, k))
<1>1. PICK s \in Seq(Byte) : s = <<Code(i)>> /\ Len(s) = 1 /\ s[1] = Code(i)
  <2>1. PICK b \in Byte : b = Code(i)
    BY CodeIs
  <2>2. <<b>> \in Seq(Byte) /\ Len(<<b>>) = 1 /\ <<b>>[1] = b
    OBVIOUS
  <2> QED
    BY <2>1, <2>2
<1>2. PICK t \in Seq(Byte) : t = Digits(v, k) /\ Len(t) = k
  BY DigitsAre
<1>3. w = s \o t
  BY <1>1, <1>2 DEF Encoded
<1>4. /\ w \in Seq(Byte) /\ Len(w) = 1 + k
      /\ \A j \in 1..Len(s) : w[j] = s[j]
      /\ \A j \in 1..Len(t) : w[Len(s) + j] = t[j]
  BY <1>1, <1>2, <1>3, ConcatProperties
<1>5. Has(w, 2, t)
  <2>1. \A j \in 1..Len(t) : Len(s) + j = 2 + j - 1
    BY <1>1, <1>2
  <2> QED
    BY <1>4, <2>1 DEF Has
<1> QED
  BY <1>1, <1>2, <1>4, <1>5

LEMMA EncodedReads ==
    ASSUME NEW i \in 0..31, NEW v \in Int, NEW k \in {1, 2, 4, 8}, Codes[i + 1][2] = k
    PROVE  /\ Codes[i + 1][1] \notin {"bool", "int", "ext", "fixext"} /\ Wide(v, k) =>
                 Reads(Encoded(i, v, k), Tag(Codes[i + 1][1], v, 0))
           /\ Codes[i + 1][1] = "int" /\ SignedWide(v, k) =>
                 Reads(Encoded(i, v, k), Tag("int", v, 0))
<1>1. PICK w : w = Encoded(i, v, k)
  OBVIOUS
<1>2. PICK c : c = Codes[i + 1]
  OBVIOUS
<1>3. w \in Seq(Byte) /\ Len(w) = 1 + k /\ w[1] = Code(i) /\ Has(w, 2, Digits(v, k))
  BY <1>1, EncodedAre
<1>4. /\ Wide(v, k) => Load(w, 2, k) = v
      /\ SignedWide(v, k) => LoadSigned(w, 2, k) = v
  BY <1>3, DigitsLoad
<1>5. 1 + k = 1 + k + 0 /\ 1 + k > 0
  OBVIOUS
<1>6. ASSUME c[1] \notin {"bool", "int", "ext", "fixext"}, Wide(v, k)
      PROVE  Reads(w, Tag(c[1], v, 0))
  <2>1. TagSize(w[1]) = 1 + k + 0 /\ mpack_parse_tag(w) = Tag(c[1], Load(w, 2, k), 0)
    BY <1>2, <1>3, <1>6, ParsedCode
  <2> QED
    BY <1>3, <1>4, <1>5, <1>6, <2>1 DEF Reads
<1>7. ASSUME c[1] = "int", SignedWide(v, k)
      PROVE  Reads(w, Tag("int", v, 0))
  <2>1. TagSize(w[1]) = 1 + k + 0 /\ mpack_parse_tag(w) = Tag("int", LoadSigned(w, 2, k), 0)
    BY <1>2, <1>3, <1>7, ParsedInt
  <2> QED
    BY <1>3, <1>4, <1>5, <1>7, <2>1 DEF Reads
<1> QED
  BY <1>1, <1>2, <1>6, <1>7

\* The tags of one byte.
LEMMA FixReads ==
    ASSUME NEW b \in Byte
    PROVE  /\ b < FixMap => Reads(<<b>>, Tag("uint", b, 0))
           /\ b >= FixMap /\ b < FixArray => Reads(<<b>>, Tag("map", b - FixMap, 0))
           /\ b >= FixArray /\ b < FixString => Reads(<<b>>, Tag("array", b - FixArray, 0))
           /\ b >= FixString /\ b < Code(0) => Reads(<<b>>, Tag("str", b - FixString, 0))
           /\ b > Code(31) => Reads(<<b>>, Tag("int", b - Base, 0))
<1>1. PICK w \in Seq(Byte) : w = <<b>> /\ Len(w) = 1 /\ w[1] = b
  <2>1. <<b>> \in Seq(Byte) /\ Len(<<b>>) = 1 /\ <<b>>[1] = b
    OBVIOUS
  <2> QED
    BY <2>1
<1>2. ASSUME IsFix(b)
      PROVE  Reads(w, FixTag(b))
  <2>1. TagSize(b) = 1
    BY <1>2 DEF TagSize
  <2>2. mpack_parse_tag(w) = FixTag(b)
    BY <1>1, <1>2 DEF mpack_parse_tag
  <2> QED
    BY <1>1, <2>1, <2>2 DEF Reads
<1>3. b \in Nat
  BY BaseIsNat
<1>4. CASE b < FixMap
  <2>1. /\ ~(b >= FixMap) /\ ~(b >= FixArray) /\ ~(b >= FixString) /\ ~(b > Code(31))
        /\ IsFix(b)
    BY <1>3, <1>4, RangesAre DEF IsFix
  <2>2. FixTag(b) = Tag("uint", b, 0)
    BY <1>4, <2>1, Zenon DEF FixTag
  <2> QED
    BY <1>1, <1>2, <2>1, <2>2
<1>5. CASE b >= FixMap /\ b < FixArray
  <2>1. /\ ~(b < FixMap) /\ ~(b >= FixArray) /\ ~(b >= FixString) /\ ~(b > Code(31))
        /\ IsFix(b)
    BY <1>3, <1>5, RangesAre DEF IsFix
  <2>2. FixTag(b) = Tag("map", b - FixMap, 0)
    BY <1>5, <2>1, Zenon DEF FixTag
  <2> QED
    BY <1>1, <1>2, <1>5, <2>1, <2>2
<1>6. CASE b >= FixArray /\ b < FixString
  <2>1. /\ ~(b < FixMap) /\ ~(b < FixArray) /\ ~(b >= FixString) /\ ~(b > Code(31))
        /\ IsFix(b)
    BY <1>3, <1>6, RangesAre DEF IsFix
  <2>2. FixTag(b) = Tag("array", b - FixArray, 0)
    BY <1>6, <2>1, Zenon DEF FixTag
  <2> QED
    BY <1>1, <1>2, <1>6, <2>1, <2>2
<1>7. CASE b >= FixString /\ b < Code(0)
  <2>1. /\ ~(b < FixMap) /\ ~(b < FixArray) /\ ~(b < FixString) /\ ~(b > Code(31))
        /\ IsFix(b)
    BY <1>3, <1>7, RangesAre DEF IsFix
  <2>2. FixTag(b) = Tag("str", b - FixString, 0)
    BY <1>7, <2>1, Zenon DEF FixTag
  <2> QED
    BY <1>1, <1>2, <1>7, <2>1, <2>2
<1>8. CASE b > Code(31)
  <2>1. /\ ~(b < FixMap) /\ ~(b < FixArray) /\ ~(b < FixString) /\ ~(b < Code(0))
        /\ IsFix(b)
    BY <1>3, <1>8, RangesAre DEF IsFix
  <2>2. FixTag(b) = Tag("int", b - Base, 0)
    BY <1>8, <2>1, Zenon DEF FixTag
  <2> QED
    BY <1>1, <1>2, <1>8, <2>1, <2>2
<1> QED
  BY <1>4, <1>5, <1>6, <1>7, <1>8

\* The width that is chosen fits.
LEMMA LeastIs ==
    ASSUME NEW a \in 0..1, NEW b \in 2..3, NEW v \in Nat,
           b = 2 => v <= UMax(4), b = 3 => Unsigned64(v)
    PROVE  /\ Least(a..b, LAMBDA k : v <= UMax(k)) \in a..b
           /\ Wide(v, Width(Least(a..b, LAMBDA k : v <= UMax(k))))
<1> DEFINE S == {j \in a..b : j = Max(a..b) \/ v <= UMax(Width(j))}
<1>1. PICK j : j = Least(a..b, LAMBDA k : v <= UMax(k))
  OBVIOUS
<1>2. j = Min(S)
  BY <1>1 DEF Least
<1>3. Max(a..b) = b
  BY MaxIs
<1>4. S \subseteq 0..3 /\ b \in S
  BY <1>3
<1>5. j \in S
  BY <1>2, <1>4, MinIs
<1>6. j \in a..b /\ (j = b \/ v <= UMax(Width(j)))
  BY <1>3, <1>5
<1>7. Wide(v, Width(j))
  <2>1. CASE j = 0
    <3>1. v \in 0..(Base - 1)
      BY <1>6, <2>1, WidthsAre, WordsAre
    <3> QED
      BY <2>1, <3>1, WidthsAre DEF Wide
  <2>2. CASE j = 1
    <3>1. v \in 0..(Word - 1)
      BY <1>6, <2>2, WidthsAre, WordsAre
    <3> QED
      BY <2>2, <3>1, WidthsAre DEF Wide
  <2>3. CASE j = 2
    <3>1. v <= LongWord - 1
      BY <1>6, <2>3, WidthsAre
    <3>2. v \in 0..(LongWord - 1)
      BY <3>1, WordsAre
    <3> QED
      BY <2>3, <3>2, WidthsAre DEF Wide
  <2>4. CASE j = 3
    <3>1. Unsigned64(v)
      BY <1>6, <2>4
    <3> QED
      BY <2>4, <3>1, WidthsAre DEF Wide
  <2> QED
    BY <1>6, <2>1, <2>2, <2>3, <2>4
<1> QED
  BY <1>1, <1>6, <1>7

LEMMA UnsignedReads ==
    ASSUME NEW v, Unsigned64(v)
    PROVE  Reads(mpack_write_u64(v), Tag("uint", v, 0))
<1>0. v \in Nat
  BY DEF Unsigned64
<1>1. PICK j : j = Least(0..3, LAMBDA k : v <= UMax(k))
  OBVIOUS
<1>2. j \in 0..3 /\ Wide(v, Width(j))
  <2>1. 0 \in 0..1 /\ 3 \in 2..3 /\ 3 # 2
    OBVIOUS
  <2> QED
    BY <1>0, <1>1, <2>1, LeastIs
<1>3. mpack_write_u64(v) = IF v < Base \div 2 THEN <<v>> ELSE Encoded(12 + j, v, Width(j))
  BY <1>1 DEF mpack_write_u64
<1>4. CASE v < Base \div 2
  <2>1. v \in Byte /\ v < FixMap
    BY <1>0, <1>4, WordsAre DEF Byte, FixMap
  <2> QED
    BY <1>3, <1>4, <2>1, FixReads
<1>5. CASE ~(v < Base \div 2)
  <2>1. Width(j) \in {1, 2, 4, 8}
    BY <1>2, WidthsAre
  <2>2. 12 + j \in 0..31 /\ Codes[12 + j + 1][1] = "uint" /\ Codes[12 + j + 1][2] = Width(j)
    <3>1. /\ Codes[13] = <<"uint", 1>> /\ Codes[14] = <<"uint", 2>>
          /\ Codes[15] = <<"uint", 4>> /\ Codes[16] = <<"uint", 8>>
      BY DEF Codes
    <3>2. j = 0 \/ j = 1 \/ j = 2 \/ j = 3
      BY <1>2
    <3> QED
      BY <3>1, <3>2, WidthsAre
  <2>3. Reads(Encoded(12 + j, v, Width(j)), Tag("uint", v, 0))
    BY <1>0, <1>2, <2>1, <2>2, EncodedReads
  <2> QED
    BY <1>3, <1>5, <2>3
<1> QED
  BY <1>4, <1>5

LEMMA LeastSignedIs ==
    ASSUME NEW v, Signed64(v), v < 0, NEW j,
           j = Min({i \in 0..3 : i = Max(0..3) \/ v >= IMin(Width(i))})
    PROVE  j \in 0..3 /\ SignedWide(v, Width(j))
<1> DEFINE S == {i \in 0..3 : i = Max(0..3) \/ v >= IMin(Width(i))}
<1>2. j = Min(S)
  OBVIOUS
<1>3. Max(0..3) = 3
  <2>1. 0 \in Nat /\ 3 \in Nat /\ 0 <= 3
    OBVIOUS
  <2> QED
    BY <2>1, MaxIs
<1>4. S \subseteq 0..3 /\ 3 \in S
  BY <1>3
<1>5. j \in S
  BY <1>2, <1>4, MinIs
<1>6. j \in 0..3 /\ (j = 3 \/ v >= IMin(Width(j)))
  BY <1>3, <1>5
<1>7. v \in Int
  BY DEF Signed64
<1>8. ASSUME NEW n \in Nat \ {0}, n \div 2 \in Nat, v >= -(n \div 2)
      PROVE  Signed(v, n)
  <2>1. PICK h \in Nat : h = n \div 2
    BY <1>8
  <2>2. v \in -h..(h - 1)
    BY <1>7, <1>8, <2>1
  <2> QED
    BY <2>1, <2>2 DEF Signed
<1>9. Word \div 2 \in Nat /\ LongWord \div 2 \in Nat
  <2>1. Base * (Base \div 2) \in Nat
    BY WordsAre
  <2>2. Word \div 2 \in Nat
    BY <2>1, WordsAre
  <2>3. Word * (Word \div 2) \in Nat
    BY <2>2, WordsAre
  <2> QED
    BY <2>2, <2>3, WordsAre
<1>10. SignedWide(v, Width(j))
  <2>1. CASE j = 0
    <3>1. Signed(v, Base)
      BY <1>6, <1>8, <2>1, WidthsAre, WordsAre
    <3> QED
      BY <2>1, <3>1, WidthsAre DEF SignedWide
  <2>2. CASE j = 1
    <3>1. Signed(v, Word)
      BY <1>6, <1>8, <1>9, <2>2, WidthsAre, WordsAre
    <3> QED
      BY <2>2, <3>1, WidthsAre DEF SignedWide
  <2>3. CASE j = 2
    <3>1. Signed(v, LongWord)
      BY <1>6, <1>8, <1>9, <2>3, WidthsAre, WordsAre
    <3> QED
      BY <2>3, <3>1, WidthsAre DEF SignedWide
  <2>4. CASE j = 3
    BY <2>4, WidthsAre DEF SignedWide
  <2> QED
    BY <1>6, <2>1, <2>2, <2>3, <2>4
<1> QED
  BY <1>6, <1>10

LEMMA SignedReads ==
    ASSUME NEW v, Signed64(v)
    PROVE  /\ v >= 0 => Reads(mpack_write_i64(v), Tag("uint", v, 0))
           /\ v < 0 => Reads(mpack_write_i64(v), Tag("int", v, 0))
<1>0. v \in Int
  BY DEF Signed64
<1>1. PICK j : j = Least(0..3, LAMBDA k : v >= IMin(k))
  OBVIOUS
<1>2. mpack_write_i64(v) =
         IF v >= 0 THEN mpack_write_u64(v)
         ELSE IF v >= -FixInt THEN Digits(v, 1) ELSE Encoded(16 + j, v, Width(j))
  BY <1>1 DEF mpack_write_i64
<1>3. CASE v >= 0
  <2>1. PICK q \in Int : q = v \div LongWord
    BY <1>0, HalvesAre
  <2>2. q < LongWord
    <3>1. PICK h \in Int : h = LongWord \div 2
      BY WordsAre, DivMod
    <3>2. q \in -h..(h - 1)
      BY <2>1, <3>1 DEF Signed64
    <3>3. h <= LongWord
      <4>1. LongWord = (2 * h) + (LongWord % 2) /\ LongWord % 2 \in 0..1
        BY <3>1, WordsAre, DivMod
      <4> QED
        BY <4>1, WordsAre
    <3> QED
      BY <3>2, <3>3, WordsAre
  <2>3. Unsigned64(v)
    BY <1>0, <1>3, <2>1, <2>2 DEF Unsigned64
  <2> QED
    BY <1>0, <1>2, <1>3, <2>3, UnsignedReads
<1>4. CASE v < 0 /\ v >= -FixInt
  <2>1. Base \in Nat /\ FixInt \in Nat /\ FixInt < Base
    BY RangesAre, TagAssumption, WordsAre
  <2>2. v = (Base * (-1)) + (v + Base) /\ v + Base \in 0..(Base - 1)
    BY <1>0, <1>4, <2>1
  <2>3. v % Base = v + Base
    BY <1>0, <2>2, WordsAre, DivIs
  <2>4. v + Base \in Byte /\ v + Base > Code(31) /\ (v + Base) - Base = v
    BY <1>0, <1>4, <2>1, <2>2 DEF Byte, Code
  <2>5. Digits(v, 1) = <<v + Base>>
    BY <1>0, <2>3, DigitsAre DEF store_u8
  <2>6. ~(v >= 0)
    BY <1>0, <1>4
  <2> QED
    BY <1>2, <1>4, <2>4, <2>5, <2>6, FixReads
<1>5. CASE v < 0 /\ ~(v >= -FixInt)
  <2>1. j \in 0..3 /\ SignedWide(v, Width(j))
    <3>1. v < 0
      BY <1>5
    <3>2. j = Min({i \in 0..3 : i = Max(0..3) \/ v >= IMin(Width(i))})
      BY <1>1 DEF Least
    <3> QED
      BY <3>1, <3>2, LeastSignedIs
  <2>2. Width(j) \in {1, 2, 4, 8}
    BY <2>1, WidthsAre
  <2>3. 16 + j \in 0..31 /\ Codes[16 + j + 1][1] = "int" /\ Codes[16 + j + 1][2] = Width(j)
    <3>1. /\ Codes[17] = <<"int", 1>> /\ Codes[18] = <<"int", 2>>
          /\ Codes[19] = <<"int", 4>> /\ Codes[20] = <<"int", 8>>
      BY DEF Codes
    <3>2. j = 0 \/ j = 1 \/ j = 2 \/ j = 3
      BY <2>1
    <3> QED
      BY <3>1, <3>2, WidthsAre
  <2>4. Reads(Encoded(16 + j, v, Width(j)), Tag("int", v, 0))
    BY <1>0, <2>1, <2>2, <2>3, EncodedReads
  <2>5. ~(v >= 0)
    BY <1>0, <1>5
  <2> QED
    BY <1>2, <1>5, <2>4, <2>5
<1> QED
  BY <1>0, <1>3, <1>4, <1>5

\* A length in the first byte, or behind it in a width that it fits into.
SizedTo(w, first, fix, i, js, n) ==
    \E j \in js :
        Wide(n, Width(j)) /\ w = IF n < fix THEN <<first + n>> ELSE Encoded(i + j, n, Width(j))

LEMMA SizedIs ==
    ASSUME NEW first, NEW fix, NEW i, NEW js, js = 0..2 \/ js = 1..2,
           NEW n, n \in 0..(LongWord - 1)
    PROVE  SizedTo(Sized(first, fix, i, js, n), first, fix, i, js, n)
<1>1. PICK j : j = Least(js, LAMBDA k : n <= UMax(k))
  OBVIOUS
<1>2. n \in Nat /\ n <= UMax(4) /\ 2 \in 2..3 /\ 2 # 3 /\ 0 \in 0..1 /\ 1 \in 0..1
  BY WordsAre, WidthsAre
<1>3. CASE js = 0..2
  <2>1. j = Least(0..2, LAMBDA k : n <= UMax(k))
    BY <1>1, <1>3
  <2>2. j \in 0..2 /\ Wide(n, Width(j))
    BY <1>2, <2>1, LeastIs
  <2> QED
    BY <1>1, <1>3, <2>2 DEF Sized, SizedTo
<1>4. CASE js = 1..2
  <2>1. j = Least(1..2, LAMBDA k : n <= UMax(k))
    BY <1>1, <1>4
  <2>2. j \in 1..2 /\ Wide(n, Width(j))
    BY <1>2, <2>1, LeastIs
  <2> QED
    BY <1>1, <1>4, <2>2 DEF Sized, SizedTo
<1> QED
  BY <1>3, <1>4

LEMMA LengthReads ==
    ASSUME NEW n \in 0..(LongWord - 1)
    PROVE  /\ Reads(mpack_start_array(n), Tag("array", n, 0))
           /\ Reads(mpack_start_map(n), Tag("map", n, 0))
           /\ Reads(mpack_start_str(n), Tag("str", n, 0))
           /\ Reads(mpack_start_bin(n), Tag("bin", n, 0))
<1>0. n \in Nat /\ FixCount \in Nat /\ FixStr \in Nat
  BY TagAssumption
<1>1. /\ FixMap \in Nat /\ FixArray = FixMap + FixCount /\ FixString = FixArray + FixCount
      /\ Code(0) = FixString + FixStr /\ Code(0) < Base /\ Base \in Nat
  BY TagAssumption, RangesAre DEF FixArray, FixString, FixMap, Code
<1>2. /\ Codes[26] = <<"str", 1>> /\ Codes[27] = <<"str", 2>> /\ Codes[28] = <<"str", 4>>
      /\ Codes[29] = <<"array", 2>> /\ Codes[30] = <<"array", 4>>
      /\ Codes[31] = <<"map", 2>> /\ Codes[32] = <<"map", 4>>
      /\ Codes[5] = <<"bin", 1>> /\ Codes[6] = <<"bin", 2>> /\ Codes[7] = <<"bin", 4>>
  BY DEF Codes
<1>3. Reads(mpack_start_array(n), Tag("array", n, 0))
  <2>1. PICK j \in 1..2 :
           /\ Wide(n, Width(j))
           /\ mpack_start_array(n) = IF n < FixCount THEN <<FixArray + n>>
                                     ELSE Encoded(27 + j, n, Width(j))
    <3>1. SizedTo(Sized(FixArray, FixCount, 27, 1..2, n), FixArray, FixCount, 27, 1..2, n)
      BY SizedIs, Zenon
    <3> QED
      BY <3>1, Zenon DEF mpack_start_array, SizedTo
  <2>2. CASE n < FixCount
    <3>1. PICK b \in Byte : b = FixArray + n
      BY <1>0, <1>1, <2>2 DEF Byte
    <3>2. b >= FixArray /\ b < FixString /\ b - FixArray = n
      BY <1>0, <1>1, <2>2, <3>1
    <3> QED
      BY <2>1, <2>2, <3>1, <3>2, FixReads
  <2>3. CASE ~(n < FixCount)
    <3>1. /\ 27 + j \in 0..31 /\ Width(j) \in {1, 2, 4, 8}
          /\ Codes[27 + j + 1][1] = "array" /\ Codes[27 + j + 1][2] = Width(j)
      <4>1. j = 1 \/ j = 2
        OBVIOUS
      <4> QED
        BY <1>2, <4>1, WidthsAre
    <3>2. Reads(Encoded(27 + j, n, Width(j)), Tag("array", n, 0))
      BY <2>1, <3>1, EncodedReads
    <3> QED
      BY <2>1, <2>3, <3>2
  <2> QED
    BY <2>2, <2>3
<1>4. Reads(mpack_start_map(n), Tag("map", n, 0))
  <2>1. PICK j \in 1..2 :
           /\ Wide(n, Width(j))
           /\ mpack_start_map(n) = IF n < FixCount THEN <<FixMap + n>>
                                   ELSE Encoded(29 + j, n, Width(j))
    <3>1. SizedTo(Sized(FixMap, FixCount, 29, 1..2, n), FixMap, FixCount, 29, 1..2, n)
      BY SizedIs, Zenon
    <3> QED
      BY <3>1, Zenon DEF mpack_start_map, SizedTo
  <2>2. CASE n < FixCount
    <3>1. PICK b \in Byte : b = FixMap + n
      BY <1>0, <1>1, <2>2 DEF Byte
    <3>2. b >= FixMap /\ b < FixArray /\ b - FixMap = n
      BY <1>0, <1>1, <2>2, <3>1
    <3> QED
      BY <2>1, <2>2, <3>1, <3>2, FixReads
  <2>3. CASE ~(n < FixCount)
    <3>1. /\ 29 + j \in 0..31 /\ Width(j) \in {1, 2, 4, 8}
          /\ Codes[29 + j + 1][1] = "map" /\ Codes[29 + j + 1][2] = Width(j)
      <4>1. j = 1 \/ j = 2
        OBVIOUS
      <4> QED
        BY <1>2, <4>1, WidthsAre
    <3>2. Reads(Encoded(29 + j, n, Width(j)), Tag("map", n, 0))
      BY <2>1, <3>1, EncodedReads
    <3> QED
      BY <2>1, <2>3, <3>2
  <2> QED
    BY <2>2, <2>3
<1>5. Reads(mpack_start_str(n), Tag("str", n, 0))
  <2>1. PICK j \in 0..2 :
           /\ Wide(n, Width(j))
           /\ mpack_start_str(n) = IF n < FixStr THEN <<FixString + n>>
                                   ELSE Encoded(25 + j, n, Width(j))
    <3>1. SizedTo(Sized(FixString, FixStr, 25, 0..2, n), FixString, FixStr, 25, 0..2, n)
      BY SizedIs, Zenon
    <3> QED
      BY <3>1, Zenon DEF mpack_start_str, SizedTo
  <2>2. CASE n < FixStr
    <3>1. PICK b \in Byte : b = FixString + n
      BY <1>0, <1>1, <2>2 DEF Byte
    <3>2. b >= FixString /\ b < Code(0) /\ b - FixString = n
      BY <1>0, <1>1, <2>2, <3>1
    <3> QED
      BY <2>1, <2>2, <3>1, <3>2, FixReads
  <2>3. CASE ~(n < FixStr)
    <3>1. /\ 25 + j \in 0..31 /\ Width(j) \in {1, 2, 4, 8}
          /\ Codes[25 + j + 1][1] = "str" /\ Codes[25 + j + 1][2] = Width(j)
      <4>1. j = 0 \/ j = 1 \/ j = 2
        OBVIOUS
      <4> QED
        BY <1>2, <4>1, WidthsAre
    <3>2. Reads(Encoded(25 + j, n, Width(j)), Tag("str", n, 0))
      BY <2>1, <3>1, EncodedReads
    <3> QED
      BY <2>1, <2>3, <3>2
  <2> QED
    BY <2>2, <2>3
<1>6. Reads(mpack_start_bin(n), Tag("bin", n, 0))
  <2>1. PICK j \in 0..2 :
           /\ Wide(n, Width(j))
           /\ mpack_start_bin(n) = IF n < 0 THEN <<0 + n>> ELSE Encoded(4 + j, n, Width(j))
    <3>1. SizedTo(Sized(0, 0, 4, 0..2, n), 0, 0, 4, 0..2, n)
      BY SizedIs, Zenon
    <3> QED
      BY <3>1, Zenon DEF mpack_start_bin, SizedTo
  <2>2. ~(n < 0)
    BY <1>0
  <2>3. /\ 4 + j \in 0..31 /\ Width(j) \in {1, 2, 4, 8}
        /\ Codes[4 + j + 1][1] = "bin" /\ Codes[4 + j + 1][2] = Width(j)
    <3>1. j = 0 \/ j = 1 \/ j = 2
      OBVIOUS
    <3> QED
      BY <1>2, <3>1, WidthsAre
  <2>4. Reads(Encoded(4 + j, n, Width(j)), Tag("bin", n, 0))
    BY <2>1, <2>3, EncodedReads
  <2> QED
    BY <2>1, <2>2, <2>4
<1> QED
  BY <1>3, <1>4, <1>5, <1>6

\* The type of an extension is behind its length, or alone.
LEMMA ExtReads ==
    ASSUME NEW n \in 0..(LongWord - 1), NEW x \in Int, Signed(x, Base)
    PROVE  Reads(mpack_start_ext(x, n), Tag("ext", n, x))
<1>0. n \in Nat /\ n \in Int
  OBVIOUS
<1>1. /\ Codes[21] = <<"fixext", 0>> /\ Codes[22] = <<"fixext", 0>>
      /\ Codes[23] = <<"fixext", 0>> /\ Codes[24] = <<"fixext", 0>>
      /\ Codes[25] = <<"fixext", 0>>
      /\ Codes[8] = <<"ext", 1>> /\ Codes[9] = <<"ext", 2>> /\ Codes[10] = <<"ext", 4>>
  BY DEF Codes
<1>2. CASE n \in FixExts
  <2>1. PICK j : j = CHOOSE i \in 0..4 : Width(i) = n
    OBVIOUS
  <2>2. \E i \in 0..4 : Width(i) = n
    <3>1. n = 1 \/ n = 2 \/ n = 4 \/ n = 8 \/ n = 16
      BY <1>2 DEF FixExts
    <3>2. 0 \in 0..4 /\ 1 \in 0..4 /\ 2 \in 0..4 /\ 3 \in 0..4 /\ 4 \in 0..4
      OBVIOUS
    <3> QED
      BY <3>1, <3>2, WidthsAre
  <2>3. j \in 0..4 /\ Width(j) = n
    BY <2>1, <2>2
  <2>4. PICK w : w = Encoded(20 + j, x, 1)
    OBVIOUS
  <2>5. mpack_start_ext(x, n) = w
    BY <1>2, <2>1, <2>4 DEF mpack_start_ext
  <2>6. 20 + j \in 0..31 /\ 1 \in {1, 2, 4, 8} /\ (20 + j) - 20 = j
    BY <2>3
  <2>7. w \in Seq(Byte) /\ Len(w) = 1 + 1 /\ w[1] = Code(20 + j) /\ Has(w, 2, Digits(x, 1))
    BY <2>4, <2>6, EncodedAre
  <2>8. load_i8(w, 2) = x
    <3>1. Has(w, 2, store_u8(x))
      BY <2>7, DigitsAre
    <3> QED
      BY <3>1, SignedLoadedAre
  <2>9. PICK c : c = Codes[20 + j + 1]
    OBVIOUS
  <2>10. c[1] = "fixext" /\ c[2] = 0
    <3>1. j = 0 \/ j = 1 \/ j = 2 \/ j = 3 \/ j = 4
      BY <2>3
    <3> QED
      BY <1>1, <2>9, <3>1
  <2>11. c[1] \in {"ext", "fixext"} => TagSize(w[1]) = 1 + c[2] + 1
    BY <2>6, <2>7, <2>9, ParsedCode
  <2>12. c[1] = "fixext" => mpack_parse_tag(w) = Tag("ext", Width((20 + j) - 20), load_i8(w, 2))
    BY <2>6, <2>7, <2>9, ParsedCode
  <2>13. TagSize(w[1]) = 1 + 1 /\ mpack_parse_tag(w) = Tag("ext", n, x)
    BY <2>3, <2>6, <2>8, <2>10, <2>11, <2>12
  <2> QED
    BY <2>5, <2>7, <2>13 DEF Reads
<1>3. CASE n \notin FixExts
  <2>1. SizedTo(Sized(0, 0, 7, 0..2, n), 0, 0, 7, 0..2, n)
    BY SizedIs, Zenon
  <2>2. PICK j \in 0..2 :
           /\ Wide(n, Width(j))
           /\ Sized(0, 0, 7, 0..2, n) =
                 IF n < 0 THEN <<0 + n>> ELSE Encoded(7 + j, n, Width(j))
    BY <2>1, Zenon DEF SizedTo
  <2>3. PICK k \in {1, 2, 4, 8} : k = Width(j) /\ k \in {1, 2, 4}
    BY WidthsAre
  <2>4. PICK i \in 0..31 : i = 7 + j
    OBVIOUS
  <2>5. PICK e \in Seq(Byte) : /\ e = Encoded(i, n, k) /\ Len(e) = 1 + k
                               /\ e[1] = Code(i) /\ Has(e, 2, Digits(n, k))
    BY <1>0, EncodedAre
  <2>6. Sized(0, 0, 7, 0..2, n) = e
    <3>1. ~(n < 0)
      BY <1>0
    <3> QED
      BY <2>2, <2>3, <2>4, <2>5, <3>1
  <2>7. Len(e) = 1 + k /\ e[1] = Code(i) /\ Has(e, 2, Digits(n, k))
    BY <2>5
  <2>8. PICK d \in Seq(Byte) : d = Digits(x, 1) /\ d = store_u8(x) /\ Len(d) = 1 /\ 1 \in 1..Len(d)
    <3>1. PICK d \in Seq(Byte) : d = Digits(x, 1) /\ d = store_u8(x) /\ Len(d) = 1
      BY DigitsAre, StoredAre
    <3>2. 1 \in 1..1
      OBVIOUS
    <3> QED
      BY <3>1, <3>2, Zenon
  <2>9. PICK w : w = e \o d
    OBVIOUS
  <2>10. mpack_start_ext(x, n) = w
    BY <1>3, <2>6, <2>8, <2>9 DEF mpack_start_ext, ExtOfAnyLength
  <2>11. /\ w \in Seq(Byte) /\ Len(w) = Len(e) + Len(d)
         /\ \A a \in 1..Len(e) : w[a] = e[a]
         /\ \A a \in 1..Len(d) : w[Len(e) + a] = d[a]
    BY <2>9, ConcatProperties
  <2>12. w[1] = Code(i) /\ Len(w) = 1 + k + 1 /\ Len(w) > 0
    BY <2>3, <2>7, <2>8, <2>11
  <2>13. Load(w, 2, k) = n
    <3>1. PICK q : q = Digits(n, k)
      OBVIOUS
    <3>2. Len(q) = k
      BY <1>0, <2>3, <3>1, DigitsAre
    <3>3. \A a \in 1..k : 2 + a - 1 \in 1..Len(e) /\ e[2 + a - 1] = q[a]
      BY <2>3, <2>7, <3>1, <3>2 DEF Has
    <3>4. \A a \in 1..k : w[2 + a - 1] = q[a]
      BY <2>11, <3>3
    <3>5. Has(w, 2, q)
      BY <3>2, <3>4 DEF Has
    <3> QED
      BY <1>0, <2>2, <2>3, <2>3, <3>1, <3>5, DigitsLoad
  <2>14. load_i8(w, k + 2) = x
    <3>1. k + 2 \in Nat /\ Len(e) = k + 1
      BY <2>3, <2>7
    <3>2. Has(w, k + 2, d)
      <4>1. w[Len(e) + 1] = d[1] /\ Len(e) + 1 = k + 2 + 1 - 1
        <5>1. 1 \in 1..Len(d)
          BY <2>8
        <5>2. w[Len(e) + 1] = d[1]
          BY <2>11, <5>1
        <5>3. Len(e) + 1 = k + 2 + 1 - 1
          BY <3>1
        <5> QED
          BY <5>2, <5>3
      <4> QED
        BY <2>8, <4>1 DEF Has
    <3> QED
      BY <2>8, <3>1, <3>2, SignedLoadedAre
  <2>15. PICK c : c = Codes[i + 1]
    OBVIOUS
  <2>16. c[1] = "ext" /\ c[2] = k
    <3>1. j = 0 \/ j = 1 \/ j = 2
      OBVIOUS
    <3> QED
      BY <1>1, <2>3, <2>4, <2>15, <3>1, WidthsAre
  <2>17. c[1] \in {"ext", "fixext"} => TagSize(w[1]) = 1 + c[2] + 1
    BY <2>12, <2>15, ParsedCode
  <2>18. c[1] = "ext" => mpack_parse_tag(w) =
                            Tag("ext", Load(w, 2, c[2]), load_i8(w, c[2] + 2))
    BY <2>12, <2>15, ParsedCode
  <2>19. TagSize(w[1]) = 1 + k + 1 /\ mpack_parse_tag(w) = Tag("ext", n, x)
    BY <2>13, <2>14, <2>16, <2>17, <2>18
  <2> QED
    BY <2>10, <2>11, <2>12, <2>19 DEF Reads
<1> QED
  BY <1>2, <1>3

\* One byte that is neither small nor followed by a number.
LEMMA BareReads ==
    /\ Reads(<<Code(0)>>, Tag("nil", 0, 0))
    /\ \A v \in 0..1 : Reads(<<Code(2 + v)>>, Tag("bool", v, 0))
<1>1. /\ Codes[1] = <<"nil", 0>> /\ Codes[3] = <<"bool", 0>> /\ Codes[4] = <<"bool", 0>>
  BY DEF Codes
<1>2. ASSUME NEW b \in Byte
      PROVE  <<b>> \in Seq(Byte) /\ Len(<<b>>) = 1 /\ <<b>>[1] = b
  OBVIOUS
<1>3. Reads(<<Code(0)>>, Tag("nil", 0, 0))
  <2>1. PICK w : w = <<Code(0)>>
    OBVIOUS
  <2>2. w \in Seq(Byte) /\ Len(w) = 1 /\ w[1] = Code(0) /\ 0 \in 0..31
    BY <1>2, <2>1, CodeIs
  <2>3. PICK c : c = Codes[0 + 1]
    OBVIOUS
  <2>4. c[1] = "nil" /\ c[2] = 0
    BY <1>1, <2>3
  <2>5. c[1] \notin {"ext", "fixext"} => TagSize(w[1]) = 1 + c[2] + 0
    BY <2>2, <2>3, ParsedCode
  <2>6. c[1] \notin {"bool", "int", "ext", "fixext"} =>
            mpack_parse_tag(w) = Tag(c[1], Load(w, 2, c[2]), 0)
    BY <2>2, <2>3, ParsedCode
  <2>7. Load(w, 2, 0) = 0
    <3>1. 0 # 1 /\ 0 # 2 /\ 0 # 4 /\ 0 # 8
      OBVIOUS
    <3> QED
      BY <3>1, Zenon DEF Load
  <2>8. TagSize(w[1]) = 1 /\ mpack_parse_tag(w) = Tag("nil", 0, 0)
    BY <2>4, <2>5, <2>6, <2>7
  <2> QED
    BY <2>1, <2>2, <2>8 DEF Reads
<1>4. ASSUME NEW v \in 0..1
      PROVE  Reads(<<Code(2 + v)>>, Tag("bool", v, 0))
  <2>1. PICK w : w = <<Code(2 + v)>>
    OBVIOUS
  <2>2. 2 + v \in 0..31 /\ (2 + v) - 2 = v
    OBVIOUS
  <2>3. w \in Seq(Byte) /\ Len(w) = 1 /\ w[1] = Code(2 + v)
    BY <1>2, <2>1, <2>2, CodeIs
  <2>4. PICK c : c = Codes[2 + v + 1]
    OBVIOUS
  <2>5. c[1] = "bool" /\ c[2] = 0
    <3>1. v = 0 \/ v = 1
      OBVIOUS
    <3> QED
      BY <1>1, <2>4, <3>1
  <2>6. c[1] \notin {"ext", "fixext"} => TagSize(w[1]) = 1 + c[2] + 0
    BY <2>2, <2>3, <2>4, ParsedCode
  <2>7. c[1] = "bool" => mpack_parse_tag(w) = Tag("bool", (2 + v) - 2, 0)
    BY <2>2, <2>3, <2>4, ParsedCode
  <2>8. TagSize(w[1]) = 1 /\ mpack_parse_tag(w) = Tag("bool", v, 0)
    BY <2>2, <2>5, <2>6, <2>7
  <2> QED
    BY <2>1, <2>3, <2>8 DEF Reads
<1> QED
  BY <1>3, <1>4

\* Every tag that mpack_write_tag writes is one that mpack_parse_tag reads back, in the
\* form in which readers see it, and it is as long as its first byte says.
THEOREM TagComesBack ==
    ASSUME NEW t, IsTag(t)
    PROVE  Reads(mpack_write_tag(t), AsRead(t))
<1>1. t = Tag(t.type, t.v, t.x)
  BY DEF IsTag
<1>2. t.type # "ext" => t.x = 0
  BY DEF IsTag
<1>3. t.type = "ext" => t.x \in Int /\ Signed(t.x, Base)
  BY WordsAre DEF IsTag, Signed
<1>4. ~(t.type = "int" /\ t.v >= 0) => AsRead(t) = t
  BY DEF AsRead
<1>5. CASE t.type = "nil"
  <2>1. mpack_write_tag(t) = <<Code(0)>>
    BY <1>5, Zenon DEF mpack_write_tag
  <2>2. t = Tag("nil", 0, 0)
    BY <1>1, <1>2, <1>5 DEF IsTag
  <2> QED
    BY <1>4, <1>5, <2>1, <2>2, BareReads
<1>6. CASE t.type = "bool"
  <2>1. mpack_write_tag(t) = <<Code(2 + t.v)>>
    BY <1>6, Zenon DEF mpack_write_tag
  <2>2. t = Tag("bool", t.v, 0) /\ t.v \in 0..1
    BY <1>1, <1>2, <1>6 DEF IsTag
  <2> QED
    BY <1>4, <1>6, <2>1, <2>2, BareReads
<1>7. CASE t.type = "float"
  <2>1. mpack_write_tag(t) = Encoded(10, t.v, 4)
    BY <1>7, Zenon DEF mpack_write_tag
  <2>2. t = Tag("float", t.v, 0) /\ t.v \in 0..(LongWord - 1)
    BY <1>1, <1>2, <1>7 DEF IsTag
  <2>3. Codes[10 + 1] = <<"float", 4>> /\ Wide(t.v, 4) /\ t.v \in Int /\ 10 \in 0..31
    BY <2>2 DEF Codes, Wide
  <2>4. Reads(Encoded(10, t.v, 4), Tag(Codes[10 + 1][1], t.v, 0))
    BY <2>3, EncodedReads
  <2> QED
    BY <1>4, <1>7, <2>1, <2>2, <2>3, <2>4
<1>8. CASE t.type = "double"
  <2>1. mpack_write_tag(t) = Encoded(11, t.v, 8)
    BY <1>8, Zenon DEF mpack_write_tag
  <2>2. t = Tag("double", t.v, 0) /\ Unsigned64(t.v)
    BY <1>1, <1>2, <1>8 DEF IsTag
  <2>3. Codes[11 + 1] = <<"double", 8>> /\ Wide(t.v, 8) /\ t.v \in Int /\ 11 \in 0..31
    BY <2>2 DEF Codes, Wide, Unsigned64
  <2>4. Reads(Encoded(11, t.v, 8), Tag(Codes[11 + 1][1], t.v, 0))
    BY <2>3, EncodedReads
  <2> QED
    BY <1>4, <1>8, <2>1, <2>2, <2>3, <2>4
<1>9. CASE t.type = "int"
  <2>1. mpack_write_tag(t) = mpack_write_i64(t.v)
    BY <1>9, Zenon DEF mpack_write_tag
  <2>2. t = Tag("int", t.v, 0) /\ Signed64(t.v) /\ t.v \in Int
    BY <1>1, <1>2, <1>9 DEF IsTag, Signed64
  <2>3. CASE t.v >= 0
    <3>1. AsRead(t) = Tag("uint", t.v, 0)
      BY <1>9, <2>2, <2>3 DEF AsRead, Tag
    <3> QED
      BY <2>1, <2>2, <2>3, <3>1, SignedReads
  <2>4. CASE t.v < 0
    <3>1. AsRead(t) = t
      BY <1>4, <2>2, <2>4
    <3> QED
      BY <2>1, <2>2, <2>4, <3>1, SignedReads
  <2> QED
    BY <2>2, <2>3, <2>4
<1>10. CASE t.type = "uint"
  <2>1. mpack_write_tag(t) = mpack_write_u64(t.v)
    BY <1>10, Zenon DEF mpack_write_tag
  <2>2. t = Tag("uint", t.v, 0) /\ Unsigned64(t.v)
    BY <1>1, <1>2, <1>10 DEF IsTag
  <2> QED
    BY <1>4, <1>10, <2>1, <2>2, UnsignedReads
<1>11. CASE t.type = "str"
  <2>1. mpack_write_tag(t) = mpack_start_str(t.v)
    BY <1>11, Zenon DEF mpack_write_tag
  <2>2. t = Tag("str", t.v, 0) /\ t.v \in 0..(LongWord - 1)
    BY <1>1, <1>2, <1>11 DEF IsTag
  <2> QED
    BY <1>4, <1>11, <2>1, <2>2, LengthReads
<1>12. CASE t.type = "bin"
  <2>1. mpack_write_tag(t) = mpack_start_bin(t.v)
    BY <1>12, Zenon DEF mpack_write_tag
  <2>2. t = Tag("bin", t.v, 0) /\ t.v \in 0..(LongWord - 1)
    BY <1>1, <1>2, <1>12 DEF IsTag
  <2> QED
    BY <1>4, <1>12, <2>1, <2>2, LengthReads
<1>13. CASE t.type = "array"
  <2>1. mpack_write_tag(t) = mpack_start_array(t.v)
    BY <1>13, Zenon DEF mpack_write_tag
  <2>2. t = Tag("array", t.v, 0) /\ t.v \in 0..(LongWord - 1)
    BY <1>1, <1>2, <1>13 DEF IsTag
  <2> QED
    BY <1>4, <1>13, <2>1, <2>2, LengthReads
<1>14. CASE t.type = "map"
  <2>1. mpack_write_tag(t) = mpack_start_map(t.v)
    BY <1>14, Zenon DEF mpack_write_tag
  <2>2. t = Tag("map", t.v, 0) /\ t.v \in 0..(LongWord - 1)
    BY <1>1, <1>2, <1>14 DEF IsTag
  <2> QED
    BY <1>4, <1>14, <2>1, <2>2, LengthReads
<1>15. CASE t.type = "ext"
  <2>1. mpack_write_tag(t) = mpack_start_ext(t.x, t.v)
    BY <1>15, Zenon DEF mpack_write_tag
  <2>2. t = Tag("ext", t.v, t.x) /\ t.v \in 0..(LongWord - 1)
    BY <1>1, <1>15 DEF IsTag
  <2> QED
    BY <1>3, <1>4, <1>15, <2>1, <2>2, ExtReads
<1> QED
  BY <1>5, <1>6, <1>7, <1>8, <1>9, <1>10, <1>11, <1>12, <1>13, <1>14, <1>15 DEF IsTag

-----------------------------------------------------------------------------
(* Timestamps.                                                             *)

LEMMA JoinedHas ==
    ASSUME NEW s \in Seq(Byte), NEW t \in Seq(Byte)
    PROVE  /\ s \o t \in Seq(Byte) /\ Len(s \o t) = Len(s) + Len(t)
           /\ Has(s \o t, 1, s) /\ Has(s \o t, 1 + Len(s), t)
<1>1. /\ s \o t \in Seq(Byte) /\ Len(s \o t) = Len(s) + Len(t)
  BY ConcatProperties
<1>2. Len(s \o t) \in Nat
  BY <1>1, LenProperties
<1>3. Has(s \o t, 1, s \o t)
  <2>1. \A j \in 1..Len(s \o t) : 1 + j - 1 = j
    BY <1>2
  <2> QED
    BY <2>1 DEF Has
<1>4. Has(s \o t, 1, s) /\ Has(s \o t, 1 + Len(s), t)
  BY <1>3, HasBoth
<1> QED
  BY <1>1, <1>4

LEMMA TwoStored ==
    ASSUME NEW a \in Int, NEW b \in Int, NEW k \in {4, 8}, NEW w,
           w = Digits(a, 4) \o Digits(b, k)
    PROVE  /\ w \in Seq(Byte) /\ Len(w) = 4 + k
           /\ Has(w, 1, Digits(a, 4)) /\ Has(w, 5, Digits(b, k))
<1>1. Digits(a, 4) \in Seq(Byte) /\ 4 = Len(Digits(a, 4))
  BY DigitsAre
<1>2. Digits(b, k) \in Seq(Byte) /\ k = Len(Digits(b, k))
  BY DigitsAre
<1>3. /\ w \in Seq(Byte) /\ Len(w) = 4 + k
      /\ Has(w, 1, Digits(a, 4)) /\ Has(w, 1 + 4, Digits(b, k))
  <2>1. PICK s \in Seq(Byte) : s = Digits(a, 4)
    BY <1>1
  <2>2. PICK t \in Seq(Byte) : t = Digits(b, k)
    BY <1>2
  <2>3. /\ s \o t \in Seq(Byte) /\ Len(s \o t) = 4 + k
        /\ Has(s \o t, 1, s) /\ Has(s \o t, 1 + 4, t)
    <3>1. Len(s) = 4 /\ Len(t) = k
      BY <1>1, <1>2, <2>1, <2>2
    <3>2. /\ s \o t \in Seq(Byte) /\ Len(s \o t) = Len(s) + Len(t)
          /\ Has(s \o t, 1, s) /\ Has(s \o t, 1 + Len(s), t)
      BY JoinedHas, Zenon
    <3>3. 1 + Len(s) = 1 + 4 /\ Len(s) + Len(t) = 4 + k
      BY <3>1, Zenon
    <3> QED
      BY <3>2, <3>3, Zenon
  <2>4. w = s \o t
    BY <2>1, <2>2
  <2> QED
    BY <2>1, <2>2, <2>3, <2>4
<1>4. 1 + 4 = 5
  OBVIOUS
<1> QED
  BY <1>3, <1>4

\* Every time that mpack_write_timestamp writes is the one that mpack_read_timestamp reads.
THEOREM TimeComesBack ==
    ASSUME NEW seconds, Signed64(seconds), NEW nanoseconds \in 0..NanoMax
    PROVE  Timestamp(mpack_write_timestamp(seconds, nanoseconds)) = <<seconds, nanoseconds>>
<1>1. PICK w : w = mpack_write_timestamp(seconds, nanoseconds)
  OBVIOUS
<1>2. PICK high : high = load_u32(w, 1)
  OBVIOUS
<1>3. PICK low : low = load_u32(w, 5)
  OBVIOUS
<1>4. /\ Len(w) = 4 => Timestamp(w) = <<high, 0>>
      /\ Len(w) = 8 => Timestamp(w) = <<(high % 4) * LongWord + low, high \div 4>>
      /\ Len(w) = 12 => Timestamp(w) = <<load_i64(w, 5), high>>
  <2>1. 4 # 8 /\ 4 # 12 /\ 8 # 12
    OBVIOUS
  <2> QED
    BY <1>2, <1>3, <2>1, Zenon DEF Timestamp
<1>5. /\ seconds \in Int /\ nanoseconds \in Nat /\ 4 * (nanoseconds + 1) <= LongWord
      /\ LongWord \in Nat
  BY TagAssumption, WordsAre DEF Signed64
<1>6. nanoseconds \in 0..(LongWord - 1) /\ nanoseconds \in Int
  BY <1>5
<1>7. w = IF seconds < 0 \/ seconds >= 4 * LongWord
          THEN Digits(nanoseconds, 4) \o Digits(seconds, 8)
          ELSE IF seconds > UMax(4) \/ nanoseconds > 0 THEN Packed(seconds, nanoseconds)
          ELSE Digits(seconds, 4)
  BY <1>1 DEF mpack_write_timestamp
<1>8. CASE seconds < 0 \/ seconds >= 4 * LongWord
  <2>1. /\ Len(w) = 12 /\ Has(w, 1, Digits(nanoseconds, 4)) /\ Has(w, 5, Digits(seconds, 8))
    <3>1. w = Digits(nanoseconds, 4) \o Digits(seconds, 8) /\ 8 \in {4, 8} /\ 4 + 8 = 12
      BY <1>7, <1>8
    <3> QED
      BY <1>5, <1>6, <3>1, TwoStored
  <2>2. Has(w, 1, store_u32(nanoseconds)) /\ Has(w, 5, store_u64(seconds))
    BY <1>5, <1>6, <2>1, DigitsAre
  <2>3. high = nanoseconds % LongWord
    BY <1>2, <1>6, <2>2, LoadedAre
  <2>4. nanoseconds % LongWord = nanoseconds
    BY <1>6, WordsAre, SmallIsItself
  <2>5. load_i64(w, 5) = seconds
    BY <1>5, <2>2, SignedLoadedAre
  <2> QED
    BY <1>1, <1>4, <2>1, <2>3, <2>4, <2>5
<1>9. CASE /\ ~(seconds < 0 \/ seconds >= 4 * LongWord)
           /\ seconds > UMax(4) \/ nanoseconds > 0
  <2>1. seconds \in Nat /\ LongWord * 0 <= seconds /\ seconds < LongWord * 4
    BY <1>5, <1>9
  <2>2. PICK q \in Int : q = seconds \div LongWord
    BY <1>5, HalvesAre
  <2>3. q \in 0..3
    <3>1. 0 <= q /\ q < 4
      BY <1>5, <2>1, <2>2, WordsAre, DivBetween
    <3> QED
      BY <3>1
  <2>4. PICK m \in 0..(LongWord - 1) : m = seconds % LongWord /\ seconds = (LongWord * q) + m
    <3>1. /\ seconds % LongWord \in 0..(LongWord - 1)
          /\ seconds = (LongWord * q) + (seconds % LongWord)
      BY <1>5, <2>2, WordsAre, DivMod
    <3> QED
      BY <3>1
  <2>5. PICK u \in Nat : u = (4 * nanoseconds) + q
    BY <1>5, <2>3
  <2>6. u \in 0..(LongWord - 1)
    BY <1>5, <2>3, <2>5
  <2>7. w = Digits(u, 4) \o Digits(seconds, 4)
    BY <1>7, <1>9, <2>2, <2>5 DEF Packed
  <2>8. Len(w) = 8 /\ Has(w, 1, Digits(u, 4)) /\ Has(w, 5, Digits(seconds, 4))
    <3>1. 4 \in {4, 8} /\ 4 + 4 = 8 /\ u \in Int
      OBVIOUS
    <3>2. /\ Len(w) = 4 + 4
          /\ Has(w, 1, Digits(u, 4)) /\ Has(w, 5, Digits(seconds, 4))
      BY <1>5, <2>7, <3>1, TwoStored, Zenon
    <3> QED
      BY <3>1, <3>2
  <2>9. Has(w, 1, store_u32(u)) /\ Has(w, 5, store_u32(seconds))
    BY <1>5, <2>8, DigitsAre
  <2>10. high = u % LongWord /\ low = m
    BY <1>2, <1>3, <1>5, <2>4, <2>9, LoadedAre
  <2>11. u % LongWord = u
    BY <2>6, WordsAre, SmallIsItself
  <2>12. u \div 4 = nanoseconds /\ u % 4 = q
    <3>1. q \in 0..(4 - 1) /\ 4 \in Nat \ {0}
      BY <2>3
    <3> QED
      BY <1>6, <2>5, <3>1, DivIs
  <2>13. (q * LongWord) + m = seconds
    BY <1>5, <2>4
  <2> QED
    BY <1>1, <1>4, <2>8, <2>10, <2>11, <2>12, <2>13
<1>10. CASE /\ ~(seconds < 0 \/ seconds >= 4 * LongWord)
            /\ ~(seconds > UMax(4) \/ nanoseconds > 0)
  <2>1. w = Digits(seconds, 4) /\ nanoseconds = 0
    BY <1>5, <1>7, <1>10
  <2>2. seconds \in 0..(LongWord - 1)
    BY <1>5, <1>10, WidthsAre
  <2>3. Len(w) = 4 /\ w = store_u32(seconds)
    BY <1>5, <2>1, DigitsAre
  <2>4. Has(w, 1, store_u32(seconds))
    <3>1. \A j \in 1..4 : 1 + j - 1 = j
      OBVIOUS
    <3> QED
      BY <2>3, <3>1 DEF Has
  <2>5. high = seconds % LongWord
    BY <1>2, <1>5, <2>4, LoadedAre
  <2>6. seconds % LongWord = seconds
    BY <2>2, WordsAre, SmallIsItself
  <2> QED
    BY <1>1, <1>4, <2>1, <2>3, <2>5, <2>6
<1> QED
  BY <1>8, <1>9, <1>10

\* A timestamp is never empty.
LEMMA TimeIsThere ==
    ASSUME NEW seconds, Signed64(seconds), NEW nanoseconds \in 0..NanoMax
    PROVE  Len(mpack_write_timestamp(seconds, nanoseconds)) > 0
<1>1. seconds \in Int /\ nanoseconds \in Int /\ seconds \div LongWord \in Int
  BY TagAssumption, WordsAre DEF Signed64
<1>2. 4 * nanoseconds + (seconds \div LongWord) \in Int
  BY <1>1
<1>3. 4 \in {4, 8} /\ 8 \in {4, 8} /\ 4 + 4 > 0 /\ 4 + 8 > 0 /\ 4 > 0
  OBVIOUS
<1>4. Len(Digits(nanoseconds, 4) \o Digits(seconds, 8)) = 4 + 8
  BY <1>1, <1>3, TwoStored
<1>5. Len(Packed(seconds, nanoseconds)) = 4 + 4
  BY <1>1, <1>2, <1>3, TwoStored DEF Packed
<1>6. Len(Digits(seconds, 4)) = 4
  BY <1>1, DigitsAre
<1> QED
  BY <1>3, <1>4, <1>5, <1>6, Zenon DEF mpack_write_timestamp

-----------------------------------------------------------------------------
(* The reader.                                                             *)

Fields == {"error", "mem", "size", "data", "end", "fill", "skip", "block", "pos", "eof", "pc",
           "op", "n", "rest", "todo", "out", "got", "job", "used", "starved", "sought", "late"}

Errors == {"ok", "memory", "io", "eof", "invalid", "too_big", "type", "bug"}

\* The window of a fill function lies inside of the buffer.
JobFits(j, size) ==
    /\ DOMAIN j = {"then", "at", "min", "max", "count", "odd"}
    /\ j.at \in Nat /\ j.min \in Nat /\ j.max \in Nat /\ j.count \in Nat
    /\ j.max > 0 /\ j.then # "direct" => j.at + j.max <= size

Typed(s, m) ==
    /\ src \in Seq(Byte) /\ m \in Nat /\ DOMAIN s = Fields /\ s.error \in Errors
    /\ s.fill \in {"none", "callback", "file"} /\ s.block \in {"none", "live", "freed"}
    /\ s.mem \in [0..(m - 1) -> Byte] /\ s.size \in Nat
    /\ s.fill # "none" => m = s.size /\ s.size >= MinBuffer
    /\ s.skip => s.fill = "file"
    /\ s.data \in 0..m /\ s.end \in 0..m
    /\ s.pos \in Nat /\ s.used \in Nat /\ s.n \in Nat /\ s.rest \in Nat /\ s.todo \in Nat
    /\ s.out \in Seq(Byte) /\ JobFits(s.job, s.size)
    /\ s.eof => s.pos >= Len(src)

\* The k bytes of memory from `at` on are those of the source from `from` on.
Holds(s, at, k, from) == \A i \in 0..(k - 1) : s.mem[at + i] = src[from + i + 1]

\* Nothing is waited for: what was not read yet is in the buffer, in order.
Good(s, m) ==
    /\ Typed(s, m) /\ s.data <= s.end
    /\ s.error # "ok" => s.data = s.end
    /\ s.error = "ok" => /\ s.pos = s.used + Unread(s)
                         /\ s.pos <= Len(src) \/ (s.sought /\ Unread(s) = 0)
                         /\ Holds(s, s.data, Unread(s), s.used)

\* A tag is all of one, and all of it has arrived.
TagTold(s, got) ==
    /\ got.tag = TagThere(got.at) /\ s.used = got.at + (IF s.op = "peek" THEN 0 ELSE s.n)
    /\ got.at \in Nat /\ s.n = TagSize(src[got.at + 1]) /\ s.n > 0
    /\ got.at + s.n <= Len(src)

TimeTold(s, got) ==
    /\ got.time = Timestamp(SubSeq(src, s.used - s.n + 1, s.used))
    /\ s.n > 0 => s.used <= Len(src)

\* What the call that came back last gave.
Told(s) ==
    s.error = "ok" =>
        /\ s.got.kind = "bytes" => s.got.bytes = SubSeq(src, s.used - s.n + 1, s.used)
        /\ s.got.kind = "tag" => TagTold(s, s.got)
        /\ s.got.kind = "time" => TimeTold(s, s.got)
        /\ s.got.kind = "left" => s.got.left = s.pos - s.used

Skips(s) == s.op \in {"skip", "discard"}

Natives(s) == s.op \in {"bytes", "alloc", "cstr", "timestamp"}

\* What of the call's bytes was in the buffer is in `out`, and the rest is to come.
Split(s) ==
    /\ Natives(s) /\ s.job.at = 0 /\ s.job.min = s.rest /\ s.rest > 0
    /\ s.out = SubSeq(src, s.used + 1, s.used + Len(s.out))

\* The fill function is called for one of five reasons.
Asked(s) ==
    /\ s.error = "ok" /\ s.fill # "none" /\ s.job.min > 0 /\ s.job.min <= s.job.max
    /\ s.job.count <= s.job.max
    /\ s.pos <= Len(src) \/ (s.sought /\ s.job.count = 0)
    /\ \/ /\ s.job.then = "ensure" /\ s.op \in {"inplace", "tag", "peek", "discard"}
          /\ s.op = "discard" => s.todo > 0
          /\ s.data = 0 /\ s.job.at = s.end /\ s.job.min = s.n - s.end
          /\ s.pos = s.used + s.end + s.job.count
          /\ Holds(s, 0, s.end + s.job.count, s.used)
       \/ /\ s.job.then = "small" /\ Split(s) /\ s.n = Len(s.out) + s.rest
          /\ s.pos = s.used + Len(s.out) + s.job.count
          /\ Holds(s, 0, s.job.count, s.used + Len(s.out))
       \/ /\ s.job.then = "direct" /\ Split(s) /\ s.job.max = s.rest /\ s.data = s.end
          /\ s.n = Len(s.out) - s.job.count + s.rest /\ s.pos = s.used + Len(s.out)
       \/ /\ s.job.then = "whole" /\ Skips(s) /\ s.job.min = s.size /\ s.rest > s.size
          /\ s.pos - s.job.count + s.rest = s.used + s.n
       \/ /\ s.job.then = "part" /\ Skips(s) /\ s.job.at = 0 /\ s.data = 0
          /\ s.job.min = s.rest /\ s.pos - s.job.count + s.rest = s.used + s.n
          /\ s.job.count <= s.pos /\ Holds(s, 0, s.job.count, s.pos - s.job.count)

Filling(s) == Asked(s) /\ s.job.count < s.job.min

Inv(s, m) ==
    /\ Typed(s, m) /\ (s.error # "ok" => s.data = s.end)
    /\ \/ s.pc = "none" /\ s = [Blank(0, "none", "none") EXCEPT !.pc = "none"]
       \/ s.pc = "closed" /\ s.block # "live" /\ s.data = s.end
       \/ s.pc = "idle" /\ Good(s, m) /\ Told(s)
       \/ s.pc = "more" /\ Good(s, m) /\ s.error = "ok" /\ s.op = "discard" /\ s.todo > 0
       \/ /\ s.pc = "seek" /\ s.error = "ok" /\ s.fill = "file" /\ Skips(s) /\ s.data = s.end
          /\ s.rest > 0 /\ s.pos + s.rest = s.used + s.n /\ (s.pos <= Len(src) \/ s.sought)
       \/ s.pc = "fill" /\ Filling(s)

\* A buffer without a fill function may be one that was only brought, or none at all.
IInv == \E m \in Nat : Inv(r, m) /\ r.size \in {0, m}

-----------------------------------------------------------------------------
(* Tags.                                                                   *)

\* A number that is not a signed one has no sign, whatever the bytes are.
LEMMA LoadIsNat ==
    ASSUME NEW p, NEW i \in Nat, NEW k \in {0, 1, 2, 4, 8},
           \A j \in i..(i + k - 1) : p[j] \in Byte
    PROVE  Load(p, i, k) \in Nat
<1>1. Base \in Nat /\ Word \in Nat /\ LongWord \in Nat
  BY WordsAre
<1>2. ASSUME NEW j \in Nat, p[j] \in Byte
      PROVE  load_u8(p, j) \in Nat
  BY <1>2, BaseIsNat DEF load_u8
<1>3. ASSUME NEW j \in Nat, p[j] \in Byte, p[j + 1] \in Byte
      PROVE  load_u16(p, j) \in Nat
  <2>1. load_u8(p, j) \in Nat /\ load_u8(p, j + 1) \in Nat
    BY <1>2, <1>3
  <2>2. Base * load_u8(p, j) \in Nat
    BY <1>1, <2>1, ProductIsNat
  <2> QED
    BY <2>1, <2>2 DEF load_u16
<1>4. ASSUME NEW j \in Nat, p[j] \in Byte, p[j + 1] \in Byte, p[j + 2] \in Byte,
             p[j + 3] \in Byte
      PROVE  load_u32(p, j) \in Nat
  <2>1. load_u16(p, j) \in Nat
    BY <1>3, <1>4
  <2>2. load_u16(p, j + 2) \in Nat
    <3>1. j + 2 \in Nat /\ (j + 2) + 1 = j + 3
      OBVIOUS
    <3> QED
      BY <1>3, <1>4, <3>1
  <2>3. Word * load_u16(p, j) \in Nat
    BY <1>1, <2>1, ProductIsNat
  <2> QED
    BY <2>2, <2>3 DEF load_u32
<1>5. ASSUME \A j \in i..(i + 7) : p[j] \in Byte
      PROVE  load_u64(p, i) \in Nat
  <2>1. load_u32(p, i) \in Nat
    BY <1>4, <1>5
  <2>2. load_u32(p, i + 4) \in Nat
    <3>1. /\ i + 4 \in Nat /\ p[i + 4] \in Byte /\ p[(i + 4) + 1] \in Byte
          /\ p[(i + 4) + 2] \in Byte /\ p[(i + 4) + 3] \in Byte
      BY <1>5
    <3> QED
      BY <1>4, <3>1
  <2>3. LongWord * load_u32(p, i) \in Nat
    BY <1>1, <2>1, ProductIsNat
  <2> QED
    BY <2>2, <2>3 DEF load_u64
<1>6. /\ k = 0 => Load(p, i, k) = 0
      /\ k = 1 => Load(p, i, k) = load_u8(p, i)
      /\ k = 2 => Load(p, i, k) = load_u16(p, i)
      /\ k = 4 => Load(p, i, k) = load_u32(p, i)
      /\ k = 8 => Load(p, i, k) = load_u64(p, i)
  <2>1. /\ 0 # 1 /\ 0 # 2 /\ 0 # 4 /\ 0 # 8 /\ 1 # 2 /\ 1 # 4 /\ 1 # 8 /\ 2 # 4 /\ 2 # 8
        /\ 4 # 8
    OBVIOUS
  <2> QED
    BY <2>1, Zenon DEF Load
<1>7. CASE k = 0
  BY <1>6, <1>7
<1>8. CASE k = 1
  BY <1>2, <1>6, <1>8
<1>9. CASE k = 2
  BY <1>3, <1>6, <1>9
<1>10. CASE k = 4
  <2>1. p[i] \in Byte /\ p[i + 1] \in Byte /\ p[i + 2] \in Byte /\ p[i + 3] \in Byte
    BY <1>10
  <2> QED
    BY <1>4, <1>6, <1>10, <2>1
<1>11. CASE k = 8
  <2>1. \A j \in i..(i + 7) : p[j] \in Byte
    BY <1>11
  <2> QED
    BY <1>5, <1>6, <1>11, <2>1
<1> QED
  BY <1>7, <1>8, <1>9, <1>10, <1>11

\* The number of a tag that is not a signed one is a natural number: a length can be
\* skipped, and a discard can count on it.
LEMMA ParsedLength ==
    ASSUME NEW bytes \in Seq(Byte), bytes[1] \in Byte, Len(bytes) = TagSize(bytes[1])
    PROVE  mpack_parse_tag(bytes).type # "int" => mpack_parse_tag(bytes).v \in Nat
<1> DEFINE b == bytes[1]
           c == CodeOf(b)
           number == Load(bytes, 2, c[2])
<1>1. b \in Nat /\ b < Base
  BY BaseIsNat
<1>2. CASE IsFix(b)
  <2>1. mpack_parse_tag(bytes) = FixTag(b)
    BY <1>2 DEF mpack_parse_tag
  <2> HIDE DEF b
  <2>2. CASE b < FixMap
    <3>1. ~(b >= FixMap) /\ ~(b >= FixArray) /\ ~(b >= FixString) /\ ~(b > Code(31))
      BY <1>1, <2>2, RangesAre
    <3>2. FixTag(b) = Tag("uint", b, 0)
      BY <2>2, <3>1, Zenon DEF FixTag
    <3> QED
      BY <1>1, <2>1, <3>2 DEF Tag
  <2>3. CASE b >= FixMap /\ b < FixArray
    <3>1. ~(b < FixMap) /\ ~(b >= FixArray) /\ ~(b >= FixString) /\ ~(b > Code(31))
      BY <1>1, <2>3, RangesAre
    <3>2. FixTag(b) = Tag("map", b - FixMap, 0)
      BY <2>3, <3>1, Zenon DEF FixTag
    <3> QED
      BY <1>1, <2>1, <2>3, <3>2, RangesAre DEF Tag
  <2>4. CASE b >= FixArray /\ b < FixString
    <3>1. ~(b < FixMap) /\ ~(b < FixArray) /\ ~(b >= FixString) /\ ~(b > Code(31))
      BY <1>1, <2>4, RangesAre
    <3>2. FixTag(b) = Tag("array", b - FixArray, 0)
      BY <2>4, <3>1, Zenon DEF FixTag
    <3> QED
      BY <1>1, <2>1, <2>4, <3>2, RangesAre DEF Tag
  <2>5. CASE b >= FixString /\ b < Code(0)
    <3>1. ~(b < FixMap) /\ ~(b < FixArray) /\ ~(b < FixString) /\ ~(b > Code(31))
      BY <1>1, <2>5, RangesAre
    <3>2. FixTag(b) = Tag("str", b - FixString, 0)
      BY <2>5, <3>1, Zenon DEF FixTag
    <3> QED
      BY <1>1, <2>1, <2>5, <3>2, RangesAre DEF Tag
  <2>6. CASE b > Code(31)
    <3>1. ~(b < FixMap) /\ ~(b < FixArray) /\ ~(b < FixString) /\ ~(b < Code(0))
      BY <1>1, <2>6, RangesAre
    <3>2. FixTag(b) = Tag("int", b - Base, 0)
      BY <2>6, <3>1, Zenon DEF FixTag
    <3> QED
      BY <2>1, <3>2 DEF Tag
  <2> QED
    BY <1>1, <1>2, <2>2, <2>3, <2>4, <2>5, <2>6, RangesAre DEF IsFix, b
<1>3. CASE ~IsFix(b)
  <2>1. b - Code(0) + 1 \in 1..32 /\ c = Codes[b - Code(0) + 1]
    BY <1>3, CodeOfByte
  <2>2. /\ c[2] \in {0, 1, 2, 4, 8}
        /\ c[1] = "fixext" => b - Code(0) + 1 \in 21..25
    BY <2>1, CodesAre
  <2>3. c[1] = "bool" => b - Code(0) + 1 \in 3..4
    BY <2>1, CodesAre
  <2>4. Len(bytes) = 1 + c[2] + (IF c[1] \in {"ext", "fixext"} THEN 1 ELSE 0)
    BY <1>3 DEF TagSize
  <2> HIDE DEF b, c
  <2>5. \A i \in 2..(1 + c[2]) : bytes[i] \in Byte
    <3>1. \A i \in 1..Len(bytes) : bytes[i] \in Byte
      BY ElementOfSeq
    <3> QED
      BY <2>2, <2>4, <3>1
  <2>6. number \in Nat
    <3>1. \A i \in 2..(2 + c[2] - 1) : bytes[i] \in Byte
      BY <2>2, <2>5
    <3> QED
      BY <2>2, <3>1, LoadIsNat
  <2> HIDE DEF number
  <2>7. c[1] = "bool" => b - Code(2) \in Nat
    BY <1>1, <2>3, RangesAre
  <2>8. c[1] = "fixext" => Width(b - Code(20)) \in Nat
    <3>1. Base \in Nat /\ FixInt \in Nat
      BY BaseIsNat, RangesAre
    <3>2. \A i \in Nat : i - Code(0) + 1 \in 21..25 => i - Code(20) + 1 \in 1..5
      BY <3>1 DEF Code
    <3>3. \A i \in 1..5 : <<1, 2, 4, 8, 16>>[i] \in Nat
      OBVIOUS
    <3> QED
      BY <1>1, <2>2, <3>2, <3>3 DEF Width
  <2>9. mpack_parse_tag(bytes) =
           CASE c[1] = "bool"   -> Tag("bool", b - Code(2), 0)
             [] c[1] = "int"    -> Tag("int", LoadSigned(bytes, 2, c[2]), 0)
             [] c[1] = "ext"    -> Tag("ext", number, load_i8(bytes, c[2] + 2))
             [] c[1] = "fixext" -> Tag("ext", Width(b - Code(20)), load_i8(bytes, 2))
             [] OTHER           -> Tag(c[1], number, 0)
    BY <1>3, Zenon DEF mpack_parse_tag, b, c, number
  <2>10. CASE c[1] = "bool"
    <3>1. mpack_parse_tag(bytes) = Tag("bool", b - Code(2), 0)
      BY <2>9, <2>10, Zenon
    <3> QED
      BY <2>7, <2>10, <3>1 DEF Tag
  <2>11. CASE c[1] = "int"
    <3>1. mpack_parse_tag(bytes) = Tag("int", LoadSigned(bytes, 2, c[2]), 0)
      BY <2>9, <2>11, Zenon
    <3> QED
      BY <3>1 DEF Tag
  <2>12. CASE c[1] = "ext"
    <3>1. mpack_parse_tag(bytes) = Tag("ext", number, load_i8(bytes, c[2] + 2))
      BY <2>9, <2>12, Zenon
    <3> QED
      BY <2>6, <3>1 DEF Tag
  <2>13. CASE c[1] = "fixext"
    <3>1. mpack_parse_tag(bytes) = Tag("ext", Width(b - Code(20)), load_i8(bytes, 2))
      BY <2>9, <2>13, Zenon
    <3> QED
      BY <2>8, <2>13, <3>1 DEF Tag
  <2>14. CASE c[1] \notin {"bool", "int", "ext", "fixext"}
    <3>1. mpack_parse_tag(bytes) = Tag(c[1], number, 0)
      BY <2>9, <2>14, Zenon
    <3> QED
      BY <2>6, <3>1 DEF Tag
  <2> QED
    BY <2>10, <2>11, <2>12, <2>13, <2>14
<1> QED
  BY <1>2, <1>3

-----------------------------------------------------------------------------
(* How a call ends.                                                        *)

\* What no call changes once it has begun.
Same(t, s) ==
    /\ t.fill = s.fill /\ t.size = s.size /\ t.block = s.block
    /\ s.fill = "none" => t.pos = s.pos

\* ErrorsAreEarned, said of the reader that has the error.
Earned(t) ==
    /\ t.error = "io" => t.starved \/ Short(t)
    /\ t.error = "eof" => Short(t)
    /\ t.error = "memory" => t.starved
    /\ t.error = "invalid" => \/ t.fill = "none" /\ (Short(t) \/ t.pos < Len(src))
                              \/ t.used < Len(src) /\ src[t.used + 1] = Code(1)
                              \/ t.op = "timestamp"
    /\ t.error = "too_big" => (t.op = "inplace" /\ t.n > t.size) \/ t.op = "cstr"
    /\ t.error = "type" => \E i \in (t.used - t.n + 1)..t.used : src[i] = 0
    /\ t.error = "bug" => t.size < MinBuffer

\* What becomes of a reader s without an error when a call goes on.
Result(t, s, m) ==
    Inv(t, m) /\ Same(t, s) /\ Earned(t) /\ t.pc \in {"idle", "fill", "seek", "more"}

LEMMA NoJobFits ==
    ASSUME NEW size \in Nat
    PROVE  JobFits(NoJob, size)
BY DEF JobFits, NoJob

LEMMA AnswerIs ==
    ASSUME NEW s, NEW m, Good(s, m), s.error = "ok", NEW got,
           got.kind = "bytes" => got.bytes = SubSeq(src, s.used - s.n + 1, s.used),
           got.kind = "tag" => TagTold(s, got), got.kind = "time" => TimeTold(s, got),
           got.kind = "left" => got.left = s.pos - s.used
    PROVE  Result(Answer(s, got), s, m)
<1> DEFINE t == Answer(s, got)
<1>1. Typed(s, m)
  BY DEF Good
<1>2. /\ DOMAIN t = Fields /\ t.error = s.error /\ t.mem = s.mem /\ t.size = s.size
      /\ t.data = s.data /\ t.end = s.end /\ t.fill = s.fill /\ t.skip = s.skip
      /\ t.block = s.block /\ t.pos = s.pos /\ t.eof = s.eof /\ t.op = s.op /\ t.n = s.n
      /\ t.used = s.used /\ t.sought = s.sought
      /\ t.pc = "idle" /\ t.got = got /\ t.todo = 0 /\ t.rest = 0 /\ t.out = <<>>
      /\ t.job = NoJob
  BY <1>1 DEF Answer, Typed, Fields
<1> HIDE DEF t
<1>3. Typed(t, m)
  <2>1. JobFits(t.job, t.size) /\ t.out \in Seq(Byte)
    BY <1>1, <1>2, NoJobFits DEF Typed
  <2> QED
    BY <1>1, <1>2, <2>1 DEF Typed
<1>4. Good(t, m)
  BY <1>2, <1>3 DEF Good, Unread, Holds
<1>5. Told(t)
  BY <1>2 DEF Told, TagTold, TimeTold
<1> QED
  BY <1>2, <1>3, <1>4, <1>5 DEF Result, Inv, Same, Earned, t

\* The error is the first one, whatever the call was in the middle of and gives.
LEMMA FlaggedIs ==
    ASSUME NEW s, NEW m, Typed(s, m), s.error = "ok", NEW e \in Errors \ {"ok"}, NEW got
    PROVE  LET t == Answer(Flag(s, e), got)
           IN /\ Inv(t, m) /\ Same(t, s) /\ t.pc = "idle" /\ t.error = e /\ t.pos = s.pos
              /\ t.used = s.used /\ t.n = s.n /\ t.op = s.op /\ t.starved = s.starved
<1> DEFINE t == Answer(Flag(s, e), got)
<1>2. /\ DOMAIN t = Fields /\ t.error = e /\ t.mem = s.mem /\ t.size = s.size
      /\ t.data = s.data /\ t.end = s.data /\ t.fill = s.fill /\ t.skip = s.skip
      /\ t.block = s.block /\ t.pos = s.pos /\ t.eof = s.eof /\ t.op = s.op /\ t.n = s.n
      /\ t.used = s.used /\ t.sought = s.sought /\ t.starved = s.starved
      /\ t.pc = "idle" /\ t.todo = 0 /\ t.rest = 0 /\ t.out = <<>> /\ t.job = NoJob
  BY DEF Flag, Answer, Typed, Fields
<1> HIDE DEF t
<1>3. Typed(t, m)
  <2>1. JobFits(t.job, t.size) /\ t.out \in Seq(Byte)
    BY <1>2, NoJobFits DEF Typed
  <2> QED
    BY <1>2, <2>1 DEF Typed
<1>4. Good(t, m) /\ Told(t)
  BY <1>2, <1>3 DEF Good, Told, Typed
<1> QED
  BY <1>2, <1>3, <1>4 DEF Inv, Same, t

LEMMA RefusedIs ==
    ASSUME NEW s, NEW m, Typed(s, m), s.error = "ok", NEW e \in Errors \ {"ok"}
    PROVE  LET t == Refused(s, e)
           IN /\ Inv(t, m) /\ Same(t, s) /\ t.pc = "idle" /\ t.error = e /\ t.pos = s.pos
              /\ t.used = s.used /\ t.n = s.n /\ t.op = s.op /\ t.starved = s.starved
BY FlaggedIs DEF Refused

\* A reader is good if it differs from a good one only in what the call is about.
LEMMA GoodKept ==
    ASSUME NEW s, NEW m, Good(s, m), NEW t, DOMAIN t = Fields,
           t.error = s.error, t.mem = s.mem, t.size = s.size, t.data = s.data, t.end = s.end,
           t.fill = s.fill, t.skip = s.skip, t.block = s.block, t.pos = s.pos, t.eof = s.eof,
           t.used = s.used, t.sought = s.sought, t.out = s.out, t.job = s.job,
           t.n \in Nat, t.rest \in Nat, t.todo \in Nat
    PROVE  Good(t, m)
BY DEF Good, Typed, Unread, Holds

-----------------------------------------------------------------------------
(* What is in the buffer.                                                  *)

LEMMA TakeIs ==
    ASSUME NEW s, NEW m, Good(s, m), s.error = "ok", NEW n \in Nat, n <= Unread(s)
    PROVE  LET t == Take(s, n)
           IN /\ Good(t, m) /\ Same(t, s) /\ t.error = "ok" /\ t.used = s.used + n
              /\ t.n = s.n /\ t.op = s.op /\ t.todo = s.todo /\ t.pos = s.pos /\ t.pc = s.pc
              /\ Unread(t) = Unread(s) - n
<1> DEFINE t == Take(s, n)
<1>1. Typed(s, m) /\ s.data <= s.end /\ n <= s.end - s.data
  BY DEF Good, Unread
<1>2. /\ DOMAIN t = Fields /\ t.error = s.error /\ t.mem = s.mem /\ t.size = s.size
      /\ t.data = s.data + n /\ t.end = s.end /\ t.fill = s.fill /\ t.skip = s.skip
      /\ t.block = s.block /\ t.pos = s.pos /\ t.eof = s.eof /\ t.op = s.op /\ t.n = s.n
      /\ t.used = s.used + n /\ t.sought = s.sought /\ t.out = s.out /\ t.job = s.job
      /\ t.rest = s.rest /\ t.todo = s.todo /\ t.pc = s.pc
  BY <1>1 DEF Take, Typed, Fields
<1> HIDE DEF t
<1>0. s.data \in Nat /\ s.end \in Nat /\ s.end <= m /\ s.used \in Nat /\ m \in Nat
  BY <1>1 DEF Typed
<1>7. t.data \in 0..m /\ t.used \in Nat
  BY <1>1, <1>0, <1>2
<1>3. Typed(t, m)
  BY <1>1, <1>2, <1>7 DEF Typed
<1>4. Unread(t) = Unread(s) - n
  BY <1>1, <1>2 DEF Unread, Typed
<1>5. Good(t, m)
  <2>1. t.pos = t.used + Unread(t) /\ (t.pos <= Len(src) \/ (t.sought /\ Unread(t) = 0))
    BY <1>1, <1>2, <1>4, SMTT(60) DEF Good, Typed, Unread
  <2>2. Holds(t, t.data, Unread(t), t.used)
    <3> SUFFICES ASSUME NEW i \in 0..(Unread(t) - 1)
                 PROVE  t.mem[t.data + i] = src[t.used + i + 1]
      BY DEF Holds
    <3>1. i + n \in 0..(Unread(s) - 1)
      BY <1>1, <1>4 DEF Unread, Typed
    <3>2. s.mem[s.data + (i + n)] = src[s.used + (i + n) + 1]
      BY <3>1 DEF Good, Holds
    <3>3. s.data + (i + n) = t.data + i
      BY <1>0, <1>2
    <3>4. s.used + (i + n) + 1 = t.used + i + 1
      BY <1>0, <1>2
    <3> QED
      BY <1>2, <3>2, <3>3, <3>4
  <2> QED
    BY <1>1, <1>2, <1>3, <2>1, <2>2, SMTT(60) DEF Good, Typed
<1> QED
  BY <1>2, <1>4, <1>5 DEF Same, t

\* Bytes of the memory, as a sequence.
Piece(s, at, n) == [i \in 1..n |-> s.mem[at + i - 1]]

LEMMA PieceIs ==
    ASSUME NEW s, NEW m, Typed(s, m), NEW at \in Nat, NEW n \in Nat, at + n <= m,
           NEW from \in Nat, Holds(s, at, n, from)
    PROVE  /\ Piece(s, at, n) = SubSeq(src, from + 1, from + n)
           /\ Piece(s, at, n) \in Seq(Byte) /\ Len(Piece(s, at, n)) = n
<1> DEFINE w == [i \in 1..n |-> s.mem[at + i - 1]]
<1>1. m \in Nat /\ s.mem \in [0..(m - 1) -> Byte]
  BY DEF Typed
<1>2. \A i \in 1..n : s.mem[at + i - 1] \in Byte
  BY <1>1
<1>3. w \in [1..n -> Byte]
  BY <1>2
<1>4. w \in Seq(Byte) /\ Len(w) = n
  BY <1>3
<1>5. \A i \in 1..n : w[i] = src[from + i]
  <2> SUFFICES ASSUME NEW i \in 1..n
               PROVE  s.mem[at + i - 1] = src[from + i]
    OBVIOUS
  <2>1. i - 1 \in 0..(n - 1) /\ s.mem[at + (i - 1)] = src[from + (i - 1) + 1]
    BY DEF Holds
  <2> QED
    BY <2>1
<1> HIDE DEF w
<1>6. \A i \in (from + 1)..(from + n) : src[i] \in Byte
  <2> SUFFICES ASSUME NEW i \in (from + 1)..(from + n)
               PROVE  src[i] \in Byte
    OBVIOUS
  <2>1. i - from \in 1..n /\ i = from + (i - from)
    OBVIOUS
  <2>2. w[i - from] \in Byte
    BY <1>3, <2>1
  <2> QED
    BY <1>5, <2>1, <2>2
<1> DEFINE v == SubSeq(src, from + 1, from + n)
<1>7. v \in Seq(Byte) /\ Len(v) = n /\ \A i \in 1..n : v[i] = src[from + i]
  <2>1. /\ v \in Seq(Byte) /\ Len(v) = IF from + 1 <= from + n THEN n ELSE 0
        /\ \A i \in 1..n : v[i] = src[from + 1 + i - 1]
    BY <1>6, SubSeqProperties
  <2> QED
    BY <2>1
<1> HIDE DEF v
<1>8. \A i \in 1..n : w[i] = v[i]
  BY <1>5, <1>7
<1>9. w = v
  BY <1>4, <1>7, <1>8, SeqEqual
<1> QED
  BY <1>4, <1>9 DEF w, v, Piece

LEMMA WindowIs ==
    ASSUME NEW s, NEW m, Good(s, m), s.error = "ok", NEW n \in Nat, n <= Unread(s)
    PROVE  /\ Window(s, n) = SubSeq(src, s.used + 1, s.used + n)
           /\ Window(s, n) \in Seq(Byte) /\ Len(Window(s, n)) = n
<1>1. Typed(s, m) /\ s.data \in Nat /\ s.used \in Nat /\ s.data + n <= m
      /\ Unread(s) \in Nat
  BY DEF Good, Typed, Unread
<1>2. Holds(s, s.data, n, s.used)
  BY <1>1 DEF Good, Holds
<1>3. Window(s, n) = Piece(s, s.data, n)
  BY DEF Window, Piece
<1> QED
  BY <1>1, <1>2, <1>3, PieceIs

LEMMA ResultOfSame ==
    ASSUME NEW t, NEW u, NEW s, NEW m, Result(t, u, m), Same(u, s)
    PROVE  Result(t, s, m)
BY DEF Result, Same

-----------------------------------------------------------------------------
(* More bytes are needed.                                                  *)

\* The bytes that the call needs do not end inside of what the source has given so far.
LEMMA NotEnough ==
    ASSUME NEW s, NEW m, Good(s, m), s.error = "ok", s.n > Unread(s), s.fill = "none", NEW got
    PROVE  Result(Answer(Flag(s, "invalid"), got), s, m)
<1> DEFINE t == Answer(Flag(s, "invalid"), got)
<1>1. Typed(s, m) /\ s.pos = s.used + Unread(s) /\ Unread(s) \in Nat
  BY DEF Good, Unread, Typed
<1>2. Len(src) \in Nat
  BY <1>1, LenProperties DEF Typed
<1>3. /\ Inv(t, m) /\ Same(t, s) /\ t.pc = "idle" /\ t.error = "invalid" /\ t.pos = s.pos
      /\ t.used = s.used /\ t.n = s.n
  BY <1>1, FlaggedIs DEF Errors
<1> HIDE DEF t
<1>4. t.fill = "none" /\ (Short(t) \/ t.pos < Len(src))
  BY <1>1, <1>2, <1>3 DEF Same, Short, Typed
<1> QED
  BY <1>3, <1>4 DEF Result, Earned, t

LEMMA MovedIs ==
    ASSUME NEW s, NEW m, Good(s, m), s.error = "ok"
    PROVE  LET t == MovedToFront(s)
           IN /\ Typed(t, m) /\ Same(t, s) /\ t.data = 0 /\ t.end = Unread(s)
              /\ Holds(t, 0, Unread(s), s.used)
              /\ t.error = s.error /\ t.pos = s.pos /\ t.used = s.used /\ t.n = s.n
              /\ t.op = s.op /\ t.todo = s.todo /\ t.sought = s.sought
<1> DEFINE t == MovedToFront(s)
           k == Unread(s)
           v(i) == IF i < k THEN s.mem[s.data + i] ELSE s.mem[i]
<1>1. Typed(s, m) /\ s.data \in Nat /\ s.end \in Nat /\ s.end <= m /\ m \in Nat
      /\ s.data <= s.end /\ k = s.end - s.data /\ k \in 0..m /\ s.data + k <= m
  BY DEF Good, Unread, Typed
<1>2. s.mem \in [0..(m - 1) -> Byte] /\ DOMAIN s.mem = 0..(m - 1)
  BY <1>1 DEF Typed
<1> HIDE DEF k
<1>3. \A i \in 0..(m - 1) : v(i) \in Byte
  BY <1>1, <1>2
<1>4. /\ DOMAIN t = Fields /\ t.error = s.error /\ t.size = s.size
      /\ t.mem = [i \in 0..(m - 1) |-> v(i)]
      /\ t.data = 0 /\ t.end = k /\ t.fill = s.fill /\ t.skip = s.skip
      /\ t.block = s.block /\ t.pos = s.pos /\ t.eof = s.eof /\ t.op = s.op /\ t.n = s.n
      /\ t.used = s.used /\ t.sought = s.sought /\ t.out = s.out /\ t.job = s.job
      /\ t.rest = s.rest /\ t.todo = s.todo
  BY <1>1, <1>2 DEF MovedToFront, Typed, Fields, k
<1> HIDE DEF t
<1>5. t.mem \in [0..(m - 1) -> Byte]
  <2> HIDE DEF v
  <2> QED
    BY <1>3, <1>4
<1>6. Typed(t, m)
  BY <1>1, <1>4, <1>5 DEF Typed
<1>7. Holds(t, 0, k, s.used)
  <2> SUFFICES ASSUME NEW i \in 0..(k - 1)
               PROVE  t.mem[0 + i] = src[s.used + i + 1]
    BY DEF Holds
  <2>1. i \in 0..(m - 1) /\ i < k /\ 0 + i = i
    BY <1>1
  <2>2. t.mem[i] = s.mem[s.data + i]
    BY <1>4, <2>1
  <2>3. s.mem[s.data + i] = src[s.used + i + 1]
    BY DEF Good, Holds, k
  <2> QED
    BY <2>1, <2>2, <2>3
<1> QED
  BY <1>4, <1>6, <1>7 DEF Same, t, k

\* What a window asks for is counted from nothing.
LEMMA AskIs ==
    ASSUME NEW s, NEW m, Typed(s, m), s.error = "ok", NEW then, NEW at \in Nat,
           NEW min \in Nat, NEW max \in Nat, then # "direct" => at + max <= s.size
    PROVE  LET t == Ask(s, then, at, min, max)
           IN /\ Typed(t, m) /\ Same(t, s) /\ t.pc = "fill" /\ t.data = s.data /\ t.end = s.end
              /\ t.mem = s.mem /\ t.error = s.error /\ t.pos = s.pos /\ t.used = s.used
              /\ t.n = s.n /\ t.op = s.op /\ t.todo = s.todo /\ t.rest = s.rest
              /\ t.out = s.out /\ t.sought = s.sought
              /\ t.job.then = then /\ t.job.at = at /\ t.job.min = min /\ t.job.max = max
              /\ t.job.count = 0
<1> DEFINE t == Ask(s, then, at, min, max)
           j == [NoJob EXCEPT !.then = then, !.at = at, !.min = min, !.max = max]
<1>1. /\ j.then = then /\ j.at = at /\ j.min = min /\ j.max = max /\ j.count = 0
      /\ DOMAIN j = {"then", "at", "min", "max", "count", "odd"}
  BY DEF NoJob
<1> HIDE DEF j
<1>2. JobFits(j, s.size)
  BY <1>1 DEF JobFits
<1>3. /\ DOMAIN t = Fields /\ t.error = s.error /\ t.mem = s.mem /\ t.size = s.size
      /\ t.data = s.data /\ t.end = s.end /\ t.fill = s.fill /\ t.skip = s.skip
      /\ t.block = s.block /\ t.pos = s.pos /\ t.eof = s.eof /\ t.op = s.op /\ t.n = s.n
      /\ t.used = s.used /\ t.sought = s.sought /\ t.out = s.out
      /\ t.rest = s.rest /\ t.todo = s.todo /\ t.pc = "fill" /\ t.job = j
  BY DEF Ask, Typed, Fields, j
<1> HIDE DEF t
<1>4. Typed(t, m)
  BY <1>2, <1>3 DEF Typed
<1> QED
  BY <1>1, <1>3, <1>4 DEF Same, t

LEMMA StraddleIs ==
    ASSUME NEW s, NEW m, Good(s, m), s.error = "ok", NEW n \in Nat, n > Unread(s),
           s.op \in {"inplace", "tag", "peek", "discard"}, s.op = "discard" => s.todo > 0,
           s.op # "inplace" => n <= 9
    PROVE  Result(Straddle(s, n), s, m)
<1> DEFINE t == [s EXCEPT !.n = n]
<1>1. /\ DOMAIN t = Fields /\ t.error = s.error /\ t.mem = s.mem /\ t.size = s.size
      /\ t.data = s.data /\ t.end = s.end /\ t.fill = s.fill /\ t.skip = s.skip
      /\ t.block = s.block /\ t.pos = s.pos /\ t.eof = s.eof /\ t.op = s.op /\ t.n = n
      /\ t.used = s.used /\ t.sought = s.sought /\ t.out = s.out /\ t.job = s.job
      /\ t.rest = s.rest /\ t.todo = s.todo
      /\ s.rest \in Nat /\ s.todo \in Nat
  BY DEF Good, Typed, Fields
<1>2. Straddle(s, n) = IF s.fill = "none" THEN Refused(t, "invalid")
                       ELSE IF TooBig(s, n) THEN Refused(t, "too_big")
                       ELSE RestOfTheBuffer(t, n)
  BY DEF Straddle
<1> HIDE DEF t
<1>3. Good(t, m) /\ Same(t, s) /\ Unread(t) = Unread(s)
  BY <1>1, GoodKept DEF Same, Unread
<1>4. Typed(t, m) /\ t.size \in Nat /\ Unread(t) \in Nat /\ t.pos = t.used + Unread(t)
  BY <1>1, <1>3, SMTT(60) DEF Good, Typed, Unread
<1>5. CASE s.fill = "none"
  BY <1>1, <1>2, <1>3, <1>5, NotEnough, ResultOfSame DEF Refused
<1>6. CASE s.fill # "none" /\ TooBig(s, n)
  <2> DEFINE u == Refused(t, "too_big")
  <2>1. t.size >= 9 /\ MinBuffer \in Nat
    BY <1>1, <1>4, <1>6, ReaderAssumption DEF Typed
  <2>2. n > t.size
    BY <1>1, <1>6 DEF TooBig
  <2>3. t.op = "inplace"
    BY <1>1, <1>4, <2>1, <2>2
  <2>4. /\ Inv(u, m) /\ Same(u, t) /\ u.pc = "idle" /\ u.error = "too_big"
        /\ u.n = t.n /\ u.op = t.op
    BY <1>1, <1>4, RefusedIs DEF Errors
  <2> HIDE DEF u
  <2>5. Result(u, t, m)
    BY <1>1, <2>2, <2>3, <2>4 DEF Result, Earned, Same
  <2> QED
    BY <1>2, <1>3, <1>6, <2>5, ResultOfSame DEF u
<1>7. CASE s.fill # "none" /\ ~TooBig(s, n)
  <2> DEFINE v == MovedToFront(t)
             k == Unread(t)
             u == Ask(v, "ensure", k, n - k, t.size - k)
  <2>1. RestOfTheBuffer(t, n) = u
    BY DEF RestOfTheBuffer
  <2>2. /\ Typed(v, m) /\ Same(v, t) /\ v.data = 0 /\ v.end = k
        /\ Holds(v, 0, k, t.used)
        /\ v.error = t.error /\ v.pos = t.pos /\ v.used = t.used /\ v.n = t.n
        /\ v.op = t.op /\ v.todo = t.todo /\ v.sought = t.sought
    BY <1>1, <1>3, MovedIs
  <2>3. n > k /\ n <= t.size /\ k \in Nat
    BY <1>1, <1>3, <1>4, <1>7 DEF TooBig
  <2> HIDE DEF v, k
  <2>4. /\ v.size = t.size /\ n - k \in Nat /\ t.size - k \in Nat /\ k + (t.size - k) <= v.size
        /\ v.error = "ok"
    BY <1>1, <1>4, <2>2, <2>3 DEF Same
  <2>5. /\ Typed(u, m) /\ Same(u, v) /\ u.pc = "fill" /\ u.data = v.data /\ u.end = v.end
        /\ u.mem = v.mem /\ u.error = v.error /\ u.pos = v.pos /\ u.used = v.used
        /\ u.n = v.n /\ u.op = v.op /\ u.todo = v.todo /\ u.sought = v.sought
        /\ u.job.then = "ensure" /\ u.job.at = k /\ u.job.min = n - k
        /\ u.job.max = t.size - k /\ u.job.count = 0
    BY <2>2, <2>3, <2>4, AskIs
  <2> HIDE DEF u
  <2>6. Holds(u, 0, u.end + u.job.count, u.used)
    BY <2>2, <2>3, <2>5 DEF Holds
  <2>7. u.pos = u.used + u.end + u.job.count
    BY <1>4, <2>2, <2>3, <2>5 DEF k, Typed
  <2>8. /\ u.job.count < u.job.min /\ u.job.min <= u.job.max /\ u.job.min > 0
        /\ u.job.count <= u.job.max
    BY <1>4, <2>3, <2>5
  <2>9. u.pos <= Len(src) \/ u.sought
    BY <1>3, <1>1, <2>2, <2>5 DEF Good
  <2>10. Filling(u)
    BY <1>1, <1>7, <2>2, <2>5, <2>6, <2>7, <2>8, <2>9 DEF Filling, Asked, Same
  <2>11. Inv(u, m) /\ Same(u, t)
    BY <1>1, <2>2, <2>5, <2>10 DEF Inv, Same
  <2>12. Result(u, t, m)
    BY <1>1, <2>2, <2>5, <2>11 DEF Result, Earned
  <2> QED
    BY <1>2, <1>3, <1>7, <2>1, <2>12, ResultOfSame
<1> QED
  BY <1>5, <1>6, <1>7

-----------------------------------------------------------------------------
(* Skipping.                                                               *)

LEMMA SkipUsingFillIs ==
    ASSUME NEW s, NEW m, Typed(s, m), s.error = "ok", s.fill # "none", Skips(s), s.rest > 0,
           s.pos + s.rest = s.used + s.n, s.pos <= Len(src) \/ s.sought
    PROVE  Result(mpack_reader_skip_using_fill(s), s, m)
<1>1. s.size \in Nat /\ s.size >= 9 /\ s.rest \in Nat /\ s.pos \in Nat
  BY ReaderAssumption DEF Typed
<1>2. CASE s.rest > s.size
  <2> DEFINE u == Ask(s, "whole", 0, s.size, s.size)
  <2>1. mpack_reader_skip_using_fill(s) = u
    BY <1>2 DEF mpack_reader_skip_using_fill
  <2>2. /\ Typed(u, m) /\ Same(u, s) /\ u.pc = "fill"
        /\ u.error = s.error /\ u.pos = s.pos /\ u.used = s.used
        /\ u.n = s.n /\ u.op = s.op /\ u.rest = s.rest /\ u.sought = s.sought
        /\ u.job.then = "whole" /\ u.job.at = 0 /\ u.job.min = s.size
        /\ u.job.max = s.size /\ u.job.count = 0
    BY <1>1, AskIs
  <2> HIDE DEF u
  <2>3. Filling(u)
    BY <1>1, <1>2, <2>2 DEF Filling, Asked, Same, Skips
  <2> QED
    BY <2>1, <2>2, <2>3 DEF Result, Inv, Earned
<1>3. CASE ~(s.rest > s.size)
  <2> DEFINE v == [s EXCEPT !.data = 0]
             u == Ask(v, "part", 0, s.rest, s.size)
  <2>1. mpack_reader_skip_using_fill(s) = u
    BY <1>3 DEF mpack_reader_skip_using_fill
  <2>2. /\ DOMAIN v = Fields /\ v.error = s.error /\ v.mem = s.mem /\ v.size = s.size
        /\ v.data = 0 /\ v.end = s.end /\ v.fill = s.fill /\ v.skip = s.skip
        /\ v.block = s.block /\ v.pos = s.pos /\ v.eof = s.eof /\ v.op = s.op /\ v.n = s.n
        /\ v.used = s.used /\ v.sought = s.sought /\ v.out = s.out /\ v.job = s.job
        /\ v.rest = s.rest /\ v.todo = s.todo
    BY DEF Typed, Fields
  <2> HIDE DEF v
  <2>3. Typed(v, m) /\ v.error = "ok" /\ Same(v, s)
    BY <2>2 DEF Typed, Same
  <2>4. /\ Typed(u, m) /\ Same(u, v) /\ u.pc = "fill" /\ u.data = 0
        /\ u.error = v.error /\ u.pos = v.pos /\ u.used = v.used
        /\ u.n = v.n /\ u.op = v.op /\ u.rest = v.rest /\ u.sought = v.sought
        /\ u.job.then = "part" /\ u.job.at = 0 /\ u.job.min = s.rest
        /\ u.job.max = s.size /\ u.job.count = 0
    BY <1>1, <2>2, <2>3, AskIs
  <2> HIDE DEF u
  <2>5. Filling(u)
    BY <1>1, <1>3, <2>2, <2>4 DEF Filling, Asked, Same, Skips, Holds
  <2>6. Result(u, v, m)
    BY <2>2, <2>4, <2>5 DEF Result, Inv, Earned
  <2> QED
    BY <2>1, <2>3, <2>6, ResultOfSame
<1> QED
  BY <1>2, <1>3

LEMMA NextDiscardIs ==
    ASSUME NEW s, NEW m, Good(s, m), s.error = "ok", Skips(s)
    PROVE  Result(NextDiscard(s), s, m)
<1>1. CASE s.op = "discard" /\ s.todo > 0
  <2> DEFINE t == [s EXCEPT !.pc = "more"]
  <2>1. NextDiscard(s) = t
    BY <1>1 DEF NextDiscard
  <2>2. /\ DOMAIN t = Fields /\ t.error = s.error /\ t.mem = s.mem /\ t.size = s.size
        /\ t.data = s.data /\ t.end = s.end /\ t.fill = s.fill /\ t.skip = s.skip
        /\ t.block = s.block /\ t.pos = s.pos /\ t.eof = s.eof /\ t.op = s.op /\ t.n = s.n
        /\ t.used = s.used /\ t.sought = s.sought /\ t.out = s.out /\ t.job = s.job
        /\ t.rest = s.rest /\ t.todo = s.todo /\ t.pc = "more"
        /\ s.n \in Nat /\ s.rest \in Nat /\ s.todo \in Nat
    BY DEF Good, Typed, Fields
  <2> HIDE DEF t
  <2>3. Good(t, m) /\ Same(t, s)
    BY <2>2, GoodKept DEF Same
  <2> QED
    BY <1>1, <2>1, <2>2, <2>3 DEF Result, Inv, Earned, Good
<1>2. CASE ~(s.op = "discard" /\ s.todo > 0)
  <2>1. NextDiscard(s) = Answer(s, Nothing) /\ Nothing.kind = "nothing"
    BY <1>2 DEF NextDiscard, Nothing
  <2> QED
    BY <2>1, AnswerIs
<1> QED
  BY <1>1, <1>2

LEMMA SkipStraddleIs ==
    ASSUME NEW s, NEW m, Good(s, m), s.error = "ok", Skips(s), s.n > Unread(s)
    PROVE  Result(mpack_skip_bytes_straddle(s, s.n), s, m)
<1> DEFINE t == [s EXCEPT !.data = s.end, !.rest = s.n - Unread(s)]
<1>1. Typed(s, m) /\ s.pos = s.used + Unread(s) /\ Unread(s) \in Nat
  BY DEF Good, Unread, Typed
<1>2. /\ DOMAIN t = Fields /\ t.error = s.error /\ t.mem = s.mem /\ t.size = s.size
      /\ t.data = s.end /\ t.end = s.end /\ t.fill = s.fill /\ t.skip = s.skip
      /\ t.block = s.block /\ t.pos = s.pos /\ t.eof = s.eof /\ t.op = s.op /\ t.n = s.n
      /\ t.used = s.used /\ t.sought = s.sought /\ t.out = s.out /\ t.job = s.job
      /\ t.rest = s.n - Unread(s) /\ t.todo = s.todo
  BY <1>1 DEF Typed, Fields
<1>3. mpack_skip_bytes_straddle(s, s.n) =
         IF s.fill = "none" THEN Refused(s, "invalid")
         ELSE IF s.skip /\ t.rest > s.size \div SkipFraction THEN [t EXCEPT !.pc = "seek"]
         ELSE mpack_reader_skip_using_fill(t)
  BY DEF mpack_skip_bytes_straddle
<1> DEFINE u == [t EXCEPT !.pc = "seek"]
<1>4. /\ DOMAIN u = Fields /\ u.error = s.error /\ u.mem = s.mem /\ u.size = s.size
      /\ u.data = s.end /\ u.end = s.end /\ u.fill = s.fill /\ u.skip = s.skip
      /\ u.block = s.block /\ u.pos = s.pos /\ u.eof = s.eof /\ u.op = s.op /\ u.n = s.n
      /\ u.used = s.used /\ u.sought = s.sought /\ u.out = s.out /\ u.job = s.job
      /\ u.rest = t.rest /\ u.todo = s.todo /\ u.pc = "seek"
  BY <1>2 DEF Fields
<1> HIDE DEF t, u
<1>5. t.rest \in Nat /\ t.rest > 0 /\ s.pos + t.rest = s.used + s.n
      /\ (s.pos <= Len(src) \/ s.sought)
  <2>1. s.n \in Nat /\ s.used \in Nat
    BY <1>1 DEF Typed
  <2>2. s.pos <= Len(src) \/ s.sought
    BY DEF Good
  <2> QED
    BY <1>1, <1>2, <2>1, <2>2
<1>6. Typed(t, m) /\ Same(t, s) /\ Skips(t)
  BY <1>1, <1>2, <1>5 DEF Typed, Same, Skips
<1>7. CASE s.fill = "none"
  BY <1>3, <1>7, NotEnough DEF Refused
<1>8. CASE s.fill # "none" /\ s.skip /\ t.rest > s.size \div SkipFraction
  <2>1. Typed(u, m) /\ Same(u, s) /\ Skips(u)
    BY <1>1, <1>4, <1>5 DEF Typed, Same, Skips
  <2>2. u.fill = "file"
    BY <1>1, <1>4, <1>8 DEF Typed
  <2>3. Inv(u, m)
    BY <1>4, <1>5, <2>1, <2>2 DEF Inv
  <2> QED
    BY <1>3, <1>4, <1>8, <2>1, <2>3 DEF Result, Earned, u
<1>9. CASE s.fill # "none" /\ ~(s.skip /\ t.rest > s.size \div SkipFraction)
  <2>1. Result(mpack_reader_skip_using_fill(t), t, m)
    BY <1>2, <1>5, <1>6, <1>9, SkipUsingFillIs
  <2> QED
    BY <1>3, <1>6, <1>9, <2>1, ResultOfSame
<1> QED
  BY <1>7, <1>8, <1>9

LEMMA SkipBytesIs ==
    ASSUME NEW s, NEW m, Good(s, m), s.error = "ok", Skips(s), NEW n \in Nat
    PROVE  Result(SkipBytes(s, n), s, m)
<1> DEFINE t == [s EXCEPT !.n = n]
<1>1. SkipBytes(s, n) = IF n <= Unread(s) THEN NextDiscard(Take(t, n))
                        ELSE mpack_skip_bytes_straddle(t, n)
  BY DEF SkipBytes
<1>2. /\ DOMAIN t = Fields /\ t.error = s.error /\ t.mem = s.mem /\ t.size = s.size
      /\ t.data = s.data /\ t.end = s.end /\ t.fill = s.fill /\ t.skip = s.skip
      /\ t.block = s.block /\ t.pos = s.pos /\ t.eof = s.eof /\ t.op = s.op /\ t.n = n
      /\ t.used = s.used /\ t.sought = s.sought /\ t.out = s.out /\ t.job = s.job
      /\ t.rest = s.rest /\ t.todo = s.todo
      /\ s.rest \in Nat /\ s.todo \in Nat
  BY DEF Good, Typed, Fields
<1> HIDE DEF t
<1>3. Good(t, m) /\ Same(t, s) /\ Unread(t) = Unread(s) /\ Skips(t)
  BY <1>2, GoodKept DEF Same, Unread, Skips
<1>6. Unread(s) \in Int
  BY SMTT(60) DEF Good, Typed, Unread
<1>4. CASE n <= Unread(s)
  <2> DEFINE u == Take(t, n)
  <2>1. Good(u, m) /\ Same(u, t) /\ u.error = "ok" /\ u.op = t.op
    BY <1>2, <1>3, <1>4, TakeIs
  <2> HIDE DEF u
  <2>2. Result(NextDiscard(u), u, m)
    BY <1>3, <2>1, NextDiscardIs DEF Skips
  <2>3. Same(u, s)
    BY <1>3, <2>1 DEF Same
  <2> QED
    BY <1>1, <1>4, <2>2, <2>3, ResultOfSame DEF u
<1>5. CASE ~(n <= Unread(s))
  <2>1. Result(mpack_skip_bytes_straddle(t, n), t, m)
    BY <1>2, <1>3, <1>5, <1>6, SkipStraddleIs
  <2> QED
    BY <1>1, <1>3, <1>5, <2>1, ResultOfSame
<1> QED
  BY <1>4, <1>5

-----------------------------------------------------------------------------
(* Tags.                                                                   *)

LEMMA InsideIs ==
    ASSUME NEW tag, tag.type # "int" => tag.v \in Nat
    PROVE  Inside(tag) \in Nat
<1>1. CASE tag.type = "array"
  BY <1>1, Zenon DEF Inside
<1>2. CASE tag.type = "map"
  <2>1. Inside(tag) = 2 * tag.v
    BY <1>2, Zenon DEF Inside
  <2> QED
    BY <1>2, <2>1
<1>3. CASE tag.type \notin {"array", "map"}
  <2>1. Inside(tag) = 0
    BY <1>3, Zenon DEF Inside
  <2> QED
    BY <2>1
<1> QED
  BY <1>1, <1>2, <1>3

LEMMA TagReadIs ==
    ASSUME NEW s, NEW m, Good(s, m), s.error = "ok", s.op \in {"tag", "peek", "discard"},
           s.op = "discard" => s.todo > 0, NEW tag, tag = TagThere(s.used),
           tag.type # "int" => tag.v \in Nat, s.n > 0, s.n <= Unread(s),
           s.n = TagSize(src[s.used + 1])
    PROVE  Result(TagRead(s, tag, s.n), s, m)
<1> DEFINE t == Take(s, s.n)
           got == TagAt(tag, s.used)
<1>1. s.n \in Nat /\ s.todo \in Nat
  BY DEF Good, Typed
<1>2. /\ Good(t, m) /\ Same(t, s) /\ t.error = "ok" /\ t.used = s.used + s.n
      /\ t.n = s.n /\ t.op = s.op /\ t.todo = s.todo
  BY <1>1, TakeIs
<1>3. got.kind = "tag" /\ got.tag = tag /\ got.at = s.used
  BY DEF TagAt
<1>7. s.used \in Nat /\ s.used + s.n <= Len(src)
  <2>1. /\ s.pos = s.used + Unread(s) /\ s.used \in Nat /\ Unread(s) \in Int
        /\ s.pos <= Len(src) \/ Unread(s) = 0
    BY SMTT(60) DEF Good, Typed, Unread
  <2>2. Len(src) \in Nat
    BY LenProperties DEF Good, Typed
  <2> QED
    BY <1>1, <2>1, <2>2
<1>4. CASE s.op = "peek"
  <2>1. TagRead(s, tag, s.n) = Answer(s, got)
    BY <1>4 DEF TagRead
  <2>2. s.used = got.at + 0
    BY <1>3, <1>7
  <2> HIDE DEF got
  <2>3. TagTold(s, got)
    BY <1>3, <1>4, <1>7, <2>2 DEF TagTold
  <2> QED
    BY <1>3, <1>4, <2>1, <2>3, AnswerIs
<1>5. CASE s.op = "tag"
  <2>1. TagRead(s, tag, s.n) = Answer(t, got)
    BY <1>5 DEF TagRead
  <2> HIDE DEF got, t
  <2>3. TagTold(t, got)
    BY <1>2, <1>3, <1>5, <1>7 DEF TagTold
  <2>2. Result(Answer(t, got), t, m)
    BY <1>2, <1>3, <2>3, AnswerIs
  <2> QED
    BY <1>2, <2>1, <2>2, ResultOfSame
<1>6. CASE s.op = "discard"
  <2> DEFINE left == t.todo - 1 + Inside(tag)
             u == [t EXCEPT !.todo = left]
  <2>1. TagRead(s, tag, s.n) = IF tag.type \in {"str", "bin", "ext"} THEN SkipBytes(u, tag.v)
                               ELSE NextDiscard(u)
    BY <1>6 DEF TagRead
  <2> HIDE DEF t
  <2>2. left \in Nat
    BY <1>1, <1>2, <1>6, InsideIs
  <2> HIDE DEF left
  <2>3. /\ DOMAIN u = Fields /\ u.error = t.error /\ u.mem = t.mem /\ u.size = t.size
        /\ u.data = t.data /\ u.end = t.end /\ u.fill = t.fill /\ u.skip = t.skip
        /\ u.block = t.block /\ u.pos = t.pos /\ u.eof = t.eof /\ u.op = t.op /\ u.n = t.n
        /\ u.used = t.used /\ u.sought = t.sought /\ u.out = t.out /\ u.job = t.job
        /\ u.rest = t.rest /\ u.todo = left /\ t.n \in Nat /\ t.rest \in Nat
    BY <1>2 DEF Good, Typed, Fields
  <2> HIDE DEF u
  <2>4. Good(u, m) /\ Same(u, t) /\ Skips(u) /\ u.error = "ok"
    BY <1>2, <1>6, <2>2, <2>3, GoodKept DEF Same, Skips
  <2>5. Same(u, s)
    BY <1>2, <2>4 DEF Same
  <2>6. CASE tag.type \in {"str", "bin", "ext"}
    <3>1. tag.v \in Nat
      BY <2>6
    <3> QED
      BY <2>1, <2>4, <2>5, <2>6, <3>1, SkipBytesIs, ResultOfSame
  <2>7. CASE tag.type \notin {"str", "bin", "ext"}
    BY <2>1, <2>4, <2>5, <2>7, NextDiscardIs, ResultOfSame
  <2> QED
    BY <2>6, <2>7
<1> QED
  BY <1>4, <1>5, <1>6

LEMMA ReadTagIs ==
    ASSUME NEW s, NEW m, Good(s, m), s.error = "ok", s.op \in {"tag", "peek", "discard"},
           s.op = "discard" => s.todo > 0
    PROVE  Result(mpack_read_tag(s), s, m)
<1> DEFINE b == s.mem[s.data]
           k == TagSize(b)
<1>1. Typed(s, m) /\ Unread(s) \in Nat /\ s.used \in Nat /\ s.pos = s.used + Unread(s)
      /\ Unread(s) = s.end - s.data /\ s.data \in Nat /\ s.end <= m /\ m \in Nat
  BY SMTT(60) DEF Good, Typed, Unread
<1>2. mpack_read_tag(s) =
         IF Unread(s) = 0 THEN Straddle(s, 1)
         ELSE IF k > Unread(s) THEN Straddle(s, k)
         ELSE IF b = Code(1) THEN Refused([s EXCEPT !.n = 1], "invalid")
         ELSE TagRead([s EXCEPT !.n = k], mpack_parse_tag(Window(s, k)), k)
  BY DEF mpack_read_tag
<1>3. CASE Unread(s) = 0
  BY <1>2, <1>3, StraddleIs
<1>4. CASE Unread(s) > 0
  <2>1. b \in Byte
    BY <1>1, <1>4 DEF Typed
  <2>2. b = src[s.used + 1]
    <3>1. 0 \in 0..(Unread(s) - 1) /\ s.data + 0 = s.data /\ s.used + 0 + 1 = s.used + 1
      BY <1>1, <1>4
    <3>2. s.mem[s.data + 0] = src[s.used + 0 + 1]
      BY <3>1 DEF Good, Holds
    <3> QED
      BY <3>1, <3>2
  <2>3. k \in 1..9
    BY <2>1, TagSizeIs
  <2>4. s.used < Len(src)
    <3>1. Len(src) \in Nat /\ s.pos <= Len(src)
      BY <1>1, <1>4, LenProperties DEF Good, Typed
    <3> QED
      BY <1>1, <1>4, <3>1
  <2> HIDE DEF b, k
  <2>5. CASE k > Unread(s)
    BY <1>2, <1>4, <2>3, <2>5, StraddleIs
  <2>6. CASE ~(k > Unread(s)) /\ b = Code(1)
    <3> DEFINE t == [s EXCEPT !.n = 1]
               u == Refused(t, "invalid")
    <3>1. /\ DOMAIN t = Fields /\ t.error = s.error /\ t.mem = s.mem /\ t.size = s.size
          /\ t.data = s.data /\ t.end = s.end /\ t.fill = s.fill /\ t.skip = s.skip
          /\ t.block = s.block /\ t.pos = s.pos /\ t.eof = s.eof /\ t.op = s.op /\ t.n = 1
          /\ t.used = s.used /\ t.sought = s.sought /\ t.out = s.out /\ t.job = s.job
          /\ t.rest = s.rest /\ t.todo = s.todo
      BY <1>1 DEF Typed, Fields
    <3> HIDE DEF t
    <3>2. Typed(t, m) /\ Same(t, s)
      BY <1>1, <3>1 DEF Typed, Same
    <3>3. /\ Inv(u, m) /\ Same(u, t) /\ u.pc = "idle" /\ u.error = "invalid"
          /\ u.used = t.used
      BY <3>1, <3>2, RefusedIs DEF Errors
    <3> HIDE DEF u
    <3>4. Result(u, t, m)
      BY <2>2, <2>4, <2>6, <3>1, <3>3 DEF Result, Earned
    <3> QED
      BY <1>2, <1>4, <2>6, <3>2, <3>4, ResultOfSame DEF u, t
  <2>7. CASE ~(k > Unread(s)) /\ b # Code(1)
    <3> DEFINE t == [s EXCEPT !.n = k]
               tag == mpack_parse_tag(Window(s, k))
    <3>1. /\ DOMAIN t = Fields /\ t.error = s.error /\ t.mem = s.mem /\ t.size = s.size
          /\ t.data = s.data /\ t.end = s.end /\ t.fill = s.fill /\ t.skip = s.skip
          /\ t.block = s.block /\ t.pos = s.pos /\ t.eof = s.eof /\ t.op = s.op /\ t.n = k
          /\ t.used = s.used /\ t.sought = s.sought /\ t.out = s.out /\ t.job = s.job
          /\ t.rest = s.rest /\ t.todo = s.todo
          /\ s.rest \in Nat /\ s.todo \in Nat
      BY <1>1 DEF Typed, Fields
    <3>2. Window(s, k) = SubSeq(src, s.used + 1, s.used + k)
          /\ Window(s, k) \in Seq(Byte) /\ Len(Window(s, k)) = k
      BY <1>1, <2>3, <2>7, WindowIs
    <3>3. Window(s, k)[1] = b
      <4>1. 1 \in 1..k /\ s.data + 1 - 1 = s.data
        BY <1>1, <2>3
      <4> QED
        BY <4>1 DEF Window, b
    <3>4. tag.type # "int" => tag.v \in Nat
      BY <2>1, <3>2, <3>3, ParsedLength DEF k
    <3>5. tag = TagThere(s.used)
      BY <2>2, <3>2 DEF TagThere, k
    <3> HIDE DEF t, tag
    <3>6. Good(t, m) /\ Same(t, s) /\ Unread(t) = Unread(s)
      BY <2>3, <3>1, GoodKept DEF Same, Unread
    <3>7. t.n <= Unread(t)
      BY <1>1, <2>3, <2>7, <3>1, <3>6
    <3>8. Result(TagRead(t, tag, t.n), t, m)
      <4>1. t.n > 0 /\ t.n = TagSize(src[t.used + 1])
        BY <2>2, <2>3, <3>1 DEF k
      <4> QED
        BY <3>1, <3>4, <3>5, <3>6, <3>7, <4>1, TagReadIs
    <3> QED
      BY <1>2, <1>4, <2>7, <3>1, <3>6, <3>8, ResultOfSame DEF t, tag
  <2> QED
    BY <2>5, <2>6, <2>7
<1> QED
  BY <1>1, <1>3, <1>4

-----------------------------------------------------------------------------
(* Bytes.                                                                  *)

LEMMA InplaceIs ==
    ASSUME NEW s, NEW m, Good(s, m), s.error = "ok", s.op = "inplace", NEW n \in Nat
    PROVE  Result(Inplace(s, n), s, m)
<1> DEFINE t == [s EXCEPT !.n = n]
           u == Take(t, n)
           got == BytesOf(Window(s, n))
<1>1. Unread(s) \in Nat /\ s.used \in Nat
  BY DEF Good, Typed, Unread
<1>2. Inplace(s, n) = IF n <= Unread(s) THEN Answer(u, got) ELSE Straddle(s, n)
  BY DEF Inplace
<1>3. CASE n > Unread(s)
  BY <1>1, <1>2, <1>3, StraddleIs
<1>4. CASE n <= Unread(s)
  <2>1. /\ DOMAIN t = Fields /\ t.error = s.error /\ t.mem = s.mem /\ t.size = s.size
        /\ t.data = s.data /\ t.end = s.end /\ t.fill = s.fill /\ t.skip = s.skip
        /\ t.block = s.block /\ t.pos = s.pos /\ t.eof = s.eof /\ t.op = s.op /\ t.n = n
        /\ t.used = s.used /\ t.sought = s.sought /\ t.out = s.out /\ t.job = s.job
        /\ t.rest = s.rest /\ t.todo = s.todo
        /\ s.rest \in Nat /\ s.todo \in Nat
    BY DEF Good, Typed, Fields
  <2> HIDE DEF t
  <2>2. Good(t, m) /\ Same(t, s) /\ Unread(t) = Unread(s)
    BY <2>1, GoodKept DEF Same, Unread
  <2>3. Good(u, m) /\ Same(u, t) /\ u.error = "ok" /\ u.used = s.used + n /\ u.n = n
    BY <1>4, <2>1, <2>2, TakeIs
  <2> HIDE DEF u
  <2>4. Window(s, n) = SubSeq(src, s.used + 1, s.used + n)
    BY <1>4, WindowIs
  <2>5. u.used - u.n + 1 = s.used + 1
    BY <1>1, <2>3
  <2>6. got.kind = "bytes" /\ got.bytes = SubSeq(src, u.used - u.n + 1, u.used)
    BY <2>3, <2>4, <2>5 DEF BytesOf
  <2> HIDE DEF got
  <2>7. Result(Answer(u, got), u, m)
    BY <2>3, <2>6, AnswerIs
  <2>8. Same(u, s)
    BY <2>2, <2>3 DEF Same
  <2> QED
    BY <1>2, <1>4, <2>7, <2>8, ResultOfSame
<1> QED
  BY <1>1, <1>3, <1>4

\* The n bytes of the source that the call took.
Taken(s, bytes) ==
    /\ bytes = SubSeq(src, s.used - s.n + 1, s.used) /\ DOMAIN bytes = 1..s.n
    /\ \A i \in 1..s.n : bytes[i] = src[s.used - s.n + i]
    /\ s.n > 0 => s.used <= Len(src)

LEMMA DeliveredIs ==
    ASSUME NEW s, NEW m, Good(s, m), s.error = "ok", Natives(s), NEW bytes, Taken(s, bytes)
    PROVE  Result(Delivered(s, bytes), s, m)
<1> DEFINE got == BytesOf(bytes)
<1>1. Result(Answer(s, got), s, m)
  <2>1. got.kind = "bytes" /\ got.bytes = SubSeq(src, s.used - s.n + 1, s.used)
    BY DEF BytesOf, Taken
  <2> HIDE DEF got
  <2> QED
    BY <2>1, AnswerIs
<1>2. Typed(s, m) /\ s.n \in Nat /\ s.used \in Nat
  BY DEF Good, Typed
<1>3. CASE s.op \in {"bytes", "alloc"}
  <2>1. Delivered(s, bytes) = Answer(s, got)
    BY <1>3, Zenon DEF Delivered
  <2> QED
    BY <1>1, <2>1
<1>4. CASE s.op = "cstr"
  <2>1. Delivered(s, bytes) = IF s.error = "ok" /\ \E i \in DOMAIN bytes : bytes[i] = 0
                              THEN Refused(s, "type") ELSE Answer(s, got)
    BY <1>4, Zenon DEF Delivered
  <2>2. CASE \E i \in DOMAIN bytes : bytes[i] = 0
    <3> DEFINE t == Refused(s, "type")
    <3>1. PICK i \in 1..s.n : bytes[i] = 0
      BY <2>2 DEF Taken
    <3>2. src[s.used - s.n + i] = 0 /\ s.used - s.n + i \in (s.used - s.n + 1)..s.used
      BY <1>2, <3>1 DEF Taken
    <3>3. /\ Inv(t, m) /\ Same(t, s) /\ t.pc = "idle" /\ t.error = "type"
          /\ t.used = s.used /\ t.n = s.n
      BY <1>2, RefusedIs DEF Errors
    <3> HIDE DEF t
    <3>4. \E j \in (t.used - t.n + 1)..t.used : src[j] = 0
      BY <3>2, <3>3
    <3>5. Result(t, s, m)
      BY <3>3, <3>4 DEF Result, Earned
    <3> QED
      BY <2>1, <2>2, <3>5 DEF t
  <2>3. CASE ~ \E i \in DOMAIN bytes : bytes[i] = 0
    BY <1>1, <2>1, <2>3
  <2> QED
    BY <2>2, <2>3
<1>5. CASE s.op = "timestamp"
  <2> DEFINE time == [kind |-> "time", time |-> Timestamp(bytes)]
             t == Refused(s, "invalid")
  <2>1. Delivered(s, bytes) = IF s.error # "ok" THEN Answer(s, Nothing)
                              ELSE IF Timestamp(bytes)[2] > NanoMax THEN t
                              ELSE Answer(s, time)
    BY <1>5, Zenon DEF Delivered
  <2>2. time.kind = "time"
    OBVIOUS
  <2>6. TimeTold(s, time)
    BY DEF TimeTold, Taken
  <2> HIDE DEF time
  <2>3. Result(Answer(s, time), s, m)
    BY <2>2, <2>6, AnswerIs
  <2>4. /\ Inv(t, m) /\ Same(t, s) /\ t.pc = "idle" /\ t.error = "invalid" /\ t.op = s.op
    BY <1>2, RefusedIs DEF Errors
  <2> HIDE DEF t
  <2>5. Result(t, s, m)
    BY <1>5, <2>4 DEF Result, Earned
  <2> QED
    BY <2>1, <2>3, <2>5
<1> QED
  BY <1>3, <1>4, <1>5 DEF Natives

\* After an error a call of mpack_read_native gives zeros, or nothing.
Zeroed(got) ==
    /\ got.kind \in {"nothing", "bytes"}
    /\ got.kind = "bytes" => \A i \in DOMAIN got.bytes : got.bytes[i] = 0

LEMMA ZerosDelivered ==
    ASSUME NEW s, s.error # "ok", Natives(s), NEW bytes, \A i \in DOMAIN bytes : bytes[i] = 0
    PROVE  \E got : Zeroed(got) /\ Delivered(s, bytes) = Answer(s, got)
<1>1. Zeroed(Nothing) /\ Zeroed(BytesOf(bytes))
  BY DEF Zeroed, Nothing, BytesOf
<1>2. Delivered(s, bytes) \in {Answer(s, BytesOf(bytes)), Answer(s, Nothing)}
  <2>1. CASE s.op \in {"bytes", "alloc"}
    BY <2>1, Zenon DEF Delivered
  <2>2. CASE s.op = "cstr"
    BY <2>2, Zenon DEF Delivered
  <2>3. CASE s.op = "timestamp"
    BY <2>3, Zenon DEF Delivered
  <2> QED
    BY <2>1, <2>2, <2>3 DEF Natives
<1> QED
  BY <1>1, <1>2, Zenon

LEMMA ZerosAre ==
    ASSUME NEW s, s.error # "ok", Natives(s), NEW n
    PROVE  \E got : Zeroed(got) /\ Zeros(s, n) = Answer(s, got)
<1> DEFINE z == [i \in 1..n |-> 0]
<1>1. \E got : Zeroed(got) /\ Delivered(s, z) = Answer(s, got)
  <2>1. \A i \in DOMAIN z : z[i] = 0
    OBVIOUS
  <2> HIDE DEF z
  <2> QED
    BY <2>1, ZerosDelivered
<1>2. Zeros(s, n) \in {Answer(s, Nothing), Delivered(s, z)}
  BY DEF Zeros
<1>3. Zeroed(Nothing)
  BY DEF Zeroed, Nothing
<1> QED
  BY <1>1, <1>2, <1>3, Zenon

LEMMA FractionIs == \A i, k \in Nat : k > 0 => i \div k \in Nat /\ i \div k <= i
OBVIOUS

LEMMA NativeStraddleIs ==
    ASSUME NEW s, NEW m, Good(s, m), s.error = "ok", Natives(s), s.n > Unread(s)
    PROVE  Result(mpack_read_native_straddle(s, s.n), s, m)
<1> DEFINE k == Unread(s)
           rest == s.n - k
           t == [s EXCEPT !.out = Window(s, k), !.data = s.end, !.rest = rest]
           u == Ask(t, "small", 0, rest, s.size)
           v == Ask(t, "direct", 0, rest, rest)
<1>1. Typed(s, m) /\ s.pos = s.used + k /\ k \in Nat /\ s.n \in Nat /\ s.used \in Nat
      /\ s.size \in Nat /\ rest \in Nat /\ rest > 0 /\ s.n = k + rest
      /\ (s.pos <= Len(src) \/ s.sought)
  <2>1. Typed(s, m) /\ s.pos = s.used + k /\ (s.pos <= Len(src) \/ s.sought)
    BY DEF Good
  <2>2. s.n \in Nat /\ s.used \in Nat /\ s.size \in Nat
    BY <2>1 DEF Typed
  <2>3. k \in Nat
    BY <2>1 DEF Good, Unread, Typed
  <2>4. \A i, j \in Nat : i > j => i - j \in Nat /\ i - j > 0 /\ i = j + (i - j)
    OBVIOUS
  <2> QED
    BY <2>1, <2>2, <2>3, <2>4
<1>2. Window(s, k) = SubSeq(src, s.used + 1, s.used + k)
      /\ Window(s, k) \in Seq(Byte) /\ Len(Window(s, k)) = k
  BY <1>1, WindowIs
<1>3. mpack_read_native_straddle(s, s.n) =
         IF s.fill = "none" THEN Zeros(Flag(s, "invalid"), s.n)
         ELSE IF rest <= s.size \div SmallFraction THEN u ELSE v
  BY DEF mpack_read_native_straddle
<1> HIDE DEF k
<1>4. /\ DOMAIN t = Fields /\ t.error = s.error /\ t.mem = s.mem /\ t.size = s.size
      /\ t.data = s.end /\ t.end = s.end /\ t.fill = s.fill /\ t.skip = s.skip
      /\ t.block = s.block /\ t.pos = s.pos /\ t.eof = s.eof /\ t.op = s.op /\ t.n = s.n
      /\ t.used = s.used /\ t.sought = s.sought /\ t.out = Window(s, k) /\ t.job = s.job
      /\ t.rest = rest /\ t.todo = s.todo
  BY <1>1 DEF Typed, Fields
<1> HIDE DEF t, rest
<1>0. /\ s.pos = s.used + k /\ s.n = k + rest /\ rest \in Nat /\ k \in Nat /\ rest > 0
      /\ s.n \in Nat /\ s.used \in Nat
  BY <1>1 DEF k, rest
<1>5. Typed(t, m) /\ Same(t, s) /\ Natives(t)
  BY <1>1, <1>2, <1>4 DEF Typed, Same, Natives
<1>6. CASE s.fill = "none"
  <2> DEFINE w == Flag(s, "invalid")
  <2>1. w.error # "ok" /\ Natives(w)
    BY <1>1 DEF Flag, Natives, Typed, Fields
  <2>2. PICK got : Zeros(w, s.n) = Answer(w, got)
    BY <2>1, ZerosAre
  <2>3. Result(Answer(w, got), s, m)
    BY <1>6, NotEnough
  <2> QED
    BY <1>3, <1>6, <2>2, <2>3
<1>7. CASE s.fill # "none" /\ rest <= s.size \div SmallFraction
  <2>1. SmallFraction \in Nat /\ SmallFraction > 0
    BY ReaderAssumption
  <2>2. rest <= s.size
    <3>1. s.size \div SmallFraction \in Nat /\ s.size \div SmallFraction <= s.size
      BY <1>1, <2>1, FractionIs
    <3> QED
      BY <1>1, <1>7, <3>1
  <2>3. /\ Typed(u, m) /\ Same(u, t) /\ u.pc = "fill"
        /\ u.error = t.error /\ u.pos = t.pos /\ u.used = t.used
        /\ u.n = t.n /\ u.op = t.op /\ u.rest = t.rest /\ u.sought = t.sought /\ u.out = t.out
        /\ u.job.then = "small" /\ u.job.at = 0 /\ u.job.min = rest
        /\ u.job.max = s.size /\ u.job.count = 0
    BY <1>1, <1>4, <1>5, AskIs
  <2> HIDE DEF u
  <2>4. Split(u) /\ u.n = Len(u.out) + u.rest /\ u.pos = u.used + Len(u.out) + u.job.count
        /\ Holds(u, 0, u.job.count, u.used + Len(u.out))
    <3>1. u.out = SubSeq(src, u.used + 1, u.used + k) /\ Len(u.out) = k
      BY <1>2, <1>4, <2>3
    <3>2. Natives(u)
      BY <1>5, <2>3 DEF Natives
    <3> QED
      <4>0. u.n = s.n /\ u.rest = rest /\ u.pos = s.pos /\ u.used = s.used
        BY <1>4, <2>3
      <4>1. u.n = Len(u.out) + u.rest /\ u.pos = u.used + Len(u.out) + u.job.count
        <5>1. Len(u.out) = k /\ u.job.count = 0
          BY <2>3, <3>1
        <5> QED
          BY <1>0, <4>0, <5>1
      <4>2. Split(u)
        BY <1>1, <1>4, <2>3, <3>1, <3>2 DEF Split
      <4> QED
        BY <2>3, <4>1, <4>2 DEF Holds
  <2>5. Filling(u)
    BY <1>1, <1>4, <1>7, <2>2, <2>3, <2>4 DEF Filling, Asked, Same
  <2>6. Result(u, t, m)
    BY <1>4, <2>3, <2>5 DEF Result, Inv, Earned
  <2> QED
    BY <1>3, <1>5, <1>7, <2>6, ResultOfSame DEF u
<1>8. CASE s.fill # "none" /\ ~(rest <= s.size \div SmallFraction)
  <2>1. /\ Typed(v, m) /\ Same(v, t) /\ v.pc = "fill" /\ v.data = t.data /\ v.end = t.end
        /\ v.error = t.error /\ v.pos = t.pos /\ v.used = t.used
        /\ v.n = t.n /\ v.op = t.op /\ v.rest = t.rest /\ v.sought = t.sought /\ v.out = t.out
        /\ v.job.then = "direct" /\ v.job.at = 0 /\ v.job.min = rest
        /\ v.job.max = rest /\ v.job.count = 0
    BY <1>1, <1>4, <1>5, AskIs
  <2> HIDE DEF v
  <2>2. Split(v) /\ v.n = Len(v.out) - v.job.count + v.rest /\ v.pos = v.used + Len(v.out)
    <3>1. v.out = SubSeq(src, v.used + 1, v.used + k) /\ Len(v.out) = k
      BY <1>2, <1>4, <2>1
    <3>2. Natives(v)
      BY <1>5, <2>1 DEF Natives
    <3> QED
      <4>0. v.n = s.n /\ v.rest = rest /\ v.pos = s.pos /\ v.used = s.used
        BY <1>4, <2>1
      <4>1. v.n = Len(v.out) - v.job.count + v.rest /\ v.pos = v.used + Len(v.out)
        <5>1. Len(v.out) = k /\ v.job.count = 0
          BY <2>1, <3>1
        <5> QED
          BY <1>0, <4>0, <5>1
      <4>2. Split(v)
        BY <1>1, <1>4, <2>1, <3>1, <3>2 DEF Split
      <4> QED
        BY <4>1, <4>2
  <2>3. Filling(v)
    BY <1>1, <1>4, <1>8, <2>1, <2>2 DEF Filling, Asked, Same
  <2>4. Result(v, t, m)
    BY <1>4, <2>1, <2>3 DEF Result, Inv, Earned
  <2> QED
    BY <1>3, <1>5, <1>8, <2>4, ResultOfSame DEF v
<1> QED
  BY <1>6, <1>7, <1>8

LEMMA TakenIs ==
    ASSUME NEW s, s.n \in Nat, s.used \in Nat, NEW bytes \in Seq(Byte), Len(bytes) = s.n,
           bytes = SubSeq(src, s.used - s.n + 1, s.used), s.n > 0 => s.used <= Len(src)
    PROVE  Taken(s, bytes)
<1>1. DOMAIN bytes = 1..s.n
  BY LenProperties
<1>2. \A i \in 1..s.n : bytes[i] = src[s.used - s.n + i]
  <2> SUFFICES ASSUME NEW i \in 1..s.n
               PROVE  bytes[i] = src[s.used - s.n + i]
    OBVIOUS
  <2> DEFINE a == s.used - s.n + 1
  <2>1. a \in Int /\ i \in 1..(s.used - a + 1) /\ a + i - 1 = s.used - s.n + i
    OBVIOUS
  <2> HIDE DEF a
  <2>2. SubSeq(src, a, s.used)[i] = src[a + i - 1]
    BY <2>1
  <2> QED
    BY <2>1, <2>2 DEF a
<1> QED
  BY <1>1, <1>2 DEF Taken

LEMMA NativeIs ==
    ASSUME NEW s, NEW m, Good(s, m), s.error = "ok", Natives(s), NEW n \in Nat
    PROVE  Result(mpack_read_native(s, n), s, m)
<1> DEFINE t == [s EXCEPT !.n = n]
           u == Take(t, n)
           w == Window(t, n)
<1>1. mpack_read_native(s, n) = IF n > Unread(s) THEN mpack_read_native_straddle(t, n)
                                ELSE Delivered(Take(t, n), Window(t, n))
  BY DEF mpack_read_native
<1>2. /\ DOMAIN t = Fields /\ t.error = s.error /\ t.mem = s.mem /\ t.size = s.size
      /\ t.data = s.data /\ t.end = s.end /\ t.fill = s.fill /\ t.skip = s.skip
      /\ t.block = s.block /\ t.pos = s.pos /\ t.eof = s.eof /\ t.op = s.op /\ t.n = n
      /\ t.used = s.used /\ t.sought = s.sought /\ t.out = s.out /\ t.job = s.job
      /\ t.rest = s.rest /\ t.todo = s.todo
      /\ s.rest \in Nat /\ s.todo \in Nat /\ s.used \in Nat
  BY DEF Good, Typed, Fields
<1> HIDE DEF t
<1>3. Good(t, m) /\ Same(t, s) /\ Natives(t) /\ Unread(t) = Unread(s)
  BY <1>2, GoodKept DEF Same, Natives, Unread
<1>4. Unread(s) \in Int
  BY SMTT(60) DEF Unread, Good, Typed
<1>5. CASE n > Unread(s)
  <2>1. Result(mpack_read_native_straddle(t, n), t, m)
    BY <1>2, <1>3, <1>5, NativeStraddleIs
  <2> QED
    BY <1>1, <1>3, <1>5, <2>1, ResultOfSame
<1>6. CASE n <= Unread(s)
  <2>1. /\ Good(u, m) /\ Same(u, t) /\ u.error = "ok" /\ u.used = t.used + n /\ u.n = n
        /\ u.op = t.op
    BY <1>2, <1>3, <1>6, TakeIs
  <2>2. w = SubSeq(src, t.used + 1, t.used + n) /\ w \in Seq(Byte) /\ Len(w) = n
    BY <1>2, <1>3, <1>6, WindowIs
  <2>7. mpack_read_native(s, n) = Delivered(u, w)
    BY <1>1, <1>2, <1>4, <1>6
  <2> HIDE DEF u, w
  <2>3. u.used - u.n + 1 = t.used + 1 /\ u.n \in Nat /\ u.used \in Nat
    BY <1>2, <2>1
  <2>4. Taken(u, w)
    <3>1. n > 0 => t.used + n <= Len(src)
      <4>1. /\ s.pos = s.used + Unread(s) /\ s.used \in Nat
            /\ s.pos <= Len(src) \/ Unread(s) = 0
        BY DEF Good, Typed
      <4>2. Len(src) \in Nat
        BY LenProperties DEF Good, Typed
      <4> QED
        BY <1>2, <1>4, <1>6, <4>1, <4>2
    <3> QED
      BY <2>1, <2>2, <2>3, <3>1, TakenIs
  <2>5. Result(Delivered(u, w), u, m)
    BY <1>3, <2>1, <2>4, DeliveredIs DEF Natives
  <2>6. Same(u, s)
    BY <1>3, <2>1 DEF Same
  <2> QED
    BY <2>5, <2>6, <2>7, ResultOfSame
<1> QED
  BY <1>2, <1>4, <1>5, <1>6

-----------------------------------------------------------------------------
(* Filling.                                                                *)

LEMMA AvailableIs ==
    ASSUME NEW s, NEW m, Typed(s, m), s.job.count <= s.job.max
    PROVE  /\ Available(s) \in Nat /\ Available(s) <= s.job.max - s.job.count
           /\ Available(s) > 0 => s.pos + Available(s) <= Len(src)
           /\ Available(s) < s.job.max - s.job.count => s.pos + Available(s) >= Len(src)
<1> DEFINE a == s.job.max - s.job.count
           b == IF s.pos > Len(src) THEN 0 ELSE Len(src) - s.pos
<1>1. a \in Nat /\ b \in Nat /\ s.pos \in Nat /\ Len(src) \in Nat
  <2>1. Len(src) \in Nat
    BY LenProperties DEF Typed
  <2>2. s.pos \in Nat /\ s.job.max \in Nat /\ s.job.count \in Nat
    BY DEF Typed, JobFits
  <2> QED
    BY <2>1, <2>2
<1>2. Available(s) = Min({a, b})
  BY DEF Available
<1>3. b = IF s.pos > Len(src) THEN 0 ELSE Len(src) - s.pos
  OBVIOUS
<1>4. a = s.job.max - s.job.count
  OBVIOUS
<1> HIDE DEF a, b
<1>5. Min({a, b}) = IF a <= b THEN a ELSE b
  BY <1>1 DEF Min
<1> QED
  BY <1>1, <1>2, <1>3, <1>4, <1>5

\* The first k bytes of what is to come.
Coming(s, k) == SubSeq(src, s.pos + 1, s.pos + k)

LEMMA ComingIs ==
    ASSUME NEW s, NEW m, Typed(s, m), NEW k \in Nat, k > 0 => s.pos + k <= Len(src)
    PROVE  /\ Coming(s, k) \in Seq(Byte) /\ Len(Coming(s, k)) = k
           /\ \A i \in 1..k : Coming(s, k)[i] = src[s.pos + i]
<1>1. s.pos \in Nat /\ src \in Seq(Byte) /\ Len(src) \in Nat
  BY LenProperties DEF Typed
<1>2. \A i \in (s.pos + 1)..(s.pos + k) : src[i] \in Byte
  <2> SUFFICES ASSUME NEW i \in (s.pos + 1)..(s.pos + k)
               PROVE  src[i] \in Byte
    OBVIOUS
  <2>1. i \in 1..Len(src)
    BY <1>1
  <2> QED
    BY <1>1, <2>1, ElementOfSeq
<1> DEFINE a == s.pos + 1
           b == s.pos + k
<1>3. a \in Int /\ b \in Int /\ b - a + 1 = k /\ (a <= b <=> k > 0)
  BY <1>1
<1>4. \A i \in 1..k : a + i - 1 = s.pos + i
  BY <1>1
<1> HIDE DEF a, b
<1>5. /\ SubSeq(src, a, b) \in Seq(Byte)
      /\ Len(SubSeq(src, a, b)) = IF a <= b THEN b - a + 1 ELSE 0
      /\ \A i \in 1..(b - a + 1) : SubSeq(src, a, b)[i] = src[a + i - 1]
  BY <1>2, <1>3, SubSeqProperties DEF a, b
<1>6. Coming(s, k) = SubSeq(src, a, b)
  BY DEF Coming, a, b
<1>7. Len(Coming(s, k)) = k
  <2>1. Len(Coming(s, k)) = IF a <= b THEN b - a + 1 ELSE 0
    BY <1>5, <1>6
  <2> QED
    BY <1>3, <2>1
<1>8. \A i \in 1..k : Coming(s, k)[i] = src[s.pos + i]
  BY <1>3, <1>4, <1>5, <1>6
<1> QED
  BY <1>5, <1>6, <1>7, <1>8

\* A reader while the fill function is called: only its file and the surroundings have
\* changed.
During(u, s, k) ==
    /\ DOMAIN u = Fields /\ \A f \in Fields \ {"eof", "starved"} : u[f] = s[f]
    /\ u.eof => s.pos + k >= Len(src)

LEMMA DuringIs ==
    ASSUME NEW s, NEW m, Typed(s, m), NEW u, NEW k, During(u, s, k)
    PROVE  /\ DOMAIN u = Fields /\ u.error = s.error /\ u.mem = s.mem /\ u.size = s.size
           /\ u.data = s.data /\ u.end = s.end /\ u.fill = s.fill /\ u.skip = s.skip
           /\ u.block = s.block /\ u.pos = s.pos /\ u.op = s.op /\ u.n = s.n
           /\ u.used = s.used /\ u.sought = s.sought /\ u.out = s.out /\ u.job = s.job
           /\ u.rest = s.rest /\ u.todo = s.todo /\ u.pc = s.pc
BY DEF During, Fields

\* The next k bytes of the source were copied into the memory from `at` on.
Continues(t, s, m, at, k) ==
    t.mem = [i \in 0..(m - 1) |->
                IF i >= at /\ i < at + k THEN Coming(s, k)[i - at + 1] ELSE s.mem[i]]

\* They continue what stood there.
LEMMA MemoryContinues ==
    ASSUME NEW s, NEW m, Typed(s, m), NEW k \in Nat, NEW at \in Nat, at + k <= m,
           NEW from \in Nat, s.pos = from + at, Holds(s, 0, at, from),
           k > 0 => s.pos + k <= Len(src), NEW t, Continues(t, s, m, at, k)
    PROVE  t.mem \in [0..(m - 1) -> Byte] /\ Holds(t, 0, at + k, from)
<1> DEFINE new == Coming(s, k)
           v(i) == IF i >= at /\ i < at + k THEN new[i - at + 1] ELSE s.mem[i]
<1>1. new \in Seq(Byte) /\ Len(new) = k /\ \A i \in 1..k : new[i] = src[s.pos + i]
  BY ComingIs
<1>2. m \in Nat /\ s.mem \in [0..(m - 1) -> Byte]
  BY DEF Typed
<1>3. \A i \in 1..k : new[i] \in Byte
  BY <1>1, ElementOfSeq
<1>4. t.mem = [i \in 0..(m - 1) |-> v(i)]
  BY DEF Continues
<1> HIDE DEF new
<1>5. \A i \in 0..(m - 1) : v(i) \in Byte
  <2> SUFFICES ASSUME NEW i \in 0..(m - 1)
               PROVE  v(i) \in Byte
    BY Zenon
  <2>1. CASE i >= at /\ i < at + k
    <3>1. i - at + 1 \in 1..k /\ v(i) = new[i - at + 1]
      BY <2>1
    <3> QED
      BY <1>3, <3>1
  <2>2. CASE ~(i >= at /\ i < at + k)
    <3>1. v(i) = s.mem[i]
      BY <2>2
    <3> QED
      BY <1>2, <3>1
  <2> QED
    BY <2>1, <2>2
<1>6. \A i \in 0..(at + k - 1) : v(i) = src[from + i + 1]
  <2> SUFFICES ASSUME NEW i \in 0..(at + k - 1)
               PROVE  v(i) = src[from + i + 1]
    BY Zenon
  <2>1. CASE i < at
    <3>1. 0 + i = i /\ i \in 0..(at - 1) /\ v(i) = s.mem[i]
      BY <2>1
    <3> QED
      BY <3>1 DEF Holds
  <2>2. CASE i >= at
    <3>1. i - at + 1 \in 1..k /\ s.pos + (i - at + 1) = from + i + 1 /\ v(i) = new[i - at + 1]
      BY <2>2
    <3> QED
      BY <1>1, <3>1
  <2> QED
    BY <2>1, <2>2
<1>7. \A i \in 0..(at + k - 1) : i \in 0..(m - 1) /\ 0 + i = i
  BY <1>2
<1> HIDE DEF v
<1>8. t.mem \in [0..(m - 1) -> Byte]
  BY <1>4, <1>5
<1>9. \A i \in 0..(at + k - 1) : t.mem[0 + i] = src[from + i + 1]
  BY <1>4, <1>6, <1>7
<1>10. Holds(t, 0, at + k, from)
  BY <1>9 DEF Holds
<1> QED
  BY <1>8, <1>10

LEMMA SumsFit ==
    \A at, count, max, k, size \in Nat :
        at + max <= size /\ k <= max - count => at + count + k <= size
OBVIOUS

\* What the fill function gave continues what it gave before.
LEMMA TookIs ==
    ASSUME NEW s, NEW m, Typed(s, m), Filling(s), NEW u, NEW k \in Nat, During(u, s, k),
           k <= s.job.max - s.job.count, k > 0 => s.pos + k <= Len(src)
    PROVE  LET t == Took(u, k)
           IN /\ Typed(t, m) /\ Same(t, s) /\ t.pc = s.pc /\ t.error = "ok"
              /\ t.n = s.n /\ t.used = s.used /\ t.op = s.op /\ t.starved = u.starved
              /\ t.job.count = s.job.count + k /\ t.job.min = s.job.min
              /\ Asked(t)
<1> DEFINE t == Took(u, k)
           j == [u.job EXCEPT !.count = @ + k, !.odd = ~@]
           at == s.job.at + s.job.count
           new == Coming(s, k)
           mem == [i \in DOMAIN s.mem |->
                     IF i >= at /\ i < at + k THEN new[i - at + 1] ELSE s.mem[i]]
<1>1. /\ DOMAIN u = Fields /\ u.error = s.error /\ u.mem = s.mem /\ u.size = s.size
      /\ u.data = s.data /\ u.end = s.end /\ u.fill = s.fill /\ u.skip = s.skip
      /\ u.block = s.block /\ u.pos = s.pos /\ u.op = s.op /\ u.n = s.n
      /\ u.used = s.used /\ u.sought = s.sought /\ u.out = s.out /\ u.job = s.job
      /\ u.rest = s.rest /\ u.todo = s.todo /\ u.pc = s.pc
  BY DuringIs
<1>2. JobFits(s.job, s.size) /\ m \in Nat /\ m = s.size /\ s.pos \in Nat /\ s.used \in Nat
      /\ s.mem \in [0..(m - 1) -> Byte] /\ s.out \in Seq(Byte) /\ s.end \in Nat
      /\ src \in Seq(Byte) /\ s.error = "ok" /\ s.fill # "none"
  BY DEF Typed, Filling, Asked
<1>30. /\ s.job.at \in Nat /\ s.job.count \in Nat /\ s.job.max \in Nat /\ s.job.min \in Nat
       /\ s.pos \in Nat /\ s.used \in Nat /\ s.end \in Nat /\ s.n \in Nat /\ s.rest \in Nat
       /\ m \in Nat /\ m = s.size /\ s.size \in Nat /\ k \in Nat
  BY DEF Typed, JobFits, Filling, Asked
<1>3. /\ j.then = s.job.then /\ j.at = s.job.at /\ j.min = s.job.min /\ j.max = s.job.max
      /\ j.count = s.job.count + k
      /\ DOMAIN j = {"then", "at", "min", "max", "count", "odd"}
  BY <1>1, <1>2 DEF JobFits
<1>4. /\ s.job.at \in Nat /\ s.job.count \in Nat /\ s.job.max \in Nat /\ s.job.min \in Nat
      /\ s.job.count < s.job.min /\ s.job.min <= s.job.max
      /\ s.job.then # "direct" => s.job.at + s.job.max <= s.size
  BY <1>2 DEF JobFits, Filling, Asked
<1>5. new \in Seq(Byte) /\ Len(new) = k
  BY ComingIs
<1>6. new = SubSeq(src, u.pos + 1, u.pos + k)
  BY <1>1 DEF Coming
<1>7. /\ DOMAIN t = Fields /\ t.error = s.error /\ t.size = s.size
      /\ t.data = s.data /\ t.end = s.end /\ t.fill = s.fill /\ t.skip = s.skip
      /\ t.block = s.block /\ t.pos = s.pos + k /\ t.op = s.op /\ t.n = s.n
      /\ t.used = s.used /\ t.sought = s.sought /\ t.job = j /\ t.eof = u.eof
      /\ t.rest = s.rest /\ t.todo = s.todo /\ t.pc = s.pc /\ t.starved = u.starved
      /\ s.job.then = "direct" => t.out = s.out \o new /\ t.mem = s.mem
      /\ s.job.then # "direct" => t.out = s.out /\ t.mem = mem
  BY <1>1, <1>6 DEF Took, Fields
<1>8. DOMAIN s.mem = 0..(m - 1)
  BY <1>2
<1> HIDE DEF t, j, new, mem, at
<1>9. JobFits(t.job, t.size)
  BY <1>2, <1>3, <1>4, <1>7 DEF JobFits
<1>10. t.pos \in Nat /\ (t.eof => t.pos >= Len(src))
  BY <1>2, <1>7 DEF During
<1>11. t.pos <= Len(src) \/ (t.sought /\ t.job.count = 0)
  <2>1. CASE k > 0
    BY <1>7, <2>1
  <2>2. CASE k = 0
    BY <1>2, <1>3, <1>4, <1>7, <2>2 DEF Filling, Asked
  <2> QED
    BY <2>1, <2>2
<1>12. ASSUME s.job.then # "direct", NEW c \in Nat, NEW from \in Nat, s.pos = from + c,
              c = at, Holds(s, 0, c, from)
       PROVE  t.mem \in [0..(m - 1) -> Byte] /\ Holds(t, 0, c + k, from)
  <2>1. c + k <= m
    <3>1. c = s.job.at + s.job.count
      BY <1>12 DEF at
    <3>2. s.job.at + s.job.max <= m
      BY <1>2, <1>4, <1>12
    <3>3. k <= s.job.max - s.job.count
      OBVIOUS
    <3> QED
      BY <1>30, <3>1, <3>2, <3>3, SumsFit
  <2>2. Continues(t, s, m, c, k)
    BY <1>7, <1>8, <1>12 DEF mem, new, Continues
  <2>3. Holds(s, 0, c, from) /\ s.pos = from + c
    BY <1>12
  <2> QED
    BY <2>1, <2>2, <2>3, MemoryContinues
<1>13. ASSUME s.job.then = "direct"
       PROVE  Typed(t, m) /\ Asked(t)
  <2>1. /\ s.job.at = 0 /\ s.job.min = s.rest /\ s.job.max = s.rest /\ s.rest > 0
        /\ Natives(s) /\ s.data = s.end
        /\ s.n = Len(s.out) - s.job.count + s.rest /\ s.pos = s.used + Len(s.out)
    BY <1>13 DEF Filling, Asked, Split
  <2>2. s.out = SubSeq(src, s.used + 1, s.used + Len(s.out))
    BY <1>13 DEF Filling, Asked, Split
  <2>3. t.out \in Seq(Byte) /\ Len(t.out) = Len(s.out) + k /\ Len(s.out) \in Nat
    <3>1. s.out \in Seq(Byte) /\ new \in Seq(Byte) /\ Len(new) = k /\ t.out = s.out \o new
      BY <1>2, <1>5, <1>7, <1>13
    <3> QED
      BY <3>1, ConcatProperties, LenProperties
  <2>4. t.out = SubSeq(src, t.used + 1, t.used + Len(t.out))
    <3> DEFINE a == s.used + 1
               b == s.pos
               c == s.pos + k
    <3>1. s.out = SubSeq(src, a, b) /\ new = SubSeq(src, b + 1, c)
      BY <1>2, <2>1, <2>2 DEF new, Coming
    <3>2. a = t.used + 1 /\ c = t.used + Len(t.out)
      BY <1>2, <1>7, <2>1, <2>3
    <3>3. CASE k = 0
      <4>1. new = <<>>
        BY <1>5, <3>3, EmptySeq
      <4>2. t.out = s.out
        BY <1>2, <1>7, <1>13, <4>1, ConcatEmptySeq
      <4>3. b = c
        BY <1>2, <3>3
      <4> HIDE DEF a, b, c
      <4> QED
        BY <3>1, <3>2, <4>2, <4>3
    <3>4. CASE k > 0
      <4>1. Len(src) \in Nat
        BY <1>2, LenProperties
      <4>2. a \in 1..(Len(src) + 1) /\ b \in (a - 1)..Len(src) /\ c \in b..Len(src)
        <5>1. s.pos + k <= Len(src) /\ s.pos = s.used + Len(s.out)
          BY <2>1, <3>4
        <5>2. s.pos \in Nat /\ s.used \in Nat /\ Len(s.out) \in Nat
          BY <1>2, <2>3
        <5> QED
          BY <4>1, <5>1, <5>2
      <4> HIDE DEF a, b, c
      <4>3. SubSeq(src, a, b) \o SubSeq(src, b + 1, c) = SubSeq(src, a, c)
        BY <1>2, <4>2, ConcatAdjacentSubSeq
      <4> QED
        BY <1>7, <1>13, <3>1, <3>2, <4>3
    <3> QED
      BY <3>3, <3>4
  <2>5. Typed(t, m)
    <3>1. t.mem = s.mem
      BY <1>7, <1>13
    <3> QED
      BY <1>2, <1>7, <1>9, <1>10, <2>3, <3>1 DEF Typed
  <2>6. Split(t)
    BY <1>3, <1>7, <2>1, <2>4 DEF Split, Natives
  <2>7. t.n = Len(t.out) - t.job.count + t.rest /\ t.pos = t.used + Len(t.out)
    <3>1. t.n = s.n /\ t.used = s.used /\ t.rest = s.rest /\ t.pos = s.pos + k
          /\ t.job.count = s.job.count + k
      BY <1>3, <1>7
    <3>2. s.rest \in Nat /\ s.n \in Nat
      BY DEF Typed
    <3> QED
      <4> DEFINE N == s.n
                 L == Len(s.out)
                 C == s.job.count
                 R == s.rest
                 U == s.used
      <4>1. N \in Nat /\ L \in Nat /\ C \in Nat /\ R \in Nat /\ U \in Nat /\ k \in Nat
        BY <1>30, <2>3
      <4>2. N = L - C + R /\ s.pos = U + L
        BY <2>1
      <4>3. t.n = N /\ Len(t.out) = L + k /\ t.job.count = C + k /\ t.rest = R
            /\ t.pos = s.pos + k /\ t.used = U
        BY <2>3, <3>1
      <4> HIDE DEF N, L, C, R, U
      <4>4. N = (L + k) - (C + k) + R /\ (U + L) + k = U + (L + k)
        BY <4>1, <4>2
      <4> QED
        BY <4>2, <4>3, <4>4
  <2>8. Asked(t)
    <3>1. t.job.count <= t.job.max /\ t.job.min > 0 /\ t.job.min <= t.job.max
      BY <1>3, <1>4, <1>7
    <3> QED
      BY <1>2, <1>3, <1>7, <1>11, <1>13, <2>1, <2>6, <2>7, <3>1 DEF Asked
  <2> QED
    BY <2>5, <2>8
<1>14. ASSUME s.job.then # "direct"
       PROVE  Typed(t, m) /\ Asked(t)
  <2>1. t.out = s.out
    BY <1>7, <1>14
  <2>2. ASSUME t.mem \in [0..(m - 1) -> Byte]
        PROVE  Typed(t, m)
    BY <1>2, <1>7, <1>9, <1>10, <2>1, <2>2 DEF Typed
  <2>3. t.job.count <= t.job.max /\ t.job.min > 0 /\ t.job.min <= t.job.max
    BY <1>3, <1>4, <1>7
  <2>4. CASE s.job.then = "ensure"
    <3>1. /\ s.op \in {"inplace", "tag", "peek", "discard"}
          /\ s.op = "discard" => s.todo > 0
          /\ s.data = 0 /\ s.job.at = s.end /\ s.job.min = s.n - s.end
          /\ s.pos = s.used + s.end + s.job.count
          /\ Holds(s, 0, s.end + s.job.count, s.used)
      BY <2>4 DEF Filling, Asked
    <3>2. s.end + s.job.count \in Nat /\ s.pos = s.used + (s.end + s.job.count)
          /\ s.end + s.job.count = at
      BY <1>2, <1>4, <3>1 DEF at
    <3>3. t.mem \in [0..(m - 1) -> Byte] /\ Holds(t, 0, s.end + s.job.count + k, s.used)
      BY <1>2, <1>12, <1>14, <3>1, <3>2
    <3>4. t.end + t.job.count = s.end + s.job.count + k /\ t.pos = t.used + t.end + t.job.count
      <4>1. t.end = s.end /\ t.used = s.used /\ t.pos = s.pos + k
            /\ t.job.count = s.job.count + k
        BY <1>3, <1>7
      <4> QED
        <5>1. s.pos = s.used + s.end + s.job.count
          BY <3>1
        <5> QED
          <6> DEFINE E == s.end
                     C == s.job.count
                     U == s.used
          <6>1. E \in Nat /\ C \in Nat /\ U \in Nat /\ k \in Nat
            BY <1>30
          <6>2. s.pos = U + E + C
            BY <5>1
          <6>3. t.end = E /\ t.used = U /\ t.pos = s.pos + k /\ t.job.count = C + k
            BY <4>1
          <6>4. E + (C + k) = E + C + k /\ (U + E + C) + k = U + E + (C + k)
            BY <6>1
          <6>5. s.end + s.job.count + k = E + C + k
            OBVIOUS
          <6> HIDE DEF E, C, U
          <6> QED
            BY <6>2, <6>3, <6>4, <6>5
    <3>5. Holds(t, 0, t.end + t.job.count, t.used)
      BY <1>7, <3>3, <3>4
    <3>6. Asked(t)
      BY <1>2, <1>3, <1>7, <1>11, <2>3, <2>4, <3>1, <3>4, <3>5 DEF Asked
    <3> QED
      BY <2>2, <3>3, <3>6
  <2>5. CASE s.job.then = "small"
    <3>1. /\ s.job.at = 0 /\ s.job.min = s.rest /\ s.rest > 0 /\ Natives(s)
          /\ s.n = Len(s.out) + s.rest
          /\ s.pos = s.used + Len(s.out) + s.job.count
          /\ Holds(s, 0, s.job.count, s.used + Len(s.out))
      BY <2>5 DEF Filling, Asked, Split
    <3>2. s.out = SubSeq(src, s.used + 1, s.used + Len(s.out))
      BY <2>5 DEF Filling, Asked, Split
    <3>3. Len(s.out) \in Nat
      BY <1>2, LenProperties
    <3>4. s.used + Len(s.out) \in Nat /\ s.job.count = at
          /\ s.pos = (s.used + Len(s.out)) + s.job.count
      BY <1>30, <3>1, <3>3, SMTT(60) DEF at
    <3>5. t.mem \in [0..(m - 1) -> Byte] /\ Holds(t, 0, s.job.count + k, s.used + Len(s.out))
      BY <1>4, <1>12, <1>14, <3>1, <3>4
    <3>6. t.pos = t.used + Len(t.out) + t.job.count
      <4>1. t.out = s.out /\ t.used = s.used /\ t.pos = s.pos + k
            /\ t.job.count = s.job.count + k
        BY <1>3, <1>7, <2>1
      <4> DEFINE O == Len(s.out)
                 C == s.job.count
                 U == s.used
      <4>2. /\ O \in Nat /\ C \in Nat /\ U \in Nat /\ k \in Nat /\ s.pos = U + O + C
            /\ t.pos = s.pos + k /\ t.used = U /\ Len(t.out) = O /\ t.job.count = C + k
        BY <1>30, <3>1, <3>3, <4>1
      <4> HIDE DEF O, C, U
      <4>3. (U + O + C) + k = U + O + (C + k)
        BY <4>2
      <4> QED
        BY <4>2, <4>3
    <3>7. Split(t)
      BY <1>3, <1>7, <2>1, <3>1, <3>2 DEF Split, Natives
    <3>8. Holds(t, 0, t.job.count, t.used + Len(t.out))
      BY <1>3, <1>7, <2>1, <3>5
    <3>9. Asked(t)
      BY <1>2, <1>3, <1>7, <1>11, <2>1, <2>3, <2>5, <3>1, <3>6, <3>7, <3>8 DEF Asked
    <3> QED
      BY <2>2, <3>5, <3>9
  <2>6. CASE s.job.then = "whole"
    <3>1. /\ Skips(s) /\ s.job.min = s.size /\ s.rest > s.size
          /\ s.pos - s.job.count + s.rest = s.used + s.n
      BY <2>6 DEF Filling, Asked
    <3>2. \A i \in 1..k : new[i] \in Byte
      BY <1>5, ElementOfSeq
    <3>3. at \in Nat
      BY <1>4 DEF at
    <3>4. \A i \in 0..(m - 1) :
             (IF i >= at /\ i < at + k THEN new[i - at + 1] ELSE s.mem[i]) \in Byte
      BY <1>2, <3>2, <3>3
    <3>5. mem \in [0..(m - 1) -> Byte]
      BY <1>8, <3>4 DEF mem
    <3>6. t.pos - t.job.count + t.rest = t.used + t.n
      <4>1. t.pos = s.pos + k /\ t.job.count = s.job.count + k /\ t.rest = s.rest
            /\ t.used = s.used /\ t.n = s.n
        BY <1>3, <1>7
      <4>2. s.rest \in Nat /\ s.n \in Nat
        BY DEF Typed
      <4> QED
        BY <1>2, <1>4, <3>1, <4>1, <4>2
    <3>7. Asked(t)
      BY <1>2, <1>3, <1>7, <1>11, <2>3, <2>6, <3>1, <3>6 DEF Asked, Skips
    <3> QED
      BY <1>7, <1>14, <2>2, <3>5, <3>7
  <2>7. CASE s.job.then = "part"
    <3>1. /\ Skips(s) /\ s.job.at = 0 /\ s.data = 0 /\ s.job.min = s.rest
          /\ s.pos - s.job.count + s.rest = s.used + s.n
          /\ Holds(s, 0, s.job.count, s.pos - s.job.count)
      BY <2>7 DEF Filling, Asked
    <3>2. s.rest \in Nat /\ s.n \in Nat /\ s.job.count < s.rest
      BY <1>4, <3>1 DEF Typed
    <3>3. s.job.count = at
      BY <1>4, <3>1 DEF at
    <3>4. s.pos >= s.job.count
      BY <2>7 DEF Filling, Asked
    <3>5. s.pos - s.job.count \in Nat /\ s.pos = (s.pos - s.job.count) + s.job.count
      BY <1>2, <1>4, <3>4
    <3>6. t.mem \in [0..(m - 1) -> Byte] /\ Holds(t, 0, s.job.count + k, s.pos - s.job.count)
      BY <1>4, <1>12, <1>14, <3>1, <3>3, <3>5
    <3>7. t.pos - t.job.count = s.pos - s.job.count
      BY <1>2, <1>3, <1>4, <1>7
    <3>8. Holds(t, 0, t.job.count, t.pos - t.job.count)
      BY <1>3, <1>7, <3>6, <3>7
    <3>10. t.job.count <= t.pos
      BY <1>2, <1>3, <1>4, <1>7, <3>4
    <3>9. Asked(t)
      BY <1>2, <1>3, <1>7, <1>11, <2>3, <2>7, <3>1, <3>7, <3>8, <3>10 DEF Asked, Skips
    <3> QED
      BY <2>2, <3>6, <3>9
  <2> QED
    BY <1>14, <2>4, <2>5, <2>6, <2>7 DEF Filling, Asked
<1>15. Typed(t, m) /\ Asked(t)
  BY <1>13, <1>14
<1> QED
  BY <1>2, <1>3, <1>7, <1>15 DEF t, Same

\* The source ends before what the call needs does.
LEMMA ShortIs ==
    ASSUME NEW s, NEW m, Typed(s, m), Filling(s), s.pos >= Len(src)
    PROVE  Short(s)
<1> DEFINE N == s.n
           C == s.job.count
           R == s.rest
           U == s.used
           E == s.end
           P == s.pos
           O == Len(s.out)
           L == Len(src)
           K == s.job.min
           Z == s.size
<1>1. /\ N \in Nat /\ C \in Nat /\ R \in Nat /\ U \in Nat /\ E \in Nat /\ P \in Nat
      /\ K \in Nat /\ Z \in Nat /\ C < K
  BY DEF Typed, JobFits, Filling
<1>2. O \in Nat /\ L \in Nat /\ P >= L
  BY LenProperties DEF Typed
<1>3. \/ K = N - E /\ P = U + E + C
      \/ N = O + R /\ P = U + O + C /\ K = R
      \/ N = O - C + R /\ P = U + O /\ K = R
      \/ P - C + R = U + N /\ R > Z /\ K = Z
      \/ P - C + R = U + N /\ K = R
  BY DEF Filling, Asked, Split
<1>4. Short(s) = (U + N > L)
  BY DEF Short
<1> HIDE DEF N, C, R, U, E, P, O, L, K, Z
<1>5. U + N > L
  BY <1>1, <1>2, <1>3
<1> QED
  BY <1>4, <1>5

\* The fill function has given what the call waits for.
LEMMA ResumeIs ==
    ASSUME NEW s, NEW m, Typed(s, m), Asked(s), s.job.count >= s.job.min
    PROVE  Result(Resume(s), s, m)
<1> DEFINE N == s.n
           C == s.job.count
           R == s.rest
           U == s.used
           E == s.end
           P == s.pos
           O == Len(s.out)
           L == Len(src)
           K == s.job.min
           X == s.job.max
           A == s.job.at
<1>1. /\ A \in Nat /\ C \in Nat /\ X \in Nat /\ K \in Nat /\ P \in Nat /\ U \in Nat
      /\ E \in Nat /\ N \in Nat /\ R \in Nat /\ m \in Nat /\ O \in Nat /\ L \in Nat
  BY LenProperties DEF Typed, JobFits
<1>2. /\ C >= K /\ K > 0 /\ C <= X /\ K <= X /\ s.error = "ok" /\ m = s.size
      /\ s.fill # "none" /\ (P <= L \/ C = 0)
  BY DEF Asked, Typed
<1>3. s.job.then # "direct" /\ X > 0 => A + X <= m
  BY <1>2 DEF Typed, JobFits
<1> HIDE DEF N, C, R, U, E, P, O, L, K, X, A
<1>4. C > 0 /\ X > 0 /\ P <= L /\ s.fill # "none"
  BY <1>1, <1>2
<1>5. CASE s.job.then = "ensure"
  <2> DEFINE t == [s EXCEPT !.end = @ + s.job.count]
  <2>1. Resume(s) = IF s.op = "inplace" THEN Inplace(t, s.n) ELSE mpack_read_tag(t)
    BY <1>5, Zenon DEF Resume
  <2>2. /\ s.op \in {"inplace", "tag", "peek", "discard"}
        /\ s.op = "discard" => s.todo > 0
        /\ s.data = 0 /\ A = E /\ P = U + E + C /\ Holds(s, 0, E + C, U)
    BY <1>5 DEF Asked, A, C, E, P, U
  <2>3. /\ DOMAIN t = Fields /\ t.error = s.error /\ t.mem = s.mem /\ t.size = s.size
        /\ t.data = s.data /\ t.end = E + C /\ t.fill = s.fill
        /\ t.skip = s.skip /\ t.block = s.block /\ t.pos = s.pos /\ t.eof = s.eof
        /\ t.op = s.op /\ t.n = s.n /\ t.used = s.used /\ t.sought = s.sought
        /\ t.out = s.out /\ t.job = s.job /\ t.rest = s.rest /\ t.todo = s.todo
    BY DEF Typed, Fields, E, C
  <2> HIDE DEF t
  <2>4. t.end \in 0..m
    BY <1>1, <1>2, <1>3, <1>4, <1>5, <2>2, <2>3
  <2>5. Typed(t, m)
    BY <2>3, <2>4 DEF Typed
  <2>6. Unread(t) = E + C /\ P = U + (E + C) /\ t.data <= t.end
    BY <1>1, <2>2, <2>3 DEF Unread
  <2>7. Holds(t, t.data, Unread(t), t.used)
    BY <2>2, <2>3, <2>6 DEF Holds, U
  <2>8. Good(t, m)
    BY <1>2, <1>4, <2>3, <2>5, <2>6, <2>7 DEF Good, P, L, U
  <2>9. Same(t, s)
    BY <2>3 DEF Same
  <2>10. CASE s.op = "inplace"
    <3>1. Result(Inplace(t, N), t, m)
      BY <1>1, <1>2, <2>3, <2>8, <2>10, InplaceIs
    <3> QED
      BY <2>1, <2>9, <2>10, <3>1, ResultOfSame DEF N
  <2>11. CASE s.op # "inplace"
    <3>1. Result(mpack_read_tag(t), t, m)
      BY <1>2, <2>2, <2>3, <2>8, <2>11, ReadTagIs
    <3> QED
      BY <2>1, <2>9, <2>11, <3>1, ResultOfSame
  <2> QED
    BY <2>10, <2>11
<1>6. CASE s.job.then = "small"
  <2> DEFINE t == [s EXCEPT !.data = 0, !.end = s.job.count]
             v == [t EXCEPT !.data = s.rest, !.used = @ + s.n]
             w == Piece(s, 0, R)
  <2>1. Resume(s) = Delivered(v, s.out \o Window(t, s.rest))
    BY <1>6, Zenon DEF Resume
  <2>2. /\ Natives(s) /\ s.job.at = 0 /\ K = R /\ R > 0
        /\ N = O + R /\ P = U + O + C /\ Holds(s, 0, C, U + O)
    BY <1>6 DEF Asked, Split, C, K, N, O, P, R, U
  <2>3. s.out = SubSeq(src, U + 1, U + O)
    BY <1>6 DEF Asked, Split, U, O
  <2>4. Window(t, s.rest) = w
    BY <1>1 DEF Window, Piece, Typed, Fields, R
  <2>5. /\ DOMAIN v = Fields /\ v.error = s.error /\ v.mem = s.mem /\ v.size = s.size
        /\ v.data = R /\ v.end = C /\ v.fill = s.fill
        /\ v.skip = s.skip /\ v.block = s.block /\ v.pos = s.pos /\ v.eof = s.eof
        /\ v.op = s.op /\ v.n = s.n /\ v.used = U + N /\ v.sought = s.sought
        /\ v.out = s.out /\ v.job = s.job /\ v.rest = s.rest /\ v.todo = s.todo
    BY DEF Typed, Fields, C, N, R, U
  <2> HIDE DEF t, v
  <2>6. R <= C /\ C <= m /\ U + O \in Nat
    BY <1>1, <1>2, <1>3, <1>4, <1>6, <2>2
  <2>7. Holds(s, 0, R, U + O)
    BY <1>1, <2>2, <2>6 DEF Holds
  <2>8. w = SubSeq(src, (U + O) + 1, (U + O) + R)
        /\ w \in Seq(Byte) /\ Len(w) = R
    <3> DEFINE b == U + O
    <3>1. 0 \in Nat /\ 0 + R <= m /\ b \in Nat /\ R \in Nat
      BY <1>1, <2>6
    <3>2. Holds(s, 0, R, b)
      BY <2>7
    <3> HIDE DEF b
    <3>3. w = SubSeq(src, b + 1, b + R) /\ w \in Seq(Byte) /\ Len(w) = R
      BY <3>1, <3>2, PieceIs
    <3> QED
      BY <3>3 DEF b
  <2>9. s.out \o w = SubSeq(src, U + 1, U + N)
        /\ s.out \o w \in Seq(Byte) /\ Len(s.out \o w) = N
    <3> DEFINE a == U + 1
               b == U + O
               c == U + N
    <3>1. a \in 1..(L + 1) /\ b \in (a - 1)..L /\ c \in b..L
      BY <1>1, <1>4, <2>2, <2>6
    <3>2. b + R = c
      BY <1>1, <2>2
    <3>3. s.out = SubSeq(src, a, b) /\ w = SubSeq(src, b + 1, b + R)
      BY <2>3, <2>8
    <3>4. s.out \in Seq(Byte) /\ src \in Seq(Byte)
      BY DEF Typed
    <3> HIDE DEF a, b, c
    <3>5. SubSeq(src, a, b) \o SubSeq(src, b + 1, c) = SubSeq(src, a, c)
      BY <3>1, <3>4, ConcatAdjacentSubSeq DEF L
    <3>6. s.out \o w = SubSeq(src, a, c)
      BY <3>2, <3>3, <3>5
    <3>7. s.out \o w \in Seq(Byte) /\ Len(s.out \o w) = O + Len(w)
      BY <2>8, <3>4, ConcatProperties DEF O
    <3> HIDE DEF w
    <3> QED
      BY <2>2, <2>8, <3>6, <3>7 DEF a, c
  <2> HIDE DEF w
  <2>10. Typed(v, m)
    <3>1. v.data \in 0..m /\ v.end \in 0..m /\ v.used \in Nat
      BY <1>1, <2>5, <2>6
    <3> QED
      BY <2>5, <3>1 DEF Typed
  <2>11. Unread(v) = C - R /\ P = U + N + (C - R) /\ v.data <= v.end
    BY <1>1, <2>2, <2>5, <2>6 DEF Unread
  <2>12. Holds(v, v.data, Unread(v), v.used)
    <3> SUFFICES ASSUME NEW i \in 0..(C - R - 1)
                 PROVE  s.mem[R + i] = src[U + N + i + 1]
      BY <2>5, <2>11 DEF Holds
    <3>1. R + i \in 0..(C - 1) /\ 0 + (R + i) = R + i
      BY <1>1, <2>6
    <3>2. U + O + (R + i) + 1 = U + N + i + 1
      BY <1>1, <2>2
    <3>3. s.mem[0 + (R + i)] = src[U + O + (R + i) + 1]
      BY <2>2, <3>1 DEF Holds
    <3> QED
      BY <3>1, <3>2, <3>3
  <2>13. Good(v, m)
    BY <1>2, <1>4, <2>5, <2>10, <2>11, <2>12 DEF Good, L, P
  <2>17. U + N <= Len(src)
    BY <1>1, <1>4, <2>2, <2>6 DEF L
  <2>14. Taken(v, s.out \o w)
    <3>1. (U + N) - N = U /\ v.n = N
      BY <1>1, <2>5 DEF N
    <3>2. s.out \o w = SubSeq(src, v.used - v.n + 1, v.used)
      BY <2>5, <2>9, <3>1
    <3> QED
      BY <2>5, <2>9, <2>10, <2>17, <3>1, <3>2, TakenIs DEF Typed
  <2>15. Result(Delivered(v, s.out \o w), v, m)
    BY <1>2, <2>2, <2>5, <2>13, <2>14, DeliveredIs DEF Natives
  <2>16. Same(v, s)
    BY <2>5 DEF Same
  <2> QED
    BY <2>1, <2>4, <2>15, <2>16, ResultOfSame
<1>7. CASE s.job.then = "direct"
  <2> DEFINE v == [s EXCEPT !.used = @ + s.n]
  <2>1. Resume(s) = Delivered(v, s.out)
    BY <1>7, Zenon DEF Resume
  <2>2. /\ Natives(s) /\ s.job.at = 0 /\ K = R /\ X = R
        /\ N = O - C + R /\ P = U + O /\ s.data = s.end
    BY <1>7 DEF Asked, Split, C, K, N, O, P, R, U, X
  <2>3. s.out = SubSeq(src, U + 1, U + O)
    BY <1>7 DEF Asked, Split, U, O
  <2>4. C = R /\ N = O
    BY <1>1, <1>2, <2>2
  <2>13. R > 0
    BY <1>7 DEF Asked, Split, R
  <2>5. /\ DOMAIN v = Fields /\ v.error = s.error /\ v.mem = s.mem /\ v.size = s.size
        /\ v.data = s.data /\ v.end = s.end /\ v.fill = s.fill
        /\ v.skip = s.skip /\ v.block = s.block /\ v.pos = s.pos /\ v.eof = s.eof
        /\ v.op = s.op /\ v.n = s.n /\ v.used = U + N /\ v.sought = s.sought
        /\ v.out = s.out /\ v.job = s.job /\ v.rest = s.rest /\ v.todo = s.todo
    BY DEF Typed, Fields, N, U
  <2> HIDE DEF v
  <2>6. Typed(v, m)
    <3>1. v.used \in Nat
      BY <1>1, <2>5
    <3> QED
      BY <2>5, <3>1 DEF Typed
  <2>7. Unread(v) = 0 /\ P = U + N + 0 /\ v.data <= v.end
    <3>1. E - E = 0 /\ E <= E /\ v.data = E /\ v.end = E
      BY <1>1, <2>2, <2>5 DEF E
    <3> QED
      BY <1>1, <2>2, <2>4, <3>1 DEF Unread
  <2>8. Good(v, m)
    <3>1. Holds(v, v.data, Unread(v), v.used)
      BY <2>7 DEF Holds
    <3> QED
      BY <1>2, <1>4, <2>5, <2>6, <2>7, <3>1 DEF Good, L, P
  <2>12. U + N <= Len(src)
    BY <1>1, <1>4, <2>2, <2>4, <2>13 DEF L
  <2>9. Taken(v, s.out)
    <3>1. (U + N) - N = U /\ v.n = N /\ O = Len(s.out)
      BY <1>1, <2>5 DEF N, O
    <3>2. s.out = SubSeq(src, v.used - v.n + 1, v.used)
      BY <2>3, <2>4, <2>5, <3>1
    <3> QED
      BY <2>4, <2>5, <2>6, <2>12, <3>1, <3>2, TakenIs DEF Typed
  <2>10. Result(Delivered(v, s.out), v, m)
    BY <1>2, <2>2, <2>5, <2>8, <2>9, DeliveredIs DEF Natives
  <2>11. Same(v, s)
    BY <2>5 DEF Same
  <2> QED
    BY <2>1, <2>10, <2>11, ResultOfSame
<1>8. CASE s.job.then = "whole"
  <2> DEFINE v == [s EXCEPT !.rest = @ - s.size]
  <2>1. Resume(s) = mpack_reader_skip_using_fill(v)
    BY <1>8, Zenon DEF Resume
  <2>2. /\ Skips(s) /\ K = m /\ R > m /\ P - C + R = U + N
    BY <1>2, <1>8 DEF Asked, C, K, N, P, R, U
  <2>3. C = m
    BY <1>1, <1>2, <1>3, <1>4, <1>8, <2>2
  <2>4. /\ DOMAIN v = Fields /\ v.error = s.error /\ v.mem = s.mem /\ v.size = s.size
        /\ v.data = s.data /\ v.end = s.end /\ v.fill = s.fill
        /\ v.skip = s.skip /\ v.block = s.block /\ v.pos = s.pos /\ v.eof = s.eof
        /\ v.op = s.op /\ v.n = s.n /\ v.used = s.used /\ v.sought = s.sought
        /\ v.out = s.out /\ v.job = s.job /\ v.rest = R - m /\ v.todo = s.todo
    BY <1>2 DEF Typed, Fields, R
  <2> HIDE DEF v
  <2>5. v.rest \in Nat /\ v.rest > 0 /\ P + (R - m) = U + N
    BY <1>1, <2>2, <2>3, <2>4
  <2>6. Typed(v, m)
    BY <2>4, <2>5 DEF Typed
  <2>7. Skips(v) /\ Same(v, s)
    BY <2>2, <2>4 DEF Skips, Same
  <2>8. Result(mpack_reader_skip_using_fill(v), v, m)
    BY <1>2, <1>4, <2>4, <2>5, <2>6, <2>7, SkipUsingFillIs DEF L, N, P, U
  <2> QED
    BY <2>1, <2>7, <2>8, ResultOfSame
<1>9. CASE s.job.then = "part"
  <2> DEFINE v == [s EXCEPT !.end = s.job.count, !.data = s.rest, !.used = @ + s.n]
  <2>1. Resume(s) = NextDiscard(v)
    BY <1>9, Zenon DEF Resume
  <2>2. /\ Skips(s) /\ s.job.at = 0 /\ K = R
        /\ P - C + R = U + N /\ C <= P /\ Holds(s, 0, C, P - C)
    BY <1>9 DEF Asked, C, K, N, P, R, U
  <2>3. R <= C /\ C <= m
    BY <1>1, <1>2, <1>3, <1>4, <1>9, <2>2
  <2>4. /\ DOMAIN v = Fields /\ v.error = s.error /\ v.mem = s.mem /\ v.size = s.size
        /\ v.data = R /\ v.end = C /\ v.fill = s.fill
        /\ v.skip = s.skip /\ v.block = s.block /\ v.pos = s.pos /\ v.eof = s.eof
        /\ v.op = s.op /\ v.n = s.n /\ v.used = U + N /\ v.sought = s.sought
        /\ v.out = s.out /\ v.job = s.job /\ v.rest = s.rest /\ v.todo = s.todo
    BY DEF Typed, Fields, C, N, R, U
  <2> HIDE DEF v
  <2>5. Typed(v, m)
    <3>1. v.data \in 0..m /\ v.end \in 0..m /\ v.used \in Nat
      BY <1>1, <2>3, <2>4
    <3> QED
      BY <2>4, <3>1 DEF Typed
  <2>6. Unread(v) = C - R /\ P = U + N + (C - R) /\ v.data <= v.end
    BY <1>1, <2>2, <2>3, <2>4 DEF Unread
  <2>7. Holds(v, v.data, Unread(v), v.used)
    <3> SUFFICES ASSUME NEW i \in 0..(C - R - 1)
                 PROVE  s.mem[R + i] = src[U + N + i + 1]
      BY <2>4, <2>6 DEF Holds
    <3>1. R + i \in 0..(C - 1) /\ 0 + (R + i) = R + i
      BY <1>1, <2>3
    <3>2. P - C + (R + i) + 1 = U + N + i + 1
      BY <1>1, <2>2
    <3>3. s.mem[0 + (R + i)] = src[P - C + (R + i) + 1]
      BY <2>2, <3>1 DEF Holds
    <3> QED
      BY <3>1, <3>2, <3>3
  <2>8. Good(v, m)
    BY <1>2, <1>4, <2>4, <2>5, <2>6, <2>7 DEF Good, L, P
  <2>9. Skips(v) /\ Same(v, s)
    BY <2>2, <2>4 DEF Skips, Same
  <2>10. Result(NextDiscard(v), v, m)
    BY <1>2, <2>4, <2>8, <2>9, NextDiscardIs
  <2> QED
    BY <2>1, <2>9, <2>10, ResultOfSame
<1> QED
  BY <1>5, <1>6, <1>7, <1>8, <1>9 DEF Asked

\* The fill function gives k bytes, and none only if there was a failure or the end.
LEMMA FilledIs ==
    ASSUME NEW s, NEW m, Typed(s, m), Filling(s), s.pc = "fill", NEW u, NEW k \in Nat,
           During(u, s, k), k <= s.job.max - s.job.count, k > 0 => s.pos + k <= Len(src),
           k = 0 => u.starved \/ s.pos >= Len(src)
    PROVE  Result(Filled(u, k), s, m)
<1> DEFINE t == Took(u, k)
<1>1. /\ DOMAIN u = Fields /\ u.error = s.error /\ u.mem = s.mem /\ u.size = s.size
      /\ u.data = s.data /\ u.end = s.end /\ u.fill = s.fill /\ u.skip = s.skip
      /\ u.block = s.block /\ u.pos = s.pos /\ u.op = s.op /\ u.n = s.n
      /\ u.used = s.used /\ u.sought = s.sought /\ u.out = s.out /\ u.job = s.job
      /\ u.rest = s.rest /\ u.todo = s.todo /\ u.pc = s.pc
  BY DuringIs
<1>2. s.error = "ok"
  BY DEF Filling, Asked
<1>3. Filled(u, k) = IF k = 0 THEN Refused(u, "io")
                     ELSE IF t.job.count >= t.job.min THEN Resume(t) ELSE t
  BY DEF Filled
<1>4. CASE k = 0
  <2> DEFINE v == Refused(u, "io")
  <2>1. Typed(u, m)
    <3>1. u.eof => s.pos >= Len(src)
      <4>1. s.pos + k = s.pos
        BY <1>4 DEF Typed
      <4> QED
        BY <4>1 DEF During
    <3> QED
      BY <1>1, <3>1 DEF Typed
  <2>2. /\ Inv(v, m) /\ Same(v, u) /\ v.pc = "idle" /\ v.error = "io"
        /\ v.used = u.used /\ v.n = u.n /\ v.starved = u.starved
    BY <1>1, <1>2, <2>1, RefusedIs DEF Errors
  <2> HIDE DEF v
  <2>3. v.starved \/ Short(v)
    <3>1. s.pos >= Len(src) => Short(s)
      BY ShortIs
    <3> QED
      BY <1>1, <1>4, <2>2, <3>1 DEF Short
  <2>4. Result(v, u, m)
    BY <2>2, <2>3 DEF Result, Earned
  <2>5. Same(u, s)
    BY <1>1 DEF Same
  <2>6. Filled(u, k) = v
    BY <1>3, <1>4 DEF v
  <2> QED
    BY <2>4, <2>5, <2>6, ResultOfSame
<1>5. CASE k # 0
  <2>1. /\ Typed(t, m) /\ Same(t, s) /\ t.pc = s.pc /\ t.error = "ok" /\ Asked(t)
    BY TookIs
  <2> HIDE DEF t
  <2>2. CASE t.job.count >= t.job.min
    <3>1. Result(Resume(t), t, m)
      BY <2>1, <2>2, ResumeIs
    <3> QED
      BY <1>3, <1>5, <2>1, <2>2, <3>1, ResultOfSame
  <2>3. CASE ~(t.job.count >= t.job.min)
    <3>1. t.job.count < t.job.min
      BY <2>1, <2>3 DEF Typed, JobFits
    <3>2. Filling(t)
      BY <2>1, <3>1 DEF Filling
    <3>3. Result(t, s, m)
      BY <2>1, <3>2 DEF Result, Inv, Earned
    <3> QED
      BY <1>3, <1>5, <2>3, <3>3
  <2> QED
    BY <2>2, <2>3
<1> QED
  BY <1>4, <1>5

\* What fails around the call: memory, or a function of the system.
LEMMA StarvedIs ==
    ASSUME NEW s, NEW m, Typed(s, m), s.error = "ok", NEW e \in {"io", "memory"}
    PROVE  Result(Refused([s EXCEPT !.starved = TRUE], e), s, m)
<1> DEFINE u == [s EXCEPT !.starved = TRUE]
           v == Refused(u, e)
<1>1. /\ DOMAIN u = Fields /\ u.error = s.error /\ u.mem = s.mem /\ u.size = s.size
      /\ u.data = s.data /\ u.end = s.end /\ u.fill = s.fill /\ u.skip = s.skip
      /\ u.block = s.block /\ u.pos = s.pos /\ u.op = s.op /\ u.n = s.n /\ u.eof = s.eof
      /\ u.used = s.used /\ u.sought = s.sought /\ u.out = s.out /\ u.job = s.job
      /\ u.rest = s.rest /\ u.todo = s.todo /\ u.pc = s.pc /\ u.starved
  BY DEF Typed, Fields
<1> HIDE DEF u
<1>2. Typed(u, m)
  BY <1>1 DEF Typed
<1>3. Inv(v, m) /\ Same(v, u) /\ v.pc = "idle" /\ v.error = e /\ v.starved = u.starved
  <2>1. e \in Errors \ {"ok"}
    BY DEF Errors
  <2> QED
    <3>1. u.error = "ok"
      BY <1>1
    <3> QED
      BY <1>2, <2>1, <3>1, RefusedIs
<1> HIDE DEF v
<1>4. Result(v, u, m)
  BY <1>1, <1>3 DEF Result, Earned
<1>5. Same(u, s)
  BY <1>1 DEF Same
<1> QED
  BY <1>4, <1>5, ResultOfSame DEF u, v

LEMMA FillIs ==
    ASSUME NEW m, Inv(r, m), Fill
    PROVE  Result(r', r, m)
<1> DEFINE a == Available(r)
           n == r.job.max - r.job.count
<1>1. r.pc = "fill" /\ Typed(r, m) /\ Filling(r) /\ r.error = "ok"
  BY Zenon DEF Fill, Inv, Filling, Asked, Good
<1>2. /\ r.job.count \in Nat /\ r.job.max \in Nat /\ r.job.count < r.job.max
      /\ r.pos \in Nat /\ Len(src) \in Nat
  BY <1>1, LenProperties DEF Typed, JobFits, Filling, Asked
<1>3. /\ a \in Nat /\ a <= n /\ n > 0 /\ (a > 0 => r.pos + a <= Len(src))
      /\ a < n => r.pos + a >= Len(src)
  BY <1>1, <1>2, AvailableIs
<1>4. \A k \in Nat : k <= a =>
          /\ k <= n /\ (k > 0 => r.pos + k <= Len(src))
          /\ (a = 0 => r.pos >= Len(src))
          /\ (k = a /\ a < n => r.pos + k >= Len(src))
  <2> DEFINE P == r.pos
             L == Len(src)
  <2>1. /\ a \in Nat /\ n \in Int /\ a <= n /\ n > 0 /\ (a > 0 => P + a <= L)
        /\ (a < n => P + a >= L) /\ P \in Nat /\ L \in Nat
    BY <1>2, <1>3
  <2> HIDE DEF a, n, P, L
  <2>3. \A k \in Nat : k <= a =>
            /\ k <= n /\ (k > 0 => P + k <= L)
            /\ (a = 0 => P >= L)
            /\ (k = a /\ a < n => P + k >= L)
    BY <2>1
  <2> QED
    BY <2>3 DEF P, L
<1>5. \A k \in Pieces : k \in Nat
  BY ReaderAssumption
<1>6. ASSUME NEW k \in Nat, k <= a, NEW u, During(u, r, k), k = 0 => u.starved \/ a = 0,
             r' = Filled(u, k)
      PROVE  Result(r', r, m)
  BY <1>1, <1>4, <1>6, FilledIs
<1>7. ASSUME NEW k \in Nat, k <= a, NEW b, k = 0 => b \/ a = 0,
             r' = Filled([r EXCEPT !.starved = b], k)
      PROVE  Result(r', r, m)
  <2> DEFINE u == [r EXCEPT !.starved = b]
  <2>1. DOMAIN u = Fields /\ (\A f \in Fields \ {"eof", "starved"} : u[f] = r[f])
        /\ u.eof = r.eof /\ u.starved = b
    BY <1>1 DEF Typed, Fields
  <2> HIDE DEF u
  <2>2. u.eof => r.pos + k >= Len(src)
    BY <1>1, <1>2, <2>1 DEF Typed
  <2>3. During(u, r, k)
    BY <2>1, <2>2 DEF During
  <2> QED
    BY <1>6, <1>7, <2>1, <2>3 DEF u
<1>8. CASE r' = Refused([r EXCEPT !.starved = TRUE], "io")
  BY <1>1, <1>8, StarvedIs
<1>9. ASSUME NEW k \in {0, a} \cup {i \in Pieces : i < a},
             r' = Filled([r EXCEPT !.starved = (k = 0 /\ a > 0)], k)
      PROVE  Result(r', r, m)
  <2>1. k \in Nat /\ k <= a
    BY <1>3, <1>5, <1>9
  <2>2. k = 0 => (k = 0 /\ a > 0) \/ a = 0
    BY <1>3
  <2> QED
    BY <1>7, <1>9, <2>1, <2>2
<1>10. CASE r.eof /\ r' = Refused(r, "eof")
  <2> DEFINE v == Refused(r, "eof")
  <2>1. Inv(v, m) /\ Same(v, r) /\ v.pc = "idle" /\ v.error = "eof" /\ v.used = r.used
        /\ v.n = r.n
    BY <1>1, RefusedIs DEF Errors
  <2> HIDE DEF v
  <2>2. Short(r)
    BY <1>1, <1>10, ShortIs DEF Typed
  <2>3. Result(v, r, m)
    BY <2>1, <2>2 DEF Result, Earned, Short
  <2> QED
    BY <1>10, <2>3 DEF v
<1>11. ASSUME NEW k \in {0} \cup Pieces, k < a, r' = Filled([r EXCEPT !.starved = (k = 0)], k)
       PROVE  Result(r', r, m)
  <2>1. k \in Nat /\ k <= a
    BY <1>3, <1>5, <1>11
  <2> QED
    BY <1>7, <1>11, <2>1
<1>12. CASE r' = Filled([r EXCEPT !.eof = a < n], a)
  <2> DEFINE u == [r EXCEPT !.eof = a < n]
  <2>1. DOMAIN u = Fields /\ (\A f \in Fields \ {"eof", "starved"} : u[f] = r[f])
        /\ (u.eof <=> a < n)
    BY <1>1 DEF Typed, Fields
  <2> HIDE DEF u
  <2>2. u.eof => r.pos + a >= Len(src)
    BY <1>3, <2>1
  <2>3. During(u, r, a)
    BY <2>1, <2>2 DEF During
  <2>4. a <= a
    BY <1>3
  <2> QED
    BY <1>3, <1>6, <1>12, <2>3, <2>4 DEF u
<1>13. CASE FileFill
  BY <1>10, <1>11, <1>12, <1>13 DEF FileFill
<1>14. CASE CallbackFill
  BY <1>8, <1>9, <1>14 DEF CallbackFill
<1> QED
  BY <1>13, <1>14 DEF Fill

LEMMA SeekIs ==
    ASSUME NEW m, Inv(r, m), Seek
    PROVE  Result(r', r, m)
<1>1. /\ Typed(r, m) /\ r.error = "ok" /\ r.fill = "file" /\ Skips(r) /\ r.data = r.end
      /\ r.rest > 0 /\ r.pos + r.rest = r.used + r.n /\ (r.pos <= Len(src) \/ r.sought)
  BY Zenon DEF Seek, Inv
<1>2. CASE r' = Refused([r EXCEPT !.starved = TRUE], "io")
  BY <1>1, <1>2, StarvedIs
<1>3. CASE r' = mpack_reader_skip_using_fill(r)
  BY <1>1, <1>3, SkipUsingFillIs
<1>4. CASE r' = NextDiscard([r EXCEPT !.pos = @ + r.rest, !.used = @ + r.n, !.eof = FALSE,
                                      !.sought = TRUE])
  <2> DEFINE v == [r EXCEPT !.pos = @ + r.rest, !.used = @ + r.n, !.eof = FALSE,
                            !.sought = TRUE]
  <2>1. /\ DOMAIN v = Fields /\ v.error = r.error /\ v.mem = r.mem /\ v.size = r.size
        /\ v.data = r.data /\ v.end = r.end /\ v.fill = r.fill
        /\ v.skip = r.skip /\ v.block = r.block /\ v.pos = r.pos + r.rest /\ ~v.eof
        /\ v.op = r.op /\ v.n = r.n /\ v.used = r.used + r.n /\ v.sought
        /\ v.out = r.out /\ v.job = r.job /\ v.rest = r.rest /\ v.todo = r.todo
    BY <1>1 DEF Typed, Fields
  <2> HIDE DEF v
  <2>2. Typed(v, m)
    <3>1. r.pos + r.rest \in Nat /\ r.used + r.n \in Nat
      BY <1>1 DEF Typed
    <3> QED
      BY <1>1, <2>1, <3>1 DEF Typed
  <2>3. Good(v, m)
    <3>1. Unread(v) = 0 /\ v.data <= v.end /\ v.pos = v.used + Unread(v)
      <4>1. r.end \in Nat /\ r.used \in Nat /\ r.n \in Nat
        BY <1>1 DEF Typed
      <4>2. r.end - r.end = 0 /\ r.end <= r.end /\ (r.used + r.n) + 0 = r.used + r.n
        BY <4>1
      <4> QED
        BY <1>1, <2>1, <4>2 DEF Unread
    <3>2. Holds(v, v.data, Unread(v), v.used)
      BY <3>1 DEF Holds
    <3> QED
      BY <1>1, <2>1, <2>2, <3>1, <3>2 DEF Good
  <2>4. Skips(v) /\ Same(v, r)
    BY <1>1, <2>1 DEF Skips, Same
  <2>5. Result(NextDiscard(v), v, m)
    BY <1>1, <2>1, <2>3, <2>4, NextDiscardIs
  <2> QED
    BY <1>4, <2>4, <2>5, ResultOfSame DEF v
<1> QED
  BY <1>2, <1>3, <1>4 DEF Seek

LEMMA MoreIs ==
    ASSUME NEW m, Inv(r, m), More
    PROVE  Result(r', r, m)
<1> DEFINE s == [r EXCEPT !.pc = "idle"]
<1>1. Good(r, m) /\ r.error = "ok" /\ r.op = "discard" /\ r.todo > 0 /\ Typed(r, m)
  BY Zenon DEF More, Inv, Good
<1>2. /\ DOMAIN s = Fields /\ s.error = r.error /\ s.mem = r.mem /\ s.size = r.size
      /\ s.data = r.data /\ s.end = r.end /\ s.fill = r.fill
      /\ s.skip = r.skip /\ s.block = r.block /\ s.pos = r.pos /\ s.eof = r.eof
      /\ s.op = r.op /\ s.n = r.n /\ s.used = r.used /\ s.sought = r.sought
      /\ s.out = r.out /\ s.job = r.job /\ s.rest = r.rest /\ s.todo = r.todo
  BY <1>1 DEF Typed, Fields
<1> HIDE DEF s
<1>3. Good(s, m)
  BY <1>1, <1>2, GoodKept DEF Typed
<1>4. Result(mpack_read_tag(s), s, m)
  BY <1>1, <1>2, <1>3, ReadTagIs
<1>5. Same(s, r)
  BY <1>2 DEF Same
<1> QED
  BY <1>4, <1>5, ResultOfSame DEF More, s

-----------------------------------------------------------------------------
(* Calls.                                                                  *)

\* ErrorsAreEarned, said of a step from s to t.
EarnedFrom(t, s) ==
    /\ t.error = "io" => t.starved \/ Short(t)
    /\ t.error = "eof" => Short(t)
    /\ t.error = "memory" => t.starved
    /\ t.error = "invalid" => \/ s.fill = "none" /\ (Short(t) \/ s.pos < Len(src))
                              \/ t.used < Len(src) /\ src[t.used + 1] = Code(1)
                              \/ t.op = "timestamp"
    /\ t.error = "too_big" => (t.op = "inplace" /\ t.n > s.size) \/ t.op = "cstr"
    /\ t.error = "type" => \E i \in (t.used - t.n + 1)..t.used : src[i] = 0
    /\ t.error = "bug" => s.size < MinBuffer

\* ErrorIsFinal, said of a step from s to t.
FinalFrom(t, s) ==
    /\ t.error = s.error /\ t.used = s.used
    /\ t.got.kind \in {"nothing", "bytes", "left"}
    /\ t.got.kind = "bytes" => \A i \in DOMAIN t.got.bytes : t.got.bytes[i] = 0
    /\ t.got.kind = "left" => t.got.left = 0

\* A step from s to t.
Step(t, s, m) ==
    /\ Inv(t, m)
    /\ s.error = "ok" => EarnedFrom(t, s)
    /\ s.error # "ok" => FinalFrom(t, s)

LEMMA ResultIsStep ==
    ASSUME NEW t, NEW s, NEW m, Result(t, s, m), s.error = "ok"
    PROVE  Step(t, s, m) /\ t.size = s.size
BY DEF Result, Step, Same, Earned, EarnedFrom

\* A call that comes back after an error.
LEMMA FinalIs ==
    ASSUME NEW s, NEW m, Good(s, m), s.error # "ok", NEW t, t.error = s.error,
           t.used = s.used, t.size = s.size, NEW got, got.kind \in {"nothing", "bytes", "left"},
           got.kind = "bytes" => \A i \in DOMAIN got.bytes : got.bytes[i] = 0,
           got.kind = "left" => got.left = 0
    PROVE  Step(Answer(s, got), t, m) /\ Answer(s, got).size = t.size
<1> DEFINE v == Answer(s, got)
<1>1. Typed(s, m) /\ s.data = s.end
  BY DEF Good
<1>2. /\ DOMAIN v = Fields /\ v.error = s.error /\ v.mem = s.mem /\ v.size = s.size
      /\ v.data = s.data /\ v.end = s.end /\ v.fill = s.fill /\ v.skip = s.skip
      /\ v.block = s.block /\ v.pos = s.pos /\ v.eof = s.eof /\ v.op = s.op /\ v.n = s.n
      /\ v.used = s.used /\ v.sought = s.sought
      /\ v.pc = "idle" /\ v.got = got /\ v.todo = 0 /\ v.rest = 0 /\ v.out = <<>>
      /\ v.job = NoJob
  BY <1>1 DEF Answer, Typed, Fields
<1> HIDE DEF v
<1>3. Typed(v, m)
  <2>1. JobFits(v.job, v.size) /\ v.out \in Seq(Byte)
    BY <1>1, <1>2, NoJobFits DEF Typed
  <2> QED
    BY <1>1, <1>2, <2>1 DEF Typed
<1>4. v.data <= v.end
  BY <1>1, <1>2 DEF Typed
<1>5. Good(v, m) /\ Told(v)
  BY <1>1, <1>2, <1>3, <1>4 DEF Good, Told
<1>6. Inv(v, m)
  BY <1>1, <1>2, <1>3, <1>5 DEF Inv
<1>7. FinalFrom(v, t)
  BY <1>2 DEF FinalFrom
<1> QED
  BY <1>2, <1>6, <1>7 DEF Step, v

LEMMA NothingIs ==
    ASSUME NEW s, NEW m, Good(s, m), s.error # "ok", NEW t, t.error = s.error,
           t.used = s.used, t.size = s.size
    PROVE  Step(Answer(s, Nothing), t, m) /\ Answer(s, Nothing).size = t.size
<1>1. Nothing.kind = "nothing"
  BY DEF Nothing
<1> QED
  BY <1>1, FinalIs

LEMMA NativeFinal ==
    ASSUME NEW s, NEW m, Good(s, m), s.error # "ok", Natives(s), NEW n \in Nat
    PROVE  Step(mpack_read_native(s, n), s, m) /\ mpack_read_native(s, n).size = s.size
<1> DEFINE t == [s EXCEPT !.n = n]
           u == Take(t, n)
           w == Window(t, n)
<1>1. mpack_read_native(s, n) = IF n > Unread(s) THEN mpack_read_native_straddle(t, n)
                                ELSE Delivered(u, w)
  BY DEF mpack_read_native
<1>2. /\ DOMAIN t = Fields /\ t.error = s.error /\ t.mem = s.mem /\ t.size = s.size
      /\ t.data = s.data /\ t.end = s.end /\ t.fill = s.fill /\ t.skip = s.skip
      /\ t.block = s.block /\ t.pos = s.pos /\ t.eof = s.eof /\ t.op = s.op /\ t.n = n
      /\ t.used = s.used /\ t.sought = s.sought /\ t.out = s.out /\ t.job = s.job
      /\ t.rest = s.rest /\ t.todo = s.todo
      /\ s.rest \in Nat /\ s.todo \in Nat /\ s.used \in Nat /\ s.end \in Nat
      /\ s.data = s.end
  BY DEF Good, Typed, Fields
<1> HIDE DEF t
<1>3. Good(t, m) /\ Natives(t)
  BY <1>2, GoodKept DEF Natives
<1>4. Unread(s) = 0 /\ Unread(t) = 0
  BY <1>2 DEF Unread
<1>5. ASSUME NEW v, Good(v, m), v.error = s.error, v.used = s.used, v.size = s.size, NEW got,
             Zeroed(got), mpack_read_native(s, n) = Answer(v, got)
      PROVE  Step(mpack_read_native(s, n), s, m) /\ mpack_read_native(s, n).size = s.size
  <2>1. /\ got.kind \in {"nothing", "bytes", "left"}
        /\ got.kind = "bytes" => \A i \in DOMAIN got.bytes : got.bytes[i] = 0
        /\ got.kind = "left" => got.left = 0
    BY <1>5 DEF Zeroed
  <2> QED
    BY <1>5, <2>1, FinalIs
<1>6. CASE n > 0
  <2>1. mpack_read_native(s, n) = Zeros(t, n)
    BY <1>1, <1>2, <1>4, <1>6 DEF mpack_read_native_straddle
  <2>2. PICK got : Zeroed(got) /\ Zeros(t, n) = Answer(t, got)
    BY <1>2, <1>3, ZerosAre
  <2> QED
    BY <1>2, <1>3, <1>5, <2>1, <2>2
<1>7. CASE n = 0
  <2>1. /\ DOMAIN u = Fields /\ u.error = t.error /\ u.mem = t.mem /\ u.size = t.size
        /\ u.data = t.data /\ u.end = t.end /\ u.fill = t.fill /\ u.skip = t.skip
        /\ u.block = t.block /\ u.pos = t.pos /\ u.eof = t.eof /\ u.op = t.op /\ u.n = t.n
        /\ u.used = t.used /\ u.sought = t.sought /\ u.out = t.out /\ u.job = t.job
        /\ u.rest = t.rest /\ u.todo = t.todo
    <3>1. t.data + n = t.data /\ t.used + n = t.used
      BY <1>2, <1>7
    <3> QED
      BY <1>2, <3>1 DEF Take, Fields
  <2>2. \A i \in DOMAIN w : w[i] = 0
    BY <1>7 DEF Window
  <2>3. mpack_read_native(s, n) = Delivered(u, w)
    BY <1>1, <1>4, <1>7
  <2> HIDE DEF u, w
  <2>4. Good(u, m) /\ Natives(u)
    BY <1>2, <1>3, <2>1, GoodKept DEF Natives
  <2>5. PICK got : Zeroed(got) /\ Delivered(u, w) = Answer(u, got)
    BY <1>2, <2>1, <2>2, <2>4, ZerosDelivered
  <2> QED
    BY <1>2, <1>5, <2>1, <2>3, <2>4, <2>5
<1> QED
  BY <1>6, <1>7

\* A call begins; k is what it has to discard.
Begun(op, k) == [Begin(op) EXCEPT !.todo = k]

LEMMA BegunIs ==
    ASSUME NEW m, Inv(r, m), r.pc = "idle", NEW op, NEW k \in Nat, NEW s,
           s = Begun(op, k) \/ (s = Begin(op) /\ k = r.todo)
    PROVE  /\ Good(s, m) /\ Same(s, r) /\ s.error = r.error /\ s.used = r.used /\ s.op = op
           /\ s.size = r.size /\ s.todo = k /\ s.pos = r.pos /\ DOMAIN s = Fields
<1>1. Good(r, m) /\ Typed(r, m)
  BY Zenon DEF Inv
<1>2. /\ DOMAIN s = Fields /\ s.error = r.error /\ s.mem = r.mem /\ s.size = r.size
      /\ s.data = r.data /\ s.end = r.end /\ s.fill = r.fill
      /\ s.skip = r.skip /\ s.block = r.block /\ s.pos = r.pos /\ s.eof = r.eof
      /\ s.op = op /\ s.n = 0 /\ s.used = r.used /\ s.sought = r.sought
      /\ s.out = r.out /\ s.job = r.job /\ s.rest = r.rest /\ s.todo = k
  <2>1. CASE s = Begun(op, k)
    BY <1>1, <2>1 DEF Begun, Begin, Typed, Fields
  <2>2. CASE s = Begin(op) /\ k = r.todo
    BY <1>1, <2>2 DEF Begin, Typed, Fields
  <2> QED
    BY <2>1, <2>2
<1>3. Good(s, m)
  <2>1. s.n \in Nat /\ s.rest \in Nat /\ s.todo \in Nat
    BY <1>1, <1>2 DEF Typed
  <2> QED
    BY <1>1, <1>2, <2>1, GoodKept
<1> QED
  BY <1>2, <1>3 DEF Same

\* A call that goes on from where it began.
LEMMA CallIs ==
    ASSUME NEW m, NEW s, Same(s, r), s.error = r.error, s.used = r.used, s.size = r.size, NEW t,
           r.error = "ok" => Result(t, s, m),
           r.error # "ok" => Step(t, s, m) /\ t.size = s.size
    PROVE  Step(t, r, m) /\ t.size = r.size
<1>1. CASE r.error = "ok"
  BY <1>1, ResultOfSame, ResultIsStep
<1>2. CASE r.error # "ok"
  BY <1>2 DEF Step, FinalFrom
<1> QED
  BY <1>1, <1>2

\* A reader that was initialised: its first bytes may be there already.
LEMMA FreshIs ==
    ASSUME NEW s, s.error = "ok", src \in Seq(Byte), NEW m \in Nat, NEW t, DOMAIN t = Fields,
           t.error \in {"ok", "memory", "io"}, t.error # "ok" => t.starved /\ t.end = 0,
           t.mem \in [0..(m - 1) -> Byte], t.size \in Nat, t.data = 0, t.end \in 0..m,
           t.pos = t.end, t.end <= Len(src), Holds(t, 0, t.end, 0),
           t.fill \in {"none", "file"}, t.fill = "file" => m = t.size /\ t.size >= MinBuffer,
           t.skip => t.fill = "file", t.block \in {"none", "live", "freed"}, ~t.eof,
           t.pc = "idle", t.n = 0, t.rest = 0, t.todo = 0, t.out = <<>>, t.got = Nothing,
           t.job = NoJob, t.used = 0
    PROVE  Step(t, s, m)
<1>1. JobFits(t.job, t.size) /\ t.out \in Seq(Byte) /\ Len(src) \in Nat
  BY NoJobFits, LenProperties
<1>2. t.error \in Errors
  BY DEF Errors
<1>3. Typed(t, m)
  BY <1>1, <1>2 DEF Typed
<1>4. Unread(t) = t.end /\ t.end \in Nat /\ 0 <= t.end /\ t.end = 0 + t.end
  <2>1. t.end \in Nat
    OBVIOUS
  <2>2. \A e \in Nat : e - 0 = e /\ 0 <= e /\ e = 0 + e
    OBVIOUS
  <2> QED
    BY <2>1, <2>2 DEF Unread
<1>5. Good(t, m)
  BY <1>3, <1>4 DEF Good
<1>6. Told(t)
  BY DEF Told, Nothing
<1>7. Inv(t, m)
  BY <1>3, <1>5, <1>6 DEF Inv, Good
<1>8. EarnedFrom(t, s)
  BY DEF EarnedFrom
<1> QED
  BY <1>7, <1>8 DEF Step

LEMMA BlankIs ==
    ASSUME NEW size \in Nat, NEW fill, NEW block
    PROVE  LET t == Blank(size, fill, block)
           IN /\ DOMAIN t = Fields /\ t.error = "ok" /\ t.mem \in [0..(size - 1) -> Byte]
              /\ t.size = size /\ t.data = 0 /\ t.end = 0 /\ t.fill = fill
              /\ (t.skip => fill = "file") /\ t.block = block /\ t.pos = 0 /\ ~t.eof
              /\ t.pc = "idle" /\ t.op = "init" /\ t.n = 0 /\ t.rest = 0 /\ t.todo = 0
              /\ t.out = <<>> /\ t.got = Nothing /\ t.job = NoJob /\ t.used = 0
              /\ ~t.starved /\ ~t.sought /\ ~t.late
<1>1. 0 \in Byte
  BY BaseIsNat DEF Byte
<1> QED
  BY <1>1 DEF Blank, Fields

LEMMA NothingYet ==
    ASSUME NEW m, Inv(r, m), r.pc = "none"
    PROVE  r.error = "ok" /\ src \in Seq(Byte) /\ Len(src) \in Nat
<1>1. Typed(r, m) /\ r = [Blank(0, "none", "none") EXCEPT !.pc = "none"]
  BY Zenon DEF Inv
<1>2. r.error = "ok"
  BY <1>1 DEF Blank
<1> QED
  BY <1>1, <1>2, LenProperties DEF Typed

LEMMA InitDataIs ==
    ASSUME NEW m \in Nat, Inv(r, m), mpack_reader_init_data
    PROVE  \E k \in Nat : Step(r', r, k) /\ r'.size \in {0, k}
<1> DEFINE t == [Blank(0, "none", "none") EXCEPT
                    !.mem = [i \in 0..(Len(src) - 1) |-> src[i + 1]],
                    !.end = Len(src), !.pos = Len(src)]
           mem == [i \in 0..(Len(src) - 1) |-> src[i + 1]]
<1>1. r.error = "ok" /\ src \in Seq(Byte) /\ Len(src) \in Nat /\ r' = t
  BY NothingYet DEF mpack_reader_init_data, Opened
<1>2. /\ DOMAIN t = Fields /\ t.error = "ok" /\ t.mem = mem
      /\ t.size = 0 /\ t.data = 0 /\ t.end = Len(src) /\ t.fill = "none"
      /\ ~t.skip /\ t.block = "none" /\ t.pos = Len(src) /\ ~t.eof
      /\ t.pc = "idle" /\ t.n = 0 /\ t.rest = 0 /\ t.todo = 0
      /\ t.out = <<>> /\ t.got = Nothing /\ t.job = NoJob /\ t.used = 0
  BY DEF Blank, Fields
<1>3. \A i \in 0..(Len(src) - 1) : src[i + 1] \in Byte /\ 0 + i = i
  BY <1>1, ElementOfSeq
<1>4. mem \in [0..(Len(src) - 1) -> Byte]
  BY <1>3
<1>5. \A i \in 0..(Len(src) - 1) : mem[0 + i] = src[0 + i + 1]
  BY <1>3
<1> HIDE DEF t, mem
<1>6. Holds(t, 0, t.end, 0)
  BY <1>2, <1>5 DEF Holds
<1>7. t.end \in 0..Len(src) /\ t.end <= Len(src) /\ t.size \in Nat
  BY <1>1, <1>2
<1>8. Step(t, r, Len(src))
  BY <1>1, <1>2, <1>4, <1>6, <1>7, FreshIs
<1> QED
  BY <1>1, <1>2, <1>8

LEMMA InitIs ==
    ASSUME NEW m \in Nat, Inv(r, m), mpack_reader_init
    PROVE  \E k \in Nat : Step(r', r, k) /\ r'.size \in {0, k}
<1>1. r.error = "ok" /\ src \in Seq(Byte) /\ Len(src) \in Nat
  BY NothingYet DEF mpack_reader_init, Opened
<1>20. PICK size \in FixedSizes : \E n \in {0, Min({size, Len(src)})} :
          r' = [Blank(size, "none", "none") EXCEPT
                    !.mem = [i \in DOMAIN @ |-> IF i < n THEN src[i + 1] ELSE 0],
                    !.end = n, !.pos = n]
  BY Zenon DEF mpack_reader_init, Opened
<1>2. PICK n \in {0, Min({size, Len(src)})} :
          r' = [Blank(size, "none", "none") EXCEPT
                    !.mem = [i \in DOMAIN @ |-> IF i < n THEN src[i + 1] ELSE 0],
                    !.end = n, !.pos = n]
  BY <1>20
<1> DEFINE b == Blank(size, "none", "none")
           mem == [i \in DOMAIN b.mem |-> IF i < n THEN src[i + 1] ELSE 0]
           t == [b EXCEPT !.mem = mem, !.end = n, !.pos = n]
<1>3. size \in Nat
  BY ReaderAssumption
<1>4. n \in Nat /\ n <= size /\ n <= Len(src)
  <2>1. Min({size, Len(src)}) = IF size <= Len(src) THEN size ELSE Len(src)
    BY <1>1, <1>3 DEF Min
  <2> QED
    BY <1>1, <1>2, <1>3, <2>1
<1>5. /\ DOMAIN b = Fields /\ b.error = "ok" /\ b.mem \in [0..(size - 1) -> Byte]
      /\ b.size = size /\ b.data = 0 /\ b.fill = "none"
      /\ ~b.skip /\ b.block = "none" /\ ~b.eof
      /\ b.pc = "idle" /\ b.n = 0 /\ b.rest = 0 /\ b.todo = 0
      /\ b.out = <<>> /\ b.got = Nothing /\ b.job = NoJob /\ b.used = 0
  BY <1>3, BlankIs
<1>6. r' = t
  BY <1>2
<1> HIDE DEF b
<1>7. /\ DOMAIN t = Fields /\ t.error = "ok" /\ t.mem = mem
      /\ t.size = size /\ t.data = 0 /\ t.end = n /\ t.fill = "none"
      /\ ~t.skip /\ t.block = "none" /\ t.pos = n /\ ~t.eof
      /\ t.pc = "idle" /\ t.n = 0 /\ t.rest = 0 /\ t.todo = 0
      /\ t.out = <<>> /\ t.got = Nothing /\ t.job = NoJob /\ t.used = 0
  BY <1>5 DEF Fields
<1>8. \A i \in 0..(size - 1) : (IF i < n THEN src[i + 1] ELSE 0) \in Byte
  <2> SUFFICES ASSUME NEW i \in 0..(size - 1)
               PROVE  (IF i < n THEN src[i + 1] ELSE 0) \in Byte
    OBVIOUS
  <2>1. CASE i < n
    <3>1. i + 1 \in 1..Len(src)
      BY <1>1, <1>3, <1>4, <2>1
    <3> QED
      BY <1>1, <2>1, <3>1, ElementOfSeq
  <2>2. CASE ~(i < n)
    BY <2>2, BaseIsNat DEF Byte
  <2> QED
    BY <2>1, <2>2
<1>9. DOMAIN b.mem = 0..(size - 1)
  BY <1>5
<1>10. mem \in [0..(size - 1) -> Byte]
  BY <1>8, <1>9
<1>11. \A i \in 0..(n - 1) : mem[0 + i] = src[0 + i + 1]
  <2> SUFFICES ASSUME NEW i \in 0..(n - 1)
               PROVE  mem[0 + i] = src[0 + i + 1]
    OBVIOUS
  <2>1. i \in 0..(size - 1) /\ i < n /\ 0 + i = i
    BY <1>3, <1>4
  <2> QED
    BY <1>9, <2>1
<1> HIDE DEF t, mem
<1>12. Holds(t, 0, t.end, 0)
  BY <1>7, <1>11 DEF Holds
<1>13. t.end \in 0..size
  BY <1>3, <1>4, <1>7
<1>14. Step(t, r, size)
  BY <1>1, <1>3, <1>4, <1>7, <1>10, <1>12, <1>13, FreshIs
<1> QED
  BY <1>3, <1>6, <1>7, <1>14

LEMMA InitFilenameIs ==
    ASSUME NEW m \in Nat, Inv(r, m), mpack_reader_init_filename
    PROVE  \E k \in Nat : Step(r', r, k) /\ r'.size \in {0, k}
<1>1. r.error = "ok" /\ src \in Seq(Byte) /\ Len(src) \in Nat
  BY NothingYet DEF mpack_reader_init_filename, mpack_reader_init_stdfile, Opened
<1>2. Capacity \in Nat /\ Capacity >= MinBuffer
  BY ReaderAssumption
<1>3. CASE r' = Blank(Capacity, "file", "live")
  <2> DEFINE t == Blank(Capacity, "file", "live")
  <2>1. /\ DOMAIN t = Fields /\ t.error = "ok" /\ t.mem \in [0..(Capacity - 1) -> Byte]
        /\ t.size = Capacity /\ t.data = 0 /\ t.end = 0 /\ t.fill = "file"
        /\ t.block = "live" /\ t.pos = 0 /\ ~t.eof
        /\ t.pc = "idle" /\ t.n = 0 /\ t.rest = 0 /\ t.todo = 0
        /\ t.out = <<>> /\ t.got = Nothing /\ t.job = NoJob /\ t.used = 0
    BY <1>2, BlankIs
  <2> HIDE DEF t
  <2>2. t.end \in 0..Capacity /\ t.end <= Len(src)
    BY <1>1, <1>2, <2>1
  <2>3. Holds(t, 0, t.end, 0)
    BY <2>1 DEF Holds
  <2>4. Step(t, r, Capacity)
    BY <1>1, <1>2, <2>1, <2>2, <2>3, FreshIs
  <2> QED
    BY <1>2, <1>3, <2>1, <2>4 DEF t
<1>4. ASSUME NEW e \in {"memory", "io"},
             r' = [Blank(0, "none", "none") EXCEPT !.error = e, !.starved = TRUE]
      PROVE  \E k \in Nat : Step(r', r, k) /\ r'.size \in {0, k}
  <2> DEFINE b == Blank(0, "none", "none")
             t == [b EXCEPT !.error = e, !.starved = TRUE]
  <2>1. /\ DOMAIN b = Fields /\ b.mem \in [0..(0 - 1) -> Byte]
        /\ b.size = 0 /\ b.data = 0 /\ b.end = 0 /\ b.fill = "none" /\ ~b.skip
        /\ b.block = "none" /\ b.pos = 0 /\ ~b.eof
        /\ b.pc = "idle" /\ b.n = 0 /\ b.rest = 0 /\ b.todo = 0
        /\ b.out = <<>> /\ b.got = Nothing /\ b.job = NoJob /\ b.used = 0
    BY BlankIs
  <2>2. r' = t
    BY <1>4
  <2> HIDE DEF b
  <2>3. /\ DOMAIN t = Fields /\ t.error = e /\ t.mem \in [0..(0 - 1) -> Byte]
        /\ t.size = 0 /\ t.data = 0 /\ t.end = 0 /\ t.fill = "none" /\ ~t.skip
        /\ t.block = "none" /\ t.pos = 0 /\ ~t.eof /\ t.starved
        /\ t.pc = "idle" /\ t.n = 0 /\ t.rest = 0 /\ t.todo = 0
        /\ t.out = <<>> /\ t.got = Nothing /\ t.job = NoJob /\ t.used = 0
    BY <2>1 DEF Fields
  <2> HIDE DEF t
  <2>4. t.end \in 0..0 /\ t.end <= Len(src) /\ Holds(t, 0, t.end, 0)
    BY <1>1, <2>3 DEF Holds
  <2>5. Step(t, r, 0)
    BY <1>1, <1>4, <2>3, <2>4, FreshIs
  <2> QED
    BY <2>2, <2>3, <2>5
<1> QED
  BY <1>3, <1>4 DEF mpack_reader_init_filename, mpack_reader_init_stdfile, Opened

LEMMA SetFillIs ==
    ASSUME NEW m \in Nat, Inv(r, m), r.size \in {0, m}, mpack_reader_set_fill
    PROVE  Step(r', r, m) /\ r'.size = r.size
<1>1. Good(r, m) /\ Told(r) /\ Typed(r, m) /\ r.error = "ok"
  BY Zenon DEF Inv, mpack_reader_set_fill
<1>2. r' = IF r.size < MinBuffer THEN Flag(r, "bug") ELSE [r EXCEPT !.fill = "callback"]
  BY DEF mpack_reader_set_fill
<1>3. MinBuffer \in Nat /\ MinBuffer >= 9 /\ r.size \in Nat
  BY <1>1, ReaderAssumption DEF Typed
<1>4. CASE r.size < MinBuffer
  <2> DEFINE t == Flag(r, "bug")
  <2>1. /\ DOMAIN t = Fields /\ t.error = "bug" /\ t.mem = r.mem /\ t.size = r.size
        /\ t.data = r.data /\ t.end = r.data /\ t.fill = r.fill /\ t.skip = r.skip
        /\ t.block = r.block /\ t.pos = r.pos /\ t.eof = r.eof /\ t.op = r.op /\ t.n = r.n
        /\ t.used = r.used /\ t.sought = r.sought
        /\ t.pc = r.pc /\ t.got = r.got /\ t.todo = r.todo /\ t.rest = r.rest
        /\ t.out = r.out /\ t.job = r.job
    BY <1>1 DEF Flag, Typed, Fields
  <2> HIDE DEF t
  <2>2. Typed(t, m)
    BY <1>1, <2>1 DEF Typed, Errors
  <2>3. Good(t, m) /\ Told(t)
    BY <1>1, <2>1, <2>2 DEF Good, Told, Typed
  <2>4. Inv(t, m)
    BY <2>1, <2>2, <2>3 DEF Inv, mpack_reader_set_fill
  <2>5. EarnedFrom(t, r)
    BY <1>4, <2>1 DEF EarnedFrom
  <2>6. r' = t
    BY <1>2, <1>4 DEF t
  <2> QED
    BY <1>1, <2>1, <2>4, <2>5, <2>6 DEF Step
<1>5. CASE ~(r.size < MinBuffer)
  <2> DEFINE t == [r EXCEPT !.fill = "callback"]
  <2>1. /\ DOMAIN t = Fields /\ t.error = r.error /\ t.mem = r.mem /\ t.size = r.size
        /\ t.data = r.data /\ t.end = r.end /\ t.fill = "callback" /\ t.skip = r.skip
        /\ t.block = r.block /\ t.pos = r.pos /\ t.eof = r.eof /\ t.op = r.op /\ t.n = r.n
        /\ t.used = r.used /\ t.sought = r.sought
        /\ t.pc = r.pc /\ t.got = r.got /\ t.todo = r.todo /\ t.rest = r.rest
        /\ t.out = r.out /\ t.job = r.job
    BY <1>1 DEF Typed, Fields
  <2> HIDE DEF t
  <2>2. m = t.size /\ t.size >= MinBuffer /\ r.fill = "none"
    BY <1>3, <1>5, <2>1 DEF mpack_reader_set_fill
  <2>3. Typed(t, m)
    BY <1>1, <2>1, <2>2 DEF Typed
  <2>4. Good(t, m) /\ Told(t)
    BY <1>1, <2>1, <2>3 DEF Good, Told, TagTold, TimeTold, Unread, Holds
  <2>5. Inv(t, m)
    BY <1>1, <2>1, <2>3, <2>4 DEF Inv, mpack_reader_set_fill
  <2>6. EarnedFrom(t, r)
    BY <1>1, <2>1 DEF EarnedFrom
  <2>7. r' = t
    BY <1>2, <1>5 DEF t
  <2> QED
    BY <1>1, <2>1, <2>5, <2>6, <2>7 DEF Step
<1> QED
  BY <1>4, <1>5

LEMMA DestroyIs ==
    ASSUME NEW m \in Nat, Inv(r, m), mpack_reader_destroy
    PROVE  \E k \in Nat : Step(r', r, k) /\ r'.size \in {0, k}
<1>1. Typed(r, m)
  BY Zenon DEF Inv
<1>2. PICK s : /\ r' = Torn(s) /\ s.block = r.block /\ s.used = r.used
               /\ \/ s.error = r.error
                  \/ s.error = "io" /\ s.starved /\ r.error = "ok"
  <2>1. CASE r' = Torn(r)
    BY <2>1
  <2>2. CASE r' = Torn(Flag([r EXCEPT !.starved = TRUE], "io"))
    <3> DEFINE u == [r EXCEPT !.starved = TRUE]
               s == Flag(u, "io")
    <3>1. u.error = r.error /\ u.block = r.block /\ u.used = r.used /\ u.starved
          /\ DOMAIN u = Fields
      BY <1>1 DEF Typed, Fields
    <3> HIDE DEF u
    <3>2. /\ s.block = u.block /\ s.used = u.used /\ s.starved = u.starved
          /\ s.error = IF u.error = "ok" THEN "io" ELSE u.error
      BY <3>1 DEF Flag, Fields
    <3> HIDE DEF s
    <3>3. r' = Torn(s)
      BY <2>2 DEF s, u
    <3> QED
      BY <3>1, <3>2, <3>3
  <2> QED
    BY <2>1, <2>2 DEF mpack_reader_destroy
<1> DEFINE block == IF s.block = "live" THEN "freed" ELSE s.block
           b == Blank(0, "none", block)
           t == [b EXCEPT !.pc = "closed", !.error = s.error, !.starved = s.starved,
                          !.used = s.used]
<1>3. /\ DOMAIN b = Fields /\ b.mem \in [0..(0 - 1) -> Byte]
      /\ b.size = 0 /\ b.data = 0 /\ b.end = 0 /\ b.fill = "none" /\ ~b.skip
      /\ b.block = block /\ b.pos = 0 /\ ~b.eof /\ b.n = 0 /\ b.rest = 0 /\ b.todo = 0
      /\ b.out = <<>> /\ b.got = Nothing /\ b.job = NoJob
  BY BlankIs
<1>4. r' = t
  BY <1>2 DEF Torn
<1>5. block \in {"none", "freed"}
  BY <1>1, <1>2 DEF Typed
<1> HIDE DEF b, block
<1>6. /\ DOMAIN t = Fields /\ t.error = s.error /\ t.mem \in [0..(0 - 1) -> Byte]
      /\ t.size = 0 /\ t.data = 0 /\ t.end = 0 /\ t.fill = "none" /\ ~t.skip
      /\ t.block = block /\ t.pos = 0 /\ ~t.eof /\ t.n = 0 /\ t.rest = 0 /\ t.todo = 0
      /\ t.out = <<>> /\ t.got = Nothing /\ t.job = NoJob
      /\ t.pc = "closed" /\ t.starved = s.starved /\ t.used = s.used
  BY <1>3 DEF Fields
<1> HIDE DEF t
<1>7. Typed(t, 0)
  <2>1. JobFits(t.job, t.size) /\ t.out \in Seq(Byte) /\ t.data \in 0..0 /\ t.end \in 0..0
    BY <1>6, NoJobFits
  <2>2. s.error \in Errors /\ s.used \in Nat
    BY <1>1, <1>2 DEF Typed, Errors
  <2> QED
    BY <1>1, <1>5, <1>6, <2>1, <2>2 DEF Typed
<1>8. Inv(t, 0)
  BY <1>5, <1>6, <1>7 DEF Inv
<1>9. r.error = "ok" => EarnedFrom(t, r)
  BY <1>2, <1>6 DEF EarnedFrom
<1>10. r.error # "ok" => FinalFrom(t, r)
  BY <1>2, <1>6 DEF FinalFrom, Nothing
<1>11. Step(t, r, 0)
  BY <1>8, <1>9, <1>10 DEF Step
<1> QED
  BY <1>4, <1>6, <1>11

\* Calls that read a tag.
LEMMA TagCallIs ==
    ASSUME NEW m, Inv(r, m), r.pc = "idle", NEW s,
           \/ s = Begin("tag") \/ s = Begin("peek") \/ s = Begun("discard", 1)
    PROVE  Step(mpack_read_tag(s), r, m) /\ mpack_read_tag(s).size = r.size
<1>1. /\ Good(s, m) /\ Same(s, r) /\ s.error = r.error /\ s.used = r.used /\ s.size = r.size
      /\ s.op \in {"tag", "peek", "discard"} /\ (s.op = "discard" => s.todo > 0)
  <2>1. r.todo \in Nat /\ 1 > 0
    BY DEF Inv, Typed
  <2>2. CASE s = Begin("tag")
    BY <2>1, <2>2, BegunIs
  <2>3. CASE s = Begin("peek")
    BY <2>1, <2>3, BegunIs
  <2>4. CASE s = Begun("discard", 1)
    BY <2>1, <2>4, BegunIs
  <2> QED
    BY <2>2, <2>3, <2>4
<1>2. r.error = "ok" => Result(mpack_read_tag(s), s, m)
  BY <1>1, ReadTagIs
<1>3. r.error # "ok" => mpack_read_tag(s) = Answer(s, Nothing)
  BY <1>1 DEF mpack_read_tag
<1>4. r.error # "ok" => Step(mpack_read_tag(s), s, m) /\ mpack_read_tag(s).size = s.size
  BY <1>1, <1>3, NothingIs
<1> QED
  BY <1>1, <1>2, <1>4, CallIs

\* Calls that begin with something else than a tag.
LEMMA BeginIs ==
    ASSUME NEW m, Inv(r, m), r.pc = "idle", NEW op
    PROVE  /\ Good(Begin(op), m) /\ Same(Begin(op), r) /\ Begin(op).error = r.error
           /\ Begin(op).used = r.used /\ Begin(op).size = r.size /\ Begin(op).op = op
           /\ Begin(op).pos = r.pos /\ Typed(Begin(op), m) /\ DOMAIN Begin(op) = Fields
<1>1. r.todo \in Nat
  BY Zenon DEF Inv, Typed
<1> DEFINE s == Begin(op)
<1>2. s = Begin(op) /\ r.todo = r.todo
  OBVIOUS
<1> HIDE DEF s
<1>3. /\ Good(s, m) /\ Same(s, r) /\ s.error = r.error /\ s.used = r.used /\ s.op = op
      /\ s.size = r.size /\ s.pos = r.pos /\ DOMAIN s = Fields
  BY <1>1, <1>2, BegunIs
<1>4. Typed(s, m)
  BY <1>3 DEF Good
<1> QED
  BY <1>3, <1>4 DEF s

LEMMA NativeCallIs ==
    ASSUME NEW m, Inv(r, m), r.pc = "idle", NEW op \in {"bytes", "alloc", "cstr", "timestamp"},
           NEW n \in Nat
    PROVE  LET t == mpack_read_native(Begin(op), n)
           IN Step(t, r, m) /\ t.size = r.size
<1> DEFINE s == Begin(op)
<1>1. /\ Good(s, m) /\ Same(s, r) /\ s.error = r.error
      /\ s.used = r.used /\ s.size = r.size /\ Natives(s)
  BY BeginIs DEF Natives
<1> HIDE DEF s
<1>2. r.error = "ok" => Result(mpack_read_native(s, n), s, m)
  BY <1>1, NativeIs
<1>3. r.error # "ok" => /\ Step(mpack_read_native(s, n), s, m)
                        /\ mpack_read_native(s, n).size = s.size
  BY <1>1, NativeFinal
<1> QED
  BY <1>1, <1>2, <1>3, CallIs DEF s

LEMMA NothingCallIs ==
    ASSUME NEW m, Inv(r, m), r.pc = "idle", NEW op, r.error # "ok"
    PROVE  LET t == Answer(Begin(op), Nothing)
           IN Step(t, r, m) /\ t.size = r.size
<1> DEFINE s == Begin(op)
<1>1. /\ Good(s, m) /\ Same(s, r) /\ s.error = r.error /\ s.used = r.used /\ s.size = r.size
  BY BeginIs
<1> HIDE DEF s
<1> QED
  BY <1>1, NothingIs DEF s

\* Calls that are refused for what they ask for.
LEMMA RefusedCallIs ==
    ASSUME NEW m, Inv(r, m), r.pc = "idle", NEW op, NEW n \in Nat, r.error = "ok", NEW e,
           (e = "invalid" /\ op = "timestamp") \/ (e = "too_big" /\ op = "cstr")
    PROVE  LET t == Refused([Begin(op) EXCEPT !.n = n], e)
           IN Step(t, r, m) /\ t.size = r.size
<1> DEFINE b == Begin(op)
           s == [b EXCEPT !.n = n]
           t == Refused(s, e)
<1>1. /\ Typed(b, m) /\ Same(b, r) /\ b.error = r.error /\ b.used = r.used
      /\ b.size = r.size /\ b.op = op
  BY BeginIs
<1> HIDE DEF b
<1>2. /\ DOMAIN s = Fields /\ s.error = b.error /\ s.mem = b.mem /\ s.size = b.size
      /\ s.data = b.data /\ s.end = b.end /\ s.fill = b.fill /\ s.skip = b.skip
      /\ s.block = b.block /\ s.pos = b.pos /\ s.eof = b.eof /\ s.op = b.op /\ s.n = n
      /\ s.used = b.used /\ s.sought = b.sought /\ s.out = b.out /\ s.job = b.job
      /\ s.rest = b.rest /\ s.todo = b.todo
  BY <1>1 DEF Typed, Fields
<1> HIDE DEF s
<1>3. Typed(s, m)
  BY <1>1, <1>2 DEF Typed
<1>4. e \in Errors \ {"ok"}
  BY DEF Errors
<1>5. Inv(t, m) /\ Same(t, s) /\ t.pc = "idle" /\ t.error = e /\ t.op = s.op
  BY <1>1, <1>2, <1>3, <1>4, RefusedIs
<1> HIDE DEF t
<1>6. Result(t, s, m)
  BY <1>1, <1>2, <1>5 DEF Result, Earned
<1>7. Same(s, r)
  BY <1>1, <1>2 DEF Same
<1>8. Step(t, r, m) /\ t.size = r.size
  BY <1>6, <1>7, ResultOfSame, ResultIsStep
<1> QED
  BY <1>8 DEF b, s, t

LEMMA CallsAre ==
    ASSUME NEW m, Inv(r, m), r.size \in {0, m},
           \/ read_tag \/ mpack_peek_tag \/ mpack_discard
           \/ mpack_skip_bytes \/ mpack_read_bytes \/ mpack_read_bytes_inplace
           \/ mpack_read_bytes_alloc \/ mpack_read_cstr \/ mpack_read_timestamp
           \/ mpack_reader_remaining
    PROVE  Step(r', r, m) /\ r'.size = r.size
<1>1. r.pc = "idle"
  BY DEF MayCall, read_tag, mpack_peek_tag, mpack_discard, mpack_skip_bytes, mpack_read_bytes,
         mpack_read_bytes_inplace, mpack_read_bytes_alloc, mpack_read_cstr,
         mpack_read_timestamp, mpack_reader_remaining
<1>2. \A n \in Counts : n \in Nat
  BY ReaderAssumption
<1>3. CASE read_tag
  BY <1>1, <1>3, TagCallIs DEF read_tag
<1>4. CASE mpack_peek_tag
  BY <1>1, <1>4, TagCallIs DEF mpack_peek_tag
<1>5. CASE mpack_discard
  BY <1>1, <1>5, TagCallIs DEF mpack_discard, Begun
<1>6. CASE mpack_skip_bytes
  <2> DEFINE s == Begin("skip")
  <2>1. PICK n \in Counts : r' = IF r.error # "ok" THEN Answer(s, Nothing) ELSE SkipBytes(s, n)
    BY <1>6 DEF mpack_skip_bytes
  <2>2. CASE r.error # "ok"
    BY <1>1, <2>1, <2>2, NothingCallIs
  <2>3. CASE r.error = "ok"
    <3>1. /\ Good(s, m) /\ Same(s, r) /\ s.error = r.error /\ Skips(s)
      BY <1>1, BeginIs DEF Skips
    <3> HIDE DEF s
    <3>2. Result(SkipBytes(s, n), s, m)
      BY <1>2, <2>3, <3>1, SkipBytesIs
    <3> QED
      BY <2>1, <2>3, <3>1, <3>2, ResultOfSame, ResultIsStep
  <2> QED
    BY <2>2, <2>3
<1>7. CASE mpack_read_bytes
  BY <1>1, <1>2, <1>7, NativeCallIs DEF mpack_read_bytes
<1>8. CASE mpack_read_bytes_inplace
  <2> DEFINE s == Begin("inplace")
  <2>1. PICK n \in Counts : r' = Inplace(s, n)
    BY <1>8 DEF mpack_read_bytes_inplace
  <2>2. CASE r.error # "ok"
    <3>1. s.error = r.error
      BY <1>1, BeginIs
    <3>2. Inplace(s, n) = Answer(s, Nothing)
      BY <2>2, <3>1 DEF Inplace
    <3> QED
      BY <1>1, <2>1, <2>2, <3>2, NothingCallIs
  <2>3. CASE r.error = "ok"
    <3>1. /\ Good(s, m) /\ Same(s, r) /\ s.error = r.error /\ s.op = "inplace"
      BY <1>1, BeginIs
    <3> HIDE DEF s
    <3>2. Result(Inplace(s, n), s, m)
      BY <1>2, <2>3, <3>1, InplaceIs
    <3> QED
      BY <2>1, <2>3, <3>1, <3>2, ResultOfSame, ResultIsStep
  <2> QED
    BY <2>2, <2>3
<1>9. CASE mpack_read_bytes_alloc
  <2> DEFINE s == Begin("alloc")
  <2>1. PICK n \in Counts :
            \/ r' = Answer(s, Nothing) /\ (r.error # "ok" \/ n = 0)
            \/ r' = mpack_read_native(s, n)
            \/ r.error = "ok" /\ r' = Refused([s EXCEPT !.starved = TRUE], "memory")
    <3>1. s.error = r.error
      BY <1>1, BeginIs
    <3> QED
      BY <1>9, <3>1 DEF mpack_read_bytes_alloc
  <2>2. CASE r' = Answer(s, Nothing) /\ r.error # "ok"
    BY <1>1, <2>2, NothingCallIs
  <2>3. CASE r' = Answer(s, Nothing) /\ r.error = "ok"
    <3>1. /\ Good(s, m) /\ Same(s, r) /\ s.error = r.error
      BY <1>1, BeginIs
    <3> HIDE DEF s
    <3>2. Nothing.kind = "nothing"
      BY DEF Nothing
    <3>3. Result(Answer(s, Nothing), s, m)
      BY <2>3, <3>1, <3>2, AnswerIs
    <3> QED
      BY <2>3, <3>1, <3>3, ResultOfSame, ResultIsStep
  <2>4. CASE r' = mpack_read_native(s, n)
    BY <1>1, <1>2, <2>4, NativeCallIs
  <2>5. CASE r.error = "ok" /\ r' = Refused([s EXCEPT !.starved = TRUE], "memory")
    <3>1. /\ Typed(s, m) /\ Same(s, r) /\ s.error = r.error
      BY <1>1, BeginIs
    <3> HIDE DEF s
    <3>2. Result(Refused([s EXCEPT !.starved = TRUE], "memory"), s, m)
      BY <2>5, <3>1, StarvedIs
    <3> QED
      BY <2>5, <3>1, <3>2, ResultOfSame, ResultIsStep
  <2> QED
    BY <2>1, <2>2, <2>3, <2>4, <2>5
<1>10. CASE mpack_read_cstr
  <2> DEFINE s == Begin("cstr")
  <2>1. PICK n \in Counts :
            \/ r' = Answer(s, Nothing) /\ r.error # "ok"
            \/ r' = Refused([s EXCEPT !.n = n], "too_big") /\ r.error = "ok"
            \/ r' = mpack_read_native(s, n)
    <3>1. s.error = r.error
      BY <1>1, BeginIs
    <3> QED
      BY <1>10, <3>1 DEF mpack_read_cstr
  <2>2. CASE r' = Answer(s, Nothing) /\ r.error # "ok"
    BY <1>1, <2>2, NothingCallIs
  <2>3. CASE r' = Refused([s EXCEPT !.n = n], "too_big") /\ r.error = "ok"
    BY <1>1, <1>2, <2>3, RefusedCallIs
  <2>4. CASE r' = mpack_read_native(s, n)
    BY <1>1, <1>2, <2>4, NativeCallIs
  <2> QED
    BY <2>1, <2>2, <2>3, <2>4
<1>11. CASE mpack_read_timestamp
  <2> DEFINE s == Begin("timestamp")
  <2>1. r' = IF r.got.tag.v \in {4, 8, 12} THEN mpack_read_native(s, r.got.tag.v)
             ELSE Refused(s, "invalid")
    BY <1>11 DEF mpack_read_timestamp
  <2>2. CASE r.got.tag.v \in {4, 8, 12}
    <3>1. r.got.tag.v \in Nat /\ r' = mpack_read_native(s, r.got.tag.v)
      BY <2>1, <2>2
    <3> QED
      BY <1>1, <3>1, NativeCallIs
  <2>3. CASE r.got.tag.v \notin {4, 8, 12}
    <3>1. /\ Typed(s, m) /\ Same(s, r) /\ s.error = r.error /\ s.op = "timestamp"
      BY <1>1, BeginIs
    <3>2. CASE r.error = "ok"
      <4> DEFINE t == Refused(s, "invalid")
      <4>1. Inv(t, m) /\ Same(t, s) /\ t.pc = "idle" /\ t.error = "invalid" /\ t.op = s.op
        <5>1. "invalid" \in Errors \ {"ok"}
          BY DEF Errors
        <5> HIDE DEF s
        <5> QED
          BY <3>1, <3>2, <5>1, RefusedIs
      <4>2. r' = t
        BY <2>1, <2>3
      <4> HIDE DEF s, t
      <4>3. Result(t, s, m)
        BY <3>1, <4>1 DEF Result, Earned
      <4> QED
        BY <3>1, <3>2, <4>2, <4>3, ResultOfSame, ResultIsStep
    <3>3. CASE r.error # "ok"
      <4>1. Refused(s, "invalid") = Answer(s, Nothing)
        BY <3>1, <3>3 DEF Refused, Flag
      <4> QED
        BY <1>1, <2>1, <2>3, <3>3, <4>1, NothingCallIs
    <3> QED
      BY <3>2, <3>3
  <2> QED
    BY <2>2, <2>3
<1>12. CASE mpack_reader_remaining
  <2> DEFINE s == Begin("remaining")
             got == [kind |-> "left", left |-> IF r.error = "ok" THEN Unread(r) ELSE 0]
  <2>1. r' = Answer(s, got) /\ got.kind = "left"
    BY <1>12 DEF mpack_reader_remaining
  <2>2. /\ Good(s, m) /\ Same(s, r) /\ s.error = r.error /\ s.pos = r.pos /\ s.used = r.used
        /\ s.size = r.size
    BY <1>1, BeginIs
  <2>3. r.error = "ok" => got.left = s.pos - s.used
    <3>1. r.error = "ok" => r.pos = r.used + Unread(r)
      BY <1>1, Zenon DEF Inv, Good
    <3>2. r.used \in Nat /\ Unread(r) \in Int
      BY DEF Inv, Typed, Unread
    <3>3. \A u \in Nat : \A i \in Int : (u + i) - u = i
      OBVIOUS
    <3> QED
      BY <2>2, <3>1, <3>2, <3>3
  <2>4. r.error # "ok" => got.left = 0
    OBVIOUS
  <2> HIDE DEF s, got
  <2>5. CASE r.error = "ok"
    <3>1. Result(Answer(s, got), s, m)
      BY <2>1, <2>2, <2>3, <2>5, AnswerIs
    <3> QED
      BY <2>1, <2>2, <2>5, <3>1, ResultOfSame, ResultIsStep
  <2>6. CASE r.error # "ok"
    BY <2>1, <2>2, <2>4, <2>6, FinalIs
  <2> QED
    BY <2>5, <2>6
<1> QED
  BY <1>3, <1>4, <1>5, <1>6, <1>7, <1>8, <1>9, <1>10, <1>11, <1>12

-----------------------------------------------------------------------------
(* Every step.                                                             *)

LEMMA NextIs ==
    ASSUME IInv, Next
    PROVE  \E m \in Nat : Step(r', r, m) /\ r'.size \in {0, m}
<1>1. PICK m \in Nat : Inv(r, m) /\ r.size \in {0, m}
  BY DEF IInv
<1>2. CASE Result(r', r, m) /\ r.error = "ok"
  BY <1>1, <1>2, ResultIsStep
<1>3. CASE Step(r', r, m) /\ r'.size = r.size
  BY <1>1, <1>3
<1>4. CASE Fill
  <2>1. r.error = "ok"
    BY <1>1, <1>4, Zenon DEF Fill, Inv, Good, Filling, Asked
  <2> QED
    BY <1>1, <1>2, <1>4, <2>1, FillIs
<1>5. CASE Seek
  <2>1. r.error = "ok"
    BY <1>1, <1>5, Zenon DEF Seek, Inv
  <2> QED
    BY <1>1, <1>2, <1>5, <2>1, SeekIs
<1>6. CASE More
  <2>1. r.error = "ok"
    BY <1>1, <1>6, Zenon DEF More, Inv
  <2> QED
    BY <1>1, <1>2, <1>6, <2>1, MoreIs
<1>7. CASE mpack_reader_init_data
  BY <1>1, <1>7, InitDataIs
<1>8. CASE mpack_reader_init
  BY <1>1, <1>8, InitIs
<1>9. CASE mpack_reader_set_fill
  BY <1>1, <1>3, <1>9, SetFillIs
<1>10. CASE mpack_reader_init_filename
  BY <1>1, <1>10, InitFilenameIs
<1>11. CASE mpack_reader_destroy
  BY <1>1, <1>11, DestroyIs
<1>12. CASE \/ read_tag \/ mpack_peek_tag \/ mpack_discard
            \/ mpack_skip_bytes \/ mpack_read_bytes \/ mpack_read_bytes_inplace
            \/ mpack_read_bytes_alloc \/ mpack_read_cstr \/ mpack_read_timestamp
            \/ mpack_reader_remaining
  BY <1>1, <1>3, <1>12, CallsAre
<1> QED
  BY <1>4, <1>5, <1>6, <1>7, <1>8, <1>9, <1>10, <1>11, <1>12 DEF Next, Call

\* The source stays the same.
LEMMA SourceStays ==
    ASSUME Next
    PROVE  input' = input
BY DEF Next, Call, Fill, Seek, More, MayCall, Opened, mpack_reader_init_data,
       mpack_reader_init, mpack_reader_set_fill, mpack_reader_init_filename,
       mpack_reader_init_stdfile, read_tag, mpack_peek_tag, mpack_discard, mpack_skip_bytes,
       mpack_read_bytes, mpack_read_bytes_inplace, mpack_read_bytes_alloc, mpack_read_cstr,
       mpack_read_timestamp, mpack_reader_remaining, mpack_reader_destroy

\* What is said of a reader over a source holds as long as the source is the same.
LEMMA SameSource ==
    ASSUME input' = input, NEW s, NEW m, Inv(s, m)
    PROVE  Inv(s, m)'
<1>1. src' = src
  BY DEF src
<1>2. Typed(s, m)' <=> Typed(s, m)
  BY <1>1 DEF Typed
<1>3. Good(s, m)' <=> Good(s, m)
  BY <1>1, <1>2 DEF Good, Holds
<1>4. Told(s)' <=> Told(s)
  BY <1>1 DEF Told, TagTold, TimeTold, TagThere
<1>5. Filling(s)' <=> Filling(s)
  BY <1>1 DEF Filling, Asked, Split, Holds
<1> QED
  BY <1>1, <1>2, <1>3, <1>4, <1>5 DEF Inv

LEMMA IInvNext ==
    ASSUME IInv, [Next]_vars
    PROVE  IInv'
<1>1. CASE Next
  <2>1. PICK m \in Nat : Inv(r', m) /\ r'.size \in {0, m}
    BY <1>1, NextIs DEF Step
  <2>2. Inv(r, m)'
    BY <1>1, <2>1, SourceStays, SameSource
  <2> QED
    BY <2>1, <2>2 DEF IInv
<1>2. CASE UNCHANGED vars
  <2>1. PICK m \in Nat : Inv(r, m) /\ r.size \in {0, m}
    BY DEF IInv
  <2>2. input' = input /\ r' = r
    BY <1>2 DEF vars
  <2>3. Inv(r, m)'
    BY <2>1, <2>2, SameSource
  <2> QED
    BY <2>1, <2>2, <2>3 DEF IInv
<1> QED
  BY <1>1, <1>2

LEMMA IInvInit ==
    ASSUME Init
    PROVE  IInv
<1> DEFINE b == Blank(0, "none", "none")
           t == [b EXCEPT !.pc = "none"]
<1>1. r = t /\ src \in Seq(Byte)
  BY ReaderAssumption DEF Init, src, Byte
<1>2. /\ DOMAIN b = Fields /\ b.error = "ok" /\ b.mem \in [0..(0 - 1) -> Byte]
      /\ b.size = 0 /\ b.data = 0 /\ b.end = 0 /\ b.fill = "none" /\ ~b.skip
      /\ b.block = "none" /\ b.pos = 0 /\ ~b.eof /\ b.n = 0 /\ b.rest = 0 /\ b.todo = 0
      /\ b.out = <<>> /\ b.job = NoJob /\ b.used = 0
  BY BlankIs
<1> HIDE DEF b
<1>3. /\ DOMAIN t = Fields /\ t.error = "ok" /\ t.mem \in [0..(0 - 1) -> Byte]
      /\ t.size = 0 /\ t.data = 0 /\ t.end = 0 /\ t.fill = "none" /\ ~t.skip
      /\ t.block = "none" /\ t.pos = 0 /\ ~t.eof /\ t.n = 0 /\ t.rest = 0 /\ t.todo = 0
      /\ t.out = <<>> /\ t.job = NoJob /\ t.used = 0 /\ t.pc = "none"
  BY <1>2 DEF Fields
<1>4. t = [Blank(0, "none", "none") EXCEPT !.pc = "none"]
  BY DEF b
<1> HIDE DEF t
<1>5. Typed(t, 0)
  <2>1. JobFits(t.job, t.size) /\ t.out \in Seq(Byte) /\ t.data \in 0..0 /\ t.end \in 0..0
    BY <1>3, NoJobFits
  <2>2. t.error \in Errors
    BY <1>3 DEF Errors
  <2> QED
    BY <1>1, <1>3, <2>1, <2>2 DEF Typed
<1>6. Inv(t, 0)
  BY <1>3, <1>4, <1>5 DEF Inv
<1> QED
  BY <1>1, <1>3, <1>6 DEF IInv

\* What holds of the reader in every state, whatever it waits for.
LEMMA Invariance == Spec => []IInv
<1>1. Init => IInv
  BY IInvInit
<1>2. IInv /\ [Next]_vars => IInv'
  BY IInvNext
<1> QED
  BY <1>1, <1>2, PTL DEF Spec

LEMMA TypeOKHolds ==
    ASSUME IInv
    PROVE  TypeOK
<1>1. PICK m \in Nat : Inv(r, m)
  BY DEF IInv
<1>2. Typed(r, m)
  BY <1>1, Zenon DEF Inv
<1>3. /\ r.error \in {"ok", "memory", "io", "eof", "invalid", "too_big", "type", "bug"}
      /\ r.fill \in {"none", "callback", "file"} /\ r.block \in {"none", "live", "freed"}
  BY <1>2 DEF Typed, Errors
<1>4. r.pc \in {"none", "idle", "fill", "seek", "more", "closed"}
  BY <1>1 DEF Inv
<1>5. \A i \in DOMAIN r.mem : r.mem[i] \in 0..(Base - 1)
  BY <1>2 DEF Typed, Byte
<1>6. r.data \in 0..m /\ r.end \in 0..m /\ DOMAIN r.mem = 0..(m - 1)
  BY <1>2 DEF Typed
<1>7. Cardinality(DOMAIN r.mem) = m
  <2>1. Cardinality(0..(m - 1)) = IF 0 > m - 1 THEN 0 ELSE (m - 1) - 0 + 1
    BY FS_Interval
  <2> QED
    BY <1>6, <2>1
<1>8. {r.data, r.end} \subseteq 0..Cardinality(DOMAIN r.mem)
  BY <1>6, <1>7
<1>9. r.pc # "fill" => r.data <= r.end
  <2>1. CASE r.pc = "none"
    BY <1>1, <2>1 DEF Inv, Blank
  <2>2. CASE r.pc \in {"idle", "more"}
    BY <1>1, <2>2 DEF Inv, Good
  <2>3. CASE r.pc \in {"closed", "seek"}
    <3>1. r.data = r.end
      BY <1>1, <2>3 DEF Inv
    <3> QED
      BY <1>6, <3>1
  <2> QED
    BY <1>4, <2>1, <2>2, <2>3
<1>10. r.pc = "fill" => r.job.min \in 1..r.job.max /\ r.job.count < r.job.min
  <2>1. r.pc = "fill" => Filling(r)
    BY <1>1 DEF Inv
  <2> QED
    BY <1>2, <2>1 DEF Filling, Asked, Typed, JobFits
<1>11. r.job.max > 0 /\ r.job.then # "direct" => r.job.at + r.job.max <= r.size
  BY <1>2 DEF Typed, JobFits
<1>12. r.pc = "closed" => r.block # "live"
  BY <1>1 DEF Inv
<1> QED
  BY <1>3, <1>4, <1>5, <1>8, <1>9, <1>10, <1>11, <1>12 DEF TypeOK

\* TypeOK holds for every source, every size of the buffer and everything that a fill
\* function gives: above all, none of them is given more room than the buffer has (the
\* asserts of mpack_fill_range and mpack_reader_ensure_straddle).
THEOREM ReaderTypeCorrect == Spec => []TypeOK
<1>1. IInv => TypeOK
  BY TypeOKHolds
<1> QED
  BY <1>1, Invariance, PTL

LEMMA AnswersAreThereHold ==
    ASSUME IInv
    PROVE  AnswersAreThere
<1> SUFFICES ASSUME r.pc = "idle", r.error = "ok"
             PROVE  /\ r.used <= Len(src) \/ r.sought
                    /\ r.got.kind = "bytes" =>
                          r.got.bytes = SubSeq(src, r.used - r.n + 1, r.used)
                    /\ r.got.kind = "tag" =>
                          /\ r.got.tag = TagThere(r.got.at)
                          /\ r.used = r.got.at + (IF r.op = "peek" THEN 0 ELSE r.n)
                    /\ r.got.kind = "left" /\ r.fill = "none" /\ r.pos = Len(src) =>
                          r.got.left = Len(src) - r.used
  BY DEF AnswersAreThere
<1>1. PICK m \in Nat : Inv(r, m)
  BY DEF IInv
<1>2. Good(r, m) /\ Told(r) /\ Typed(r, m)
  BY <1>1, Zenon DEF Inv
<1>3. r.used <= Len(src) \/ r.sought
  <2>1. r.pos = r.used + Unread(r) /\ (r.pos <= Len(src) \/ r.sought)
    BY <1>2 DEF Good
  <2>2. Unread(r) \in Nat /\ r.used \in Nat /\ Len(src) \in Nat
    BY <1>2, LenProperties DEF Good, Unread, Typed
  <2> QED
    BY <2>1, <2>2
<1> QED
  BY <1>2, <1>3 DEF Told, TagTold

\* What stands in the source one behind the other.
LEMMA BothStand ==
    ASSUME NEW s \in Seq(Byte), NEW t \in Seq(Byte), NEW at \in Nat, NEW source,
           Stands(s \o t, at, source)
    PROVE  Stands(s, at, source) /\ Stands(t, at + Len(s), source)
<1> DEFINE n == Len(s)
           k == Len(t)
<1>1. n \in Nat /\ k \in Nat /\ DOMAIN s = 1..n /\ DOMAIN t = 1..k
  BY LenProperties
<1>2. /\ DOMAIN (s \o t) = 1..(n + k)
      /\ \A j \in 1..n : (s \o t)[j] = s[j]
      /\ \A j \in 1..k : (s \o t)[n + j] = t[j]
  <2>1. s \o t \in Seq(Byte) /\ Len(s \o t) = n + k
    BY ConcatProperties
  <2>2. DOMAIN (s \o t) = 1..(n + k)
    BY <2>1, LenProperties
  <2>3. \A j \in 1..(n + k) : (s \o t)[j] = IF j <= n THEN s[j] ELSE t[j - n]
    BY ConcatProperties
  <2>4. \A j \in 1..n : j \in 1..(n + k) /\ j <= n
    BY <1>1
  <2>5. \A j \in 1..k : n + j \in 1..(n + k) /\ ~(n + j <= n) /\ n + j - n = j
    BY <1>1
  <2> HIDE DEF n, k
  <2>6. ASSUME NEW j \in 1..n
        PROVE  (s \o t)[j] = s[j]
    BY <2>3, <2>4, <2>6
  <2>7. ASSUME NEW j \in 1..k
        PROVE  (s \o t)[n + j] = t[j]
    <3>1. (s \o t)[n + j] = t[(n + j) - n]
      BY <2>3, <2>5, <2>7, Zenon
    <3>2. (n + j) - n = j
      BY <1>1, <2>7
    <3> QED
      BY <3>1, <3>2
  <2> QED
    BY <2>2, <2>6, <2>7
<1> HIDE DEF n, k
<1>3. Stands(s, at, source)
  <2> SUFFICES ASSUME NEW j \in 1..n, at + j <= Len(source)
               PROVE  source[at + j] = s[j]
    BY <1>1 DEF Stands
  <2>1. j \in 1..(n + k)
    BY <1>1
  <2> QED
    BY <1>2, <2>1 DEF Stands
<1>4. Stands(t, at + n, source)
  <2> SUFFICES ASSUME NEW j \in 1..k, (at + n) + j <= Len(source)
               PROVE  source[(at + n) + j] = t[j]
    BY <1>1 DEF Stands
  <2>1. n + j \in 1..(n + k) /\ at + (n + j) = (at + n) + j
    BY <1>1
  <2>2. source[at + (n + j)] = (s \o t)[n + j]
    BY <1>2, <2>1 DEF Stands
  <2> QED
    BY <1>2, <2>1, <2>2
<1> QED
  BY <1>3, <1>4 DEF n

LEMMA AllStands ==
    ASSUME NEW s \in Seq(Byte), NEW source \in Seq(Byte), NEW at \in Nat,
           Stands(s, at, source), at + Len(s) <= Len(source)
    PROVE  SubSeq(source, at + 1, at + Len(s)) = s
<1> DEFINE n == Len(s)
           q == SubSeq(source, at + 1, at + n)
<1>1. n \in Nat /\ DOMAIN s = 1..n /\ Len(source) \in Nat
  BY LenProperties
<1>2. q \in Seq(Byte) /\ Len(q) = n /\ \A j \in 1..n : q[j] = source[at + j]
  <2>1. /\ at + 1 \in 1..(Len(source) + 1) /\ at + n \in ((at + 1) - 1)..Len(source)
        /\ (at + n) - (at + 1) + 1 = n
    BY <1>1
  <2>2. /\ q \in Seq(Byte) /\ Len(q) = (at + n) - (at + 1) + 1
        /\ \A j \in 1..((at + n) - (at + 1) + 1) : q[j] = source[(at + 1) + j - 1]
    BY <2>1, SubSeqProperties
  <2>3. \A j \in 1..n : (at + 1) + j - 1 = at + j
    BY <1>1
  <2> HIDE DEF n, q
  <2> QED
    BY <2>1, <2>2, <2>3
<1>3. \A j \in 1..n : q[j] = s[j]
  <2> SUFFICES ASSUME NEW j \in 1..n
               PROVE  source[at + j] = s[j]
    BY <1>2
  <2>1. at + j <= Len(source)
    BY <1>1
  <2> QED
    BY <1>1, <2>1 DEF Stands
<1> HIDE DEF q
<1>4. q = s
  BY <1>2, <1>3, SeqEqual
<1> QED
  BY <1>4 DEF q

LEMMA ValuesComeBackHold ==
    ASSUME IInv, input \in Inputs
    PROVE  ValuesComeBack
<1> SUFFICES ASSUME r.pc = "idle", r.error = "ok", NEW start \in input.starts
             PROVE  /\ r.got.kind = "tag" /\ start.at = r.got.at =>
                          /\ r.got.tag = AsRead(start.item.tag)
                          /\ r.n = Len(mpack_write_tag(start.item.tag))
                    /\ /\ r.got.kind = "time" /\ start.item.time # <<>>
                       /\ start.at + Len(mpack_write_tag(start.item.tag)) + r.n = r.used
                       /\ Len(start.item.body) = r.n
                       => r.got.time = start.item.time
  BY DEF ValuesComeBack
<1> DEFINE item == start.item
           at == start.at
           w == mpack_write_tag(item.tag)
<1>1. PICK m \in Nat : Inv(r, m)
  BY DEF IInv
<1>2. Told(r) /\ src \in Seq(Byte) /\ r.n \in Nat /\ r.used \in Nat
  BY <1>1, Zenon DEF Inv, Typed
<1>3. at \in Nat /\ IsItem(item) /\ Stands(w \o item.body, at, src)
  BY WrittenAssumption DEF src
<1>4. IsTag(item.tag) /\ item.body \in Seq(Byte)
  BY <1>3 DEF IsItem, Byte
<1>5. Reads(w, AsRead(item.tag))
  BY <1>4, TagComesBack
<1>6. /\ w \in Seq(Byte) /\ Len(w) > 0 /\ Len(w) = TagSize(w[1])
      /\ mpack_parse_tag(w) = AsRead(item.tag)
  BY <1>5 DEF Reads
<1> HIDE DEF w, at, item
<1>7. Stands(w, at, src) /\ Stands(item.body, at + Len(w), src)
  BY <1>3, <1>4, <1>6, BothStand
<1>8. Len(w) \in Nat /\ DOMAIN w = 1..Len(w) /\ Len(src) \in Nat
  BY <1>2, <1>6, LenProperties
<1>9. ASSUME r.got.kind = "tag", at = r.got.at
      PROVE  r.got.tag = AsRead(item.tag) /\ r.n = Len(w)
  <2>1. TagTold(r, r.got)
    BY <1>2, <1>9 DEF Told
  <2>2. /\ r.got.tag = TagThere(at) /\ r.n = TagSize(src[at + 1]) /\ at + r.n <= Len(src)
    BY <1>9, <2>1 DEF TagTold
  <2>3. at + 1 <= Len(src)
    <3>1. r.n > 0
      BY <2>1 DEF TagTold
    <3> QED
      BY <1>2, <1>3, <1>8, <2>2, <3>1
  <2>4. src[at + 1] = w[1]
    <3>1. 1 \in DOMAIN w
      BY <1>6, <1>8
    <3> QED
      BY <1>7, <2>3, <3>1 DEF Stands
  <2>5. r.n = Len(w)
    BY <1>6, <2>2, <2>4
  <2>6. SubSeq(src, at + 1, at + Len(w)) = w
    BY <1>2, <1>3, <1>6, <1>7, <2>2, <2>5, AllStands
  <2> QED
    BY <1>6, <2>2, <2>4, <2>5, <2>6 DEF TagThere
<1>10. ASSUME r.got.kind = "time", item.time # <<>>, at + Len(w) + r.n = r.used,
              Len(item.body) = r.n
       PROVE  r.got.time = item.time
  <2>1. TimeTold(r, r.got)
    BY <1>2, <1>10 DEF Told
  <2>2. /\ item.time = <<item.time[1], item.time[2]>>
        /\ Signed64(item.time[1]) /\ item.time[2] \in 0..NanoMax
        /\ item.body = mpack_write_timestamp(item.time[1], item.time[2])
    BY <1>3, <1>10 DEF IsItem
  <2>3. r.n > 0
    BY <1>10, <2>2, TimeIsThere
  <2>4. r.used - r.n + 1 = (at + Len(w)) + 1 /\ r.used = (at + Len(w)) + r.n
        /\ at + Len(w) \in Nat
    BY <1>2, <1>3, <1>8, <1>10
  <2>5. r.used <= Len(src)
    BY <2>1, <2>3 DEF TimeTold
  <2>6. SubSeq(src, (at + Len(w)) + 1, (at + Len(w)) + r.n) = item.body
    <3>1. PICK b \in Nat : b = at + Len(w)
      BY <2>4
    <3>2. Stands(item.body, b, src) /\ b + Len(item.body) <= Len(src)
      BY <1>7, <1>10, <2>4, <2>5, <3>1
    <3>3. SubSeq(src, b + 1, b + Len(item.body)) = item.body
      BY <1>2, <1>4, <3>2, AllStands
    <3> QED
      BY <1>10, <3>1, <3>3
  <2>7. r.got.time = Timestamp(item.body)
    BY <2>1, <2>4, <2>6 DEF TimeTold
  <2>8. Timestamp(item.body) = <<item.time[1], item.time[2]>>
    BY <2>2, TimeComesBack
  <2> QED
    BY <2>2, <2>7, <2>8
<1> QED
  BY <1>9, <1>10 DEF item, at, w

\* In every reader, bytes, tags and the number of bytes that remain are those that stand in
\* the source behind all that was read before, though the fill function may give them in
\* any pieces, to the buffer or to the caller.  And where a value of mpack_write_tag or
\* mpack_write_timestamp stands, it is the one that was written.
THEOREM ReaderAnswersAreExact == Spec => []AnswersAreExact
<1>1. Init => input \in Inputs
  BY DEF Init
<1>2. input \in Inputs /\ [Next]_vars => (input \in Inputs)'
  BY SourceStays DEF vars
<1>3. IInv /\ input \in Inputs => AnswersAreExact
  BY AnswersAreThereHold, ValuesComeBackHold DEF AnswersAreExact
<1> QED
  BY <1>1, <1>2, <1>3, Invariance, PTL DEF Spec

\* No reader reports an error without a cause: bytes that the source does not have, a
\* failure around it, or a value that is none of what the call is for.
THEOREM ReaderErrorsEarned == Spec => ErrorsAreEarned
<1> DEFINE Cause ==
              CASE r'.error = "io"      -> r'.starved \/ Short(r')
                [] r'.error = "eof"     -> Short(r')
                [] r'.error = "memory"  -> r'.starved
                [] r'.error = "invalid" -> \/ r.fill = "none" /\ (Short(r') \/ r.pos < Len(src))
                                           \/ r'.used < Len(src) /\ src[r'.used + 1] = Code(1)
                                           \/ r'.op = "timestamp"
                [] r'.error = "too_big" -> \/ r'.op = "inplace" /\ r'.n > r.size
                                           \/ r'.op = "cstr"
                [] r'.error = "type"    -> \E i \in (r'.used - r'.n + 1)..r'.used : src[i] = 0
                [] r'.error = "bug"     -> r.size < MinBuffer
<1>1. IInv /\ [Next]_vars => [r.error = "ok" /\ r'.error # "ok" => Cause]_vars
  <2> SUFFICES ASSUME IInv, Next, r.error = "ok", r'.error # "ok"
               PROVE  Cause
    BY Zenon
  <2>1. PICK m \in Nat : Step(r', r, m)
    BY NextIs
  <2>2. EarnedFrom(r', r)
    BY <2>1 DEF Step
  <2>3. r'.error \in Errors
    BY <2>1 DEF Step, Inv, Typed
  <2>4. CASE r'.error = "io"
    BY <2>2, <2>4, Zenon DEF EarnedFrom
  <2>5. CASE r'.error = "eof"
    BY <2>2, <2>5, Zenon DEF EarnedFrom
  <2>6. CASE r'.error = "memory"
    BY <2>2, <2>6, Zenon DEF EarnedFrom
  <2>7. CASE r'.error = "invalid"
    BY <2>2, <2>7, Zenon DEF EarnedFrom
  <2>8. CASE r'.error = "too_big"
    BY <2>2, <2>8, Zenon DEF EarnedFrom
  <2>9. CASE r'.error = "type"
    BY <2>2, <2>9, Zenon DEF EarnedFrom
  <2>10. CASE r'.error = "bug"
    BY <2>2, <2>10, Zenon DEF EarnedFrom
  <2> HIDE DEF Cause
  <2> QED
    BY <2>3, <2>4, <2>5, <2>6, <2>7, <2>8, <2>9, <2>10 DEF Errors
<1> QED
  BY <1>1, Invariance, PTL DEF Spec, ErrorsAreEarned

\* After its first error no reader gives a byte of the source or takes one, and the error
\* stays.
THEOREM ReaderErrorIsFinal == Spec => ErrorIsFinal
<1>1. IInv /\ [Next]_vars =>
          [r.error # "ok" =>
              /\ r'.error = r.error /\ r'.used = r.used
              /\ r'.got.kind \in {"nothing", "bytes", "left"}
              /\ r'.got.kind = "bytes" => \A i \in DOMAIN r'.got.bytes : r'.got.bytes[i] = 0
              /\ r'.got.kind = "left" => r'.got.left = 0]_vars
  <2> SUFFICES ASSUME IInv, Next, r.error # "ok"
               PROVE  /\ r'.error = r.error /\ r'.used = r.used
                      /\ r'.got.kind \in {"nothing", "bytes", "left"}
                      /\ r'.got.kind = "bytes" =>
                            \A i \in DOMAIN r'.got.bytes : r'.got.bytes[i] = 0
                      /\ r'.got.kind = "left" => r'.got.left = 0
    BY Zenon
  <2>1. PICK m \in Nat : Step(r', r, m)
    BY NextIs
  <2> QED
    BY <2>1 DEF Step, FinalFrom
<1> QED
  BY <1>1, Invariance, PTL DEF Spec, ErrorIsFinal

=============================================================================
