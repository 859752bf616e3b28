------------------------------ MODULE MpackTag ------------------------------
(***************************************************************************)
(* The MessagePack form of one value, as lib/mpack writes it and reads it  *)
(* back: what stands in the first byte, which width a number gets, and     *)
(* which byte sequences are no value.                                      *)
(*                                                                         *)
(* A byte has Base values, 256 in the code.  The 32 bytes from 0xc0 to     *)
(* 0xdf keep their order for any Base; what is left is shared by the small *)
(* numbers and lengths, half of it for the numbers.  A value is a tag      *)
(* [type, v, x]: v is the number, the bits of a float, or the length, and  *)
(* x the type of an extension.                                             *)
(***************************************************************************)
EXTENDS Integers, Sequences, FiniteSetsExt

CONSTANTS
    Base,      \* the values of a byte
    FixCount,  \* arrays and maps shorter than this have a tag of one byte, 16 in the code
    FixStr,    \* strings shorter than this as well, 32 in the code
    FixInt,    \* numbers from -FixInt on have no other byte, 32 in the code
    NanoMax    \* MPACK_TIMESTAMP_NANOSECONDS_MAX

\* The numbers that two and four bytes have.
Word == Base * Base

LongWord == Word * Word

ASSUME TagAssumption ==
    /\ {Base, FixCount, FixStr, FixInt, NanoMax} \subseteq Nat
    /\ (Base \div 2) + 2 * FixCount + FixStr + 32 + FixInt = Base /\ Base > 16
    /\ Base % 2 = 0 /\ 4 * (NanoMax + 1) <= LongWord

Tag(type, v, x) == [type |-> type, v |-> v, x |-> x]

Nil == Tag("nil", 0, 0)

Signed64(v)   == v \in Int /\ v \div LongWord \in -(LongWord \div 2)..(LongWord \div 2 - 1)
Unsigned64(v) == v \in Nat /\ v \div LongWord < LongWord

\* The values of mpack_tag_t: the numbers of the C types in it.
IsTag(t) ==
    /\ t = Tag(t.type, t.v, t.x)
    /\ \/ t.type = "nil" /\ t.v = 0
       \/ t.type = "bool" /\ t.v \in 0..1
       \/ t.type = "int" /\ Signed64(t.v)
       \/ t.type \in {"uint", "double"} /\ Unsigned64(t.v)
       \/ t.type \in {"float", "str", "bin", "ext", "array", "map"} /\ t.v \in 0..(LongWord - 1)
    /\ t.x \in IF t.type = "ext" THEN -(Base \div 2)..(Base \div 2 - 1) ELSE {0}

-----------------------------------------------------------------------------
(* Numbers as bytes, the first one the highest.                            *)

\* The casts to a smaller type drop what is in front.  Of negative numbers, too.
store_u8(v)  == <<v % Base>>
store_u16(v) == store_u8(v \div Base) \o store_u8(v)
store_u32(v) == store_u16(v \div Word) \o store_u16(v)
store_u64(v) == store_u32(v \div LongWord) \o store_u32(v)

Digits(v, k) ==
    CASE k = 1 -> store_u8(v) [] k = 2 -> store_u16(v) [] k = 4 -> store_u32(v)
      [] k = 8 -> store_u64(v)

load_u8(p, i)  == p[i]
load_u16(p, i) == Base * load_u8(p, i) + load_u8(p, i + 1)
load_u32(p, i) == Word * load_u16(p, i) + load_u16(p, i + 2)
load_u64(p, i) == LongWord * load_u32(p, i) + load_u32(p, i + 4)

\* The number in k bytes from the i-th on.
Load(p, i, k) ==
    CASE k = 0 -> 0 [] k = 1 -> load_u8(p, i) [] k = 2 -> load_u16(p, i)
      [] k = 4 -> load_u32(p, i) [] k = 8 -> load_u64(p, i)

\* Of a signed number the first byte has the sign.
load_i8(p, i)  == IF p[i] < Base \div 2 THEN p[i] ELSE p[i] - Base
load_i16(p, i) == Base * load_i8(p, i) + load_u8(p, i + 1)
load_i32(p, i) == Word * load_i16(p, i) + load_u16(p, i + 2)
load_i64(p, i) == LongWord * load_i32(p, i) + load_u32(p, i + 4)

LoadSigned(p, i, k) ==
    CASE k = 1 -> load_i8(p, i) [] k = 2 -> load_i16(p, i) [] k = 4 -> load_i32(p, i)
      [] k = 8 -> load_i64(p, i)

Limit(k) == CASE k = 1 -> Base [] k = 2 -> Word [] k = 4 -> LongWord

UMax(k) == Limit(k) - 1

IMin(k) == -(Limit(k) \div 2)

Width(j) == <<1, 2, 4, 8, 16>>[j + 1]

\* Of the widths the first that fits; the widest one is not asked.
Least(js, Fits(_)) == Min({j \in js : j = Max(js) \/ Fits(Width(j))})

-----------------------------------------------------------------------------
(* Writing.                                                                *)

\* 0xc0 + i.
Code(i) == Base - FixInt - 32 + i

FixMap == Base \div 2
FixArray == FixMap + FixCount
FixString == FixArray + FixCount

Encoded(i, v, k) == <<Code(i)>> \o Digits(v, k)

\* A length: in the first byte, or behind the j-th of the type's bytes.
Sized(first, fix, i, js, n) ==
    LET j == Least(js, LAMBDA k : n <= UMax(k))
    IN IF n < fix THEN <<first + n>> ELSE Encoded(i + j, n, Width(j))

\* mpack_write_u8, u16, u32 and u64 have the same cases as far as their type goes.
mpack_write_u64(v) ==
    LET j == Least(0..3, LAMBDA k : v <= UMax(k))
    IN IF v < Base \div 2 THEN <<v>> ELSE Encoded(12 + j, v, Width(j))

\* So have mpack_write_i8, i16, i32 and i64; a positive number is written unsigned.
mpack_write_i64(v) ==
    LET j == Least(0..3, LAMBDA k : v >= IMin(k))
    IN IF v >= 0 THEN mpack_write_u64(v)
       ELSE IF v >= -FixInt THEN Digits(v, 1) ELSE Encoded(16 + j, v, Width(j))

mpack_start_array(n) == Sized(FixArray, FixCount, 27, 1..2, n)

mpack_start_map(n) == Sized(FixMap, FixCount, 29, 1..2, n)

mpack_start_str(n) == Sized(FixString, FixStr, 25, 0..2, n)

mpack_start_bin(n) == Sized(0, 0, 4, 0..2, n)

FixExts == {1, 2, 4, 8, 16}

\* mpack_encode_ext8 to mpack_encode_ext32: the type comes behind the length.
ExtOfAnyLength(exttype, n) == Sized(0, 0, 7, 0..2, n) \o Digits(exttype, 1)

mpack_start_ext(exttype, n) ==
    IF n \in FixExts
    THEN Encoded(20 + (CHOOSE j \in 0..4 : Width(j) = n), exttype, 1)
    ELSE ExtOfAnyLength(exttype, n)

mpack_write_tag(t) ==
    CASE t.type = "nil"    -> <<Code(0)>>
      [] t.type = "bool"   -> <<Code(2 + t.v)>>
      [] t.type = "float"  -> Encoded(10, t.v, 4)
      [] t.type = "double" -> Encoded(11, t.v, 8)
      [] t.type = "int"    -> mpack_write_i64(t.v)
      [] t.type = "uint"   -> mpack_write_u64(t.v)
      [] t.type = "str"    -> mpack_start_str(t.v)
      [] t.type = "bin"    -> mpack_start_bin(t.v)
      [] t.type = "ext"    -> mpack_start_ext(t.x, t.v)
      [] t.type = "array"  -> mpack_start_array(t.v)
      [] t.type = "map"    -> mpack_start_map(t.v)

\* MPACK_EXTTYPE_TIMESTAMP
TimestampType == -1

\* mpack_encode_timestamp_8: 34 bits of seconds, and 30 of nanoseconds above them.
Packed(seconds, nanoseconds) ==
    Digits(4 * nanoseconds + seconds \div LongWord, 4) \o Digits(seconds, 4)

mpack_write_timestamp(seconds, nanoseconds) ==
    IF seconds < 0 \/ seconds >= 4 * LongWord
    THEN Digits(nanoseconds, 4) \o Digits(seconds, 8)
    ELSE IF seconds > UMax(4) \/ nanoseconds > 0 THEN Packed(seconds, nanoseconds)
    ELSE Digits(seconds, 4)

-----------------------------------------------------------------------------
(* Reading.                                                                *)

\* The types of 0xc0 to 0xdf, and how many bytes of a number follow.
Codes ==
    <<<<"nil", 0>>, <<"reserved", 0>>, <<"bool", 0>>, <<"bool", 0>>,
      <<"bin", 1>>, <<"bin", 2>>, <<"bin", 4>>, <<"ext", 1>>, <<"ext", 2>>, <<"ext", 4>>,
      <<"float", 4>>, <<"double", 8>>,
      <<"uint", 1>>, <<"uint", 2>>, <<"uint", 4>>, <<"uint", 8>>,
      <<"int", 1>>, <<"int", 2>>, <<"int", 4>>, <<"int", 8>>,
      <<"fixext", 0>>, <<"fixext", 0>>, <<"fixext", 0>>, <<"fixext", 0>>, <<"fixext", 0>>,
      <<"str", 1>>, <<"str", 2>>, <<"str", 4>>,
      <<"array", 2>>, <<"array", 4>>, <<"map", 2>>, <<"map", 4>>>>

IsFix(b) == b < Code(0) \/ b > Code(31)

CodeOf(b) == Codes[b - Code(0) + 1]

\* How many bytes mpack_parse_tag needs once it knows the first one.
TagSize(b) ==
    IF IsFix(b) THEN 1
    ELSE 1 + CodeOf(b)[2] + (IF CodeOf(b)[1] \in {"ext", "fixext"} THEN 1 ELSE 0)

FixTag(b) ==
    CASE b < FixMap                      -> Tag("uint", b, 0)
      [] b >= FixMap /\ b < FixArray     -> Tag("map", b - FixMap, 0)
      [] b >= FixArray /\ b < FixString  -> Tag("array", b - FixArray, 0)
      [] b >= FixString /\ b < Code(0)   -> Tag("str", b - FixString, 0)
      [] b > Code(31)                    -> Tag("int", b - Base, 0)

\* The tag that stands in as many bytes as TagSize says.
mpack_parse_tag(bytes) ==
    LET b == bytes[1]
        c == CodeOf(b)
    IN IF IsFix(b) THEN FixTag(b)
       ELSE CASE c[1] = "bool"   -> Tag("bool", b - Code(2), 0)
              [] c[1] = "int"    -> Tag("int", LoadSigned(bytes, 2, c[2]), 0)
              [] c[1] = "ext"    -> Tag("ext", Load(bytes, 2, c[2]), load_i8(bytes, c[2] + 2))
              [] c[1] = "fixext" -> Tag("ext", Width(b - Code(20)), load_i8(bytes, 2))
              [] OTHER           -> Tag(c[1], Load(bytes, 2, c[2]), 0)

\* What a reader sees of a value: it cannot know that a positive number was signed.
AsRead(t) == IF t.type = "int" /\ t.v >= 0 THEN [t EXCEPT !.type = "uint"] ELSE t

\* The seconds and nanoseconds in the 4, 8 or 12 bytes of a timestamp.
Timestamp(bytes) ==
    LET high == load_u32(bytes, 1)
        low  == load_u32(bytes, 5)
    IN CASE Len(bytes) = 4  -> <<high, 0>>
         [] Len(bytes) = 8  -> <<(high % 4) * LongWord + low, high \div 4>>
         [] Len(bytes) = 12 -> <<load_i64(bytes, 5), high>>

=============================================================================
