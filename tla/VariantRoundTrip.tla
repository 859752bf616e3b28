-------------------------- MODULE VariantRoundTrip --------------------------
(***************************************************************************)
(* What VariantUnpacker reads, compared with what ctr_variant_utils.h      *)
(* writes: the tokens of a value, and the values that come back from them. *)
(***************************************************************************)
EXTENDS VariantUnpacker

CONSTANT OwnValues   \* attribute lists of this library, within the limits

\* A key has room for its NUL, and a number at least one bit.
ASSUME RoomAssumption ==
    KeyRoom \in Nat \ {0} /\ Half \in Nat \ {0} /\ SizeLimit \in Nat /\ MaxTokens \in Nat

TokenKind ==
    [type : {"nil", "bool", "uint", "int", "float", "double", "str", "bin", "array", "map"},
     n : Int, whole : BOOLEAN]

\* A token is what mpack_read_tag can return: a count or a length is a natural
\* number, an integer is one of Width bits, and only a string can be torn.
ASSUME TokenAssumption ==
    \A t \in Token :
        /\ t \in TokenKind
        /\ t.type \in {"array", "map", "str", "bin"} => t.n \in Nat
        /\ t.type = "uint" => t.n \in 0..(2 * Half - 1)
        /\ t.type = "int" => t.n \in (-Half)..(Half - 1)
        /\ t.type \notin {"str", "bin"} => t.whole

-----------------------------------------------------------------------------
(* Packing: the tokens of a value (pack_cfl_variant).                      *)

String(n) == [type |-> "str", n |-> n, whole |-> TRUE]

\* An integer that is not negative is written as an unsigned one.
Tag(v) ==
    [type |-> [string |-> "str", bytes |-> "bin", bool |-> "bool", double |-> "double",
               int |-> IF v.n >= 0 THEN "uint" ELSE "int",
               array |-> "array", kvlist |-> "map"][v.type],
     n |-> IF v.type \in {"array", "kvlist"} THEN Len(v.kids) ELSE v.n,
     whole |-> TRUE]

Leaves ==
    [type : {"string", "bytes"}, n : Nat, keys : {<<>>}, kids : {<<>>}]
    \cup [type : {"bool", "double"}, n : Int, keys : {<<>>}, kids : {<<>>}]
    \cup [type : {"int"}, n : (-Half)..(Half - 1), keys : {<<>>}, kids : {<<>>}]

\* The lists of values of V that the reader has room for.
Lists(V) ==
    {v \in [type : {"array", "kvlist"}, n : Nat, keys : Seq(0..(KeyRoom - 1)), kids : Seq(V)] :
        /\ v.n = Len(v.kids)
        /\ v.type = "array" => v.keys = <<>> /\ v.n < SizeLimit
        /\ v.type = "kvlist" => Len(v.keys) = v.n}

Key(v, i) == IF v.type = "kvlist" THEN <<String(v.keys[i])>> ELSE <<>>

\* The tokens of leaves and of lists, given those of the values in the lists.
Around(inner) ==
    [v \in Leaves \cup Lists(DOMAIN inner) |->
        <<Tag(v)>> \o FlattenSeq([i \in DOMAIN v.kids |-> Key(v, i) \o inner[v.kids[i]]])]

\* The tokens of the values that nest that deep.
Packed[depth \in Nat] == Around(IF depth = 0 THEN <<>> ELSE Packed[depth - 1])

\* A message of MaxTokens tokens cannot nest deeper.
Values == DOMAIN Packed[MaxTokens]

Pack(v) == Packed[MaxTokens][v]

ASSUME OwnAssumption == \A v \in OwnValues : v \in Values /\ v.type = "kvlist"

-----------------------------------------------------------------------------
(* Properties.                                                             *)

\* A token as this library writes it: a number that is too large is the negative
\* one that it becomes, one that is not negative is unsigned.
Canonical(t) ==
    IF t.type = "uint" /\ t.n >= Half
    THEN [type |-> "int", n |-> t.n - 2 * Half, whole |-> t.whole]
    ELSE IF t.type = "int" /\ t.n >= 0
    THEN [type |-> "uint", n |-> t.n, whole |-> t.whole]
    ELSE t

\* Whatever a map of another program nests, the value read from it packs to the
\* same tokens again, the integers of 2^63 and more apart: nothing is lost,
\* moved to another list or put under another key.
RepacksAlike ==
    Done /\ code = 0 => Pack(got) = [i \in 1..Len(seen) |-> Canonical(seen[i])]

OwnMessages == {Pack(v) : v \in OwnValues}

\* A list of attributes that the library packed is refused only for want of memory
\* or because its end is missing.
OwnIsTaken ==
    Done /\ code # 0 /\ starved = {} /\ ~err => \A m \in OwnMessages : ~IsPrefix(seen, m)

=============================================================================
