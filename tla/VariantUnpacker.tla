--------------------------- MODULE VariantUnpacker ---------------------------
(***************************************************************************)
(* The reading of attributes from MessagePack, ctr_variant_utils.h: nested *)
(* arrays and maps of any depth, with every allocation that may fail and   *)
(* every block that is freed or forgotten on the way out.                  *)
(*                                                                         *)
(* The message is not given beforehand: each time the reader wants one, a  *)
(* token of any kind comes, or the end of the input.  A token is the tag   *)
(* that mpack_read_tag returns, n its length, count or value, and whole    *)
(* tells whether the bytes that follow a string can be read.               *)
(***************************************************************************)
EXTENDS Integers, Sequences, SequencesExt

CONSTANTS
    Token,      \* the tokens that may come
    MaxTokens,  \* the bound on the length of a message
    KeyRoom,    \* the bytes for a key, its NUL included (256)
    FixedSize,  \* an array of that many elements is made resizable (100)
    SizeLimit,  \* an array of that many elements is refused (100000)
    Width       \* the bits of an integer (64)

ASSUME LimitsInOrder == FixedSize < SizeLimit

VARIABLES
    seen,       \* the tokens that came, in order
    err,        \* the sticky error of the reader
    stack,      \* the lists being read, the innermost last
    phase,      \* what happens next, see below
    got,        \* the value just read
    blocks,     \* its blocks
    code,       \* the error being returned, 0 for none
    live,       \* the blocks allocated and not freed
    next,       \* the name of the next block
    starved     \* what got no memory

vars == <<seen, err, stack, phase, got, blocks, code, live, next, starved>>

\* "value": a value is wanted for the innermost list; "got": it is there;
\* "list": the list is to go on; "failed": its value could not be read;
\* "broken": the list itself failed; "done".
Phase == {"value", "got", "list", "failed", "broken", "done"}

Value(type, n, keys, kids) == [type |-> type, n |-> n, keys |-> keys, kids |-> kids]
Scalar(type, n) == Value(type, n, <<>>, <<>>)

Frame(type, left, block) ==
    [type |-> type, count |-> left, left |-> left, key |-> 0, keys |-> <<>>, kids |-> <<>>,
     blocks |-> {block}]

Top == Last(stack)
Below == Front(stack)

-----------------------------------------------------------------------------
(* Integers of Width bits.                                                 *)

Half == 2^(Width - 1)

\* Mutant: the largest value that fits.
Saturated(n) == IF n >= Half THEN Half - 1 ELSE n

\* The cast of a uint64_t to int64_t.
AsInt64(n) == IF n >= Half THEN n - 2 * Half ELSE n

\* Mutant: one byte is kept for nothing.
FitsWithOneToSpare(length) == length < KeyRoom - 1

KeyFits(length) == length < KeyRoom

-----------------------------------------------------------------------------
(* Reading.                                                                *)

Wants(type, t) == t.type = type /\ Len(seen) < MaxTokens /\ seen' = Append(seen, t)

\* An error of the list at the top, or of the value that it wants.
Raise(where, c) ==
    /\ phase' = where /\ code' = c

Deliver(v, own) ==
    /\ phase' = "got" /\ got' = v /\ blocks' = own
    /\ live' = live \cup own /\ next' = next + 2
    /\ UNCHANGED <<err, stack, code, starved>>

Hungry(place) == starved' = starved \cup {place}

WantsValue == phase = "value" /\ stack # <<>>

\* mpack_peek_tag, or mpack_read_tag for the first map, meets the end.
EndOfInput ==
    /\ phase = "value"
    /\ Raise(IF stack = <<>> THEN "done" ELSE "failed", -1)
    /\ err' = TRUE
    /\ UNCHANGED <<seen, stack, got, blocks, live, next, starved>>

\* nil, float and extension types are not for attributes.
Unsupported ==
    /\ WantsValue
    /\ \E t \in Token : t.type \in {"nil", "float"} /\ Wants(t.type, t)
    /\ Raise("failed", -1)
    /\ UNCHANGED <<err, stack, got, blocks, live, next, starved>>

\* unpack_cfl_variant_string and _binary: the bytes, then the variant for them.
\* Without the variant the bytes are forgotten.
unpack_cfl_variant_string(tag, type) ==
    /\ WantsValue
    /\ \E t \in Token :
        /\ Wants(tag, t)
        /\ \/ /\ Raise("failed", -3) /\ Hungry("data")
              /\ UNCHANGED <<err, stack, got, blocks, live, next>>
           \/ /\ ~t.whole
              /\ Raise("failed", -4) /\ err' = TRUE
              /\ UNCHANGED <<stack, got, blocks, live, next, starved>>
           \/ /\ t.whole
              /\ Raise("failed", -5) /\ Hungry("variant of data")
              /\ live' = live \cup {next} /\ next' = next + 1
              /\ UNCHANGED <<err, stack, got, blocks>>
           \/ /\ t.whole
              /\ Deliver(Scalar(type, t.n), {next, next + 1})

\* unpack_cfl_variant_boolean, _uint64, _int64 and _double.
unpack_cfl_variant_scalar(tag, type, Convert(_)) ==
    /\ WantsValue
    /\ \E t \in Token :
        /\ Wants(tag, t)
        /\ \/ /\ Raise("failed", -3) /\ Hungry("scalar")
              /\ UNCHANGED <<err, stack, got, blocks, live, next>>
           \/ Deliver(Scalar(type, Convert(t.n)), {next})

Same(n) == n

OpenList(type, t) ==
    /\ stack' = Append(stack, Frame(type, t.n, next))
    /\ live' = live \cup {next} /\ next' = next + 1
    /\ phase' = "list"
    /\ UNCHANGED <<err, got, blocks, code, starved>>

unpack_cfl_array ==
    /\ WantsValue
    /\ \E t \in Token :
        /\ Wants("array", t)
        /\ \/ /\ t.n >= SizeLimit
              /\ Raise("failed", -2)
              /\ UNCHANGED <<err, stack, got, blocks, live, next, starved>>
           \/ /\ t.n < SizeLimit
              /\ Raise("failed", -3) /\ Hungry("list")
              /\ UNCHANGED <<err, stack, got, blocks, live, next>>
           \/ t.n < SizeLimit /\ OpenList("array", t)

\* Also the first thing that is read, where nothing but a map will do.
unpack_cfl_kvlist ==
    /\ phase = "value"
    /\ \E t \in Token :
        \/ /\ Wants("map", t)
           /\ \/ /\ Raise(IF stack = <<>> THEN "done" ELSE "failed", -3) /\ Hungry("list")
                 /\ UNCHANGED <<err, stack, got, blocks, live, next>>
              \/ OpenList("kvlist", t)
        \/ /\ stack = <<>> /\ t.type # "map" /\ Wants(t.type, t)
           /\ Raise("done", -2)
           /\ UNCHANGED <<err, stack, got, blocks, live, next, starved>>

-----------------------------------------------------------------------------
(* The lists.                                                              *)

ReadKey ==
    /\ phase = "list" /\ Top.type = "kvlist" /\ Top.left > 0
    /\ UNCHANGED <<got, blocks, live, next, starved>>
    /\ \/ Raise("broken", -4) /\ err' = TRUE /\ UNCHANGED <<seen, stack>>
       \/ \E t \in Token :
            \/ /\ t.type # "str" /\ Wants(t.type, t)
               /\ Raise("broken", -4)
               /\ UNCHANGED <<err, stack>>
            \/ /\ Wants("str", t) /\ ~KeyFits(t.n)
               /\ Raise("broken", -5)
               /\ UNCHANGED <<err, stack>>
            \/ /\ Wants("str", t) /\ KeyFits(t.n) /\ ~t.whole
               /\ Raise("broken", -6) /\ err' = TRUE
               /\ UNCHANGED stack
            \/ /\ Wants("str", t) /\ KeyFits(t.n) /\ t.whole
               /\ stack' = Append(Below, [Top EXCEPT !.key = t.n])
               /\ phase' = "value"
               /\ UNCHANGED <<err, code>>

NextElement ==
    /\ phase = "list" /\ Top.type = "array" /\ Top.left > 0
    /\ phase' = "value"
    /\ UNCHANGED <<seen, err, stack, got, blocks, code, live, next, starved>>

\* cfl_array_append and cfl_kvlist_insert: the value belongs to the list.
Add ==
    /\ phase = "got"
    /\ stack' = Append(Below, [Top EXCEPT !.left = @ - 1,
                                          !.keys = Append(@, Top.key),
                                          !.kids = Append(@, got),
                                          !.blocks = @ \cup blocks])
    /\ phase' = "list"
    /\ UNCHANGED <<seen, err, got, blocks, code, live, next, starved>>

\* A resizable array that is full has to grow; the value is forgotten.
AppendFails ==
    /\ phase = "got" /\ Top.type = "array"
    /\ Top.count >= FixedSize /\ Len(Top.kids) >= FixedSize
    /\ Raise("broken", -5) /\ Hungry("append")
    /\ UNCHANGED <<seen, err, stack, got, blocks, live, next>>

\* Mutant: nobody destroys the value.
InsertFailsAndForgets ==
    /\ phase = "got" /\ Top.type = "kvlist"
    /\ Raise("broken", -8) /\ Hungry("insert")
    /\ UNCHANGED <<seen, err, stack, got, blocks, live, next>>

InsertFails ==
    /\ phase = "got" /\ Top.type = "kvlist"
    /\ Raise("broken", -8) /\ Hungry("insert")
    /\ live' = live \ blocks
    /\ UNCHANGED <<seen, err, stack, got, blocks, next>>

\* The list is complete: it is the result, or it gets a variant, without which
\* it is forgotten with all it holds.
CloseList ==
    LET list == Value(Top.type, Top.count, IF Top.type = "array" THEN <<>> ELSE Top.keys, Top.kids)
    IN  /\ phase = "list" /\ Top.left = 0
        /\ stack' = Below
        /\ UNCHANGED <<seen, err>>
        /\ IF Len(stack) = 1
           THEN /\ phase' = "done" /\ got' = list /\ blocks' = Top.blocks
                /\ UNCHANGED <<code, live, next, starved>>
           ELSE \/ /\ phase' = "got" /\ got' = list /\ blocks' = Top.blocks \cup {next}
                   /\ live' = live \cup {next} /\ next' = next + 1
                   /\ UNCHANGED <<code, starved>>
                \/ /\ Raise("failed", -3) /\ Hungry("variant of list")
                   /\ UNCHANGED <<got, blocks, live, next>>

\* What a list answers that gives up: a map its own error, that of the reader
\* before all others, and neither the one of the value that it wanted.
Answer ==
    IF Top.type = "array" THEN IF phase = "failed" THEN -4 ELSE code
    ELSE IF err THEN -9 ELSE IF phase = "failed" THEN -7 ELSE code

GiveUp ==
    /\ phase \in {"failed", "broken"}
    /\ stack' = Below
    /\ live' = live \ Top.blocks
    /\ code' = Answer
    /\ phase' = IF Len(stack) = 1 THEN "done" ELSE "failed"
    /\ UNCHANGED <<seen, err, got, blocks, next, starved>>

-----------------------------------------------------------------------------
Init ==
    /\ seen = <<>> /\ err = FALSE /\ stack = <<>> /\ phase = "value"
    /\ got = Scalar("none", 0) /\ blocks = {}
    /\ code = 0
    /\ live = {} /\ next = 1 /\ starved = {}

Next ==
    \/ EndOfInput \/ Unsupported
    \/ unpack_cfl_variant_string("str", "string")
    \/ unpack_cfl_variant_string("bin", "bytes")
    \/ unpack_cfl_variant_scalar("bool", "bool", Same)
    \/ unpack_cfl_variant_scalar("uint", "int", AsInt64)
    \/ unpack_cfl_variant_scalar("int", "int", Same)
    \/ unpack_cfl_variant_scalar("double", "double", Same)
    \/ unpack_cfl_array \/ unpack_cfl_kvlist
    \/ ReadKey \/ NextElement \/ Add \/ AppendFails \/ InsertFails \/ CloseList \/ GiveUp

Spec == Init /\ [][Next]_vars

-----------------------------------------------------------------------------
(* Properties.                                                             *)

Done == phase = "done"

\* The blocks that are left are those of the result; others are left only where
\* the variant for data or for a list, or the room for one more element of a
\* long array, could not be allocated (lines 420, 466, 571, 592 and 262).
LeaksAreEarned ==
    Done => /\ code = 0 => live = blocks
            /\ live # {} /\ code # 0 =>
                  starved \cap {"variant of data", "variant of list", "append"} # {}

=============================================================================
