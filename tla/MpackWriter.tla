---------------------------- MODULE MpackWriter ----------------------------
(***************************************************************************)
(* The writer of lib/mpack, through which ctr_encode_msgpack_create puts   *)
(* its message together: a buffer that is flushed when it is full, either  *)
(* into itself by growing (mpack_writer_init_growable, the one the library *)
(* uses) or into a file, or not at all.                                    *)
(*                                                                         *)
(* The k-th byte that the caller gives to the writer is the number k, so   *)
(* that a byte that is lost, doubled or moved shows.  Any allocation may   *)
(* fail, and a file may take fewer bytes than it is given.                 *)
(***************************************************************************)
EXTENDS Integers

CONSTANTS
    Capacity,    \* MPACK_BUFFER_SIZE
    MinBuffer,   \* MPACK_WRITER_MINIMUM_BUFFER_SIZE
    FixStr,      \* the longest string with a tag of one byte
    Str8,        \* the longest string with a tag of two bytes
    MaxTag,      \* the longest tag
    FixedSizes,  \* the sizes of buffers that callers bring
    MaxAsked,    \* bound: the bytes that are written
    MaxDoublings \* bound: how often one flush doubles the buffer

\* mpack_writer_set_flush asserts the two facts about the smallest buffer.
ASSUME WriterAssumption ==
    /\ {Capacity, MinBuffer, FixStr, Str8, MaxTag, MaxAsked, MaxDoublings} \subseteq Nat
    /\ FixedSizes \subseteq Nat
    /\ Capacity >= MinBuffer /\ MinBuffer >= MaxTag /\ MaxTag >= 3
    /\ FixStr + 1 = MinBuffer /\ FixStr < Str8

VARIABLES
    w,       \* the mpack_writer_t, and what is known of its memory and of its file
    phase    \* "none", "open", "closed"

vars == <<w, phase>>

Errors == {"ok", "memory", "io", "too_big", "bug"}

\* What w.current leaves of the buffer, whose bytes are mem[0] to mem[size - 1].
Left(s) == s.size - s.current

\* mpack_writer_flag_error: the first error stays.
Flag(s, e) == IF s.error = "ok" THEN [s EXCEPT !.error = e] ELSE s

\* Bytes first .. first + n - 1 of the caller at offset `at` of an array of `size`.
Over(mem, size, at, n, first) ==
    [i \in 0..(size - 1) |->
        IF i \in at..(at + n - 1) THEN first + i - at
        ELSE IF i \in DOMAIN mem THEN mem[i] ELSE 0]

\* The caller's next n bytes go to where `current` is.
Store(s, n) ==
    [s EXCEPT !.mem = Over(s.mem, s.size, s.current, n, s.asked + 1), !.current = @ + n]

\* free(): "twice" if the block was not there to be freed.
Freed(b) == IF b = "live" THEN "freed" ELSE "twice"

-----------------------------------------------------------------------------
(* Flush functions: `own` says that they are given the buffer, and not n   *)
(* bytes that the caller has in hand.                                      *)

\* No growth where the old bytes fit.
GrownIfNeeded(size, need) == {IF need <= size THEN size ELSE 2 * size}   \* mutant

\* The first of size * 2, size * 4, ... that is large enough.
Grown(size, need) ==
    {m \in (2 * size)..(size * 2 ^ MaxDoublings) :
        /\ m >= need
        /\ \E k \in 1..MaxDoublings : m = size * 2 ^ k
        /\ m = 2 * size \/ m < 2 * need}

\* The new bytes are put where the old ones are.
EnlargedLosing(s, m, n) ==   \* mutant
    [s EXCEPT !.size = m, !.current = @ + n, !.mem = Over(s.mem, m, 0, n, s.asked + 1)]

\* realloc() keeps what the old block held, and n more bytes go behind it.
Enlarged(s, m, n) ==
    [s EXCEPT !.size = m, !.current = @ + n,
              !.mem = Over(s.mem, m, s.current, n, s.asked + 1)]

Grow(s, n) ==
    {Flag([s EXCEPT !.starved = TRUE], "memory")} \cup
    {Enlarged(s, m, n) : m \in Grown(s.size, s.current + n)}

\* At the end of a writer the buffer is flushed with `current` behind its bytes.
IsTeardown(s, n) == s.current = n

mpack_growable_writer_flush(s, own, n) ==
    IF own /\ IsTeardown(s, n) THEN {s}
    ELSE IF own THEN Grow([s EXCEPT !.current = n], 0)
    ELSE Grow(s, n)

\* fwrite() takes some of the bytes, or all.
Appended(s, own, k) ==
    [s EXCEPT !.sent = @ + k,
              !.file = [i \in 0..(s.sent + k - 1) |->
                            IF i < s.sent THEN s.file[i]
                            ELSE IF own THEN s.mem[i - s.sent]
                            ELSE s.asked + 1 + i - s.sent]]

mpack_file_writer_flush(s, own, n) ==
    {Appended(s, own, n)} \cup
    {Flag([Appended(s, own, k) EXCEPT !.starved = TRUE], "io") : k \in 0..(n - 1)}

Flush(s, own, n) ==
    IF s.flush = "growable" THEN mpack_growable_writer_flush(s, own, n)
    ELSE mpack_file_writer_flush(s, own, n)

mpack_writer_flush_unchecked(s) == Flush([s EXCEPT !.current = 0], TRUE, s.current)

-----------------------------------------------------------------------------
(* Writing: the writers that a call may leave.                             *)

\* A flush function that did not make room.
Checked(s, n) == IF s.error = "ok" /\ Left(s) < n THEN Flag(s, "io") ELSE s

mpack_writer_ensure(s, n) ==
    IF s.error # "ok" THEN {s}
    ELSE IF s.flush = "none" THEN {Flag(s, "too_big")}
    ELSE {Checked(v, n) : v \in mpack_writer_flush_unchecked(s)}

mpack_write_native_straddle(s, n) ==
    IF s.error # "ok" THEN {s}
    ELSE IF s.flush = "none" THEN {Flag(s, "too_big")}
    ELSE UNION {IF v.error # "ok" THEN {v}
                ELSE IF n > Left(v) THEN Flush(v, FALSE, n)
                ELSE {Store(v, n)} : v \in mpack_writer_flush_unchecked(s)}

Asked(S, n) == {[v EXCEPT !.asked = @ + n] : v \in S}

\* One byte too many is let into the buffer.
FitsAlmost(s, n) == n <= Left(s) + 1   \* mutant

Fits(s, n) == n <= Left(s)

mpack_write_native(s, n) ==
    Asked(IF Fits(s, n) THEN {Store(s, n)} ELSE mpack_write_native_straddle(s, n), n)

\* MPACK_WRITE_ENCODED: a tag goes in whole, or not at all.
Encoded(s, n) ==
    Asked(IF Fits(s, n) THEN {Store(s, n)}
          ELSE {IF v.error = "ok" THEN Store(v, n) ELSE v : v \in mpack_writer_ensure(s, n)}, n)

\* A tag of t bytes, then the n bytes of a string.
TagThenBytes(s, t, n) == UNION {mpack_write_native(v, n) : v \in Encoded(s, t)}

mpack_write_str(s, n) ==
    IF n <= FixStr THEN Encoded(s, n + 1)
    ELSE IF n > Str8 THEN TagThenBytes(s, 3, n)
    ELSE IF Fits(s, n + 2) THEN Asked({Store(s, n + 2)}, n + 2)
    ELSE TagThenBytes(s, 2, n)

-----------------------------------------------------------------------------
(* The end of a writer.                                                    *)

\* Less than half of the buffer is used: give the rest back.
Shrunk(s) ==
    LET m == IF s.current = 0 THEN 1 ELSE s.current
    IN [s EXCEPT !.size = m, !.mem = Over(s.mem, m, s.current, 0, 0)]

TeardownHandsOver(s) == {[s EXCEPT !.block = "given"]}   \* mutant

\* *target_data and *target_size become mem and current, or stay NULL and 0.
mpack_growable_writer_teardown(s) ==
    IF s.error # "ok" THEN {[s EXCEPT !.block = Freed(@)]}
    ELSE IF s.current >= s.size \div 2 THEN {[s EXCEPT !.block = "given"]}
    ELSE {Flag([s EXCEPT !.block = Freed(@), !.starved = TRUE], "memory"),
          [Shrunk(s) EXCEPT !.block = "given"]}

Closed(s) == {s, Flag([s EXCEPT !.starved = TRUE], "io")}

mpack_file_writer_teardown(s) == {[v EXCEPT !.block = Freed(@)] :
    v \in IF s.teardown = "close" THEN Closed(s) ELSE {s}}

Teardown(s) ==
    IF s.teardown = "none" THEN {s}
    ELSE IF s.teardown = "growable" THEN mpack_growable_writer_teardown(s)
    ELSE mpack_file_writer_teardown(s)

LastFlushAlways(s) ==   \* mutant
    IF s.current # 0 /\ s.flush # "none" THEN Flush(s, TRUE, s.current) ELSE {s}

\* What is left in the buffer is flushed unless there was an error.
LastFlush(s) ==
    IF s.error = "ok" /\ s.current # 0 /\ s.flush # "none"
    THEN {[v EXCEPT !.flush = "none"] : v \in Flush(s, TRUE, s.current)}
    ELSE {s}

\* What is left is flushed, and the error, if any, is the caller's to look at.
mpack_writer_destroy(s) == UNION {Teardown(v) : v \in LastFlush(s)}

-----------------------------------------------------------------------------
(* Specification.                                                          *)

\* mpack_writer_init: a buffer of n bytes.
Ready(n, flush, teardown, block) ==
    [error |-> "ok", mem |-> [i \in 0..(n - 1) |-> 0], size |-> n, current |-> 0,
     flush |-> flush, teardown |-> teardown, block |-> block, file |-> [i \in 0..(-1) |-> 0],
     sent |-> 0, asked |-> 0, starved |-> FALSE]

mpack_writer_init_error(e) ==
    [Ready(0, "none", "none", "none") EXCEPT !.error = e, !.starved = TRUE]

Opened(S) == phase = "none" /\ phase' = "open" /\ w' \in S

mpack_writer_init_growable ==
    Opened({Ready(Capacity, "growable", "growable", "live"), mpack_writer_init_error("memory")})

mpack_writer_init_stdfile == \E teardown \in {"file", "close"} :
    Opened({Ready(Capacity, "file", teardown, "live"), mpack_writer_init_error("memory")})

mpack_writer_init_filename ==
    Opened({Ready(Capacity, "file", "close", "live"), mpack_writer_init_error("memory"),
            mpack_writer_init_error("io")})

mpack_writer_init == \E n \in FixedSizes : Opened({Ready(n, "none", "none", "none")})

\* A caller with a buffer and a file of its own.
mpack_writer_set_flush ==
    /\ phase = "open" /\ w.teardown = "none" /\ w.error = "ok" /\ w.asked = 0
    /\ w' = IF w.size < MinBuffer THEN Flag(w, "bug") ELSE [w EXCEPT !.flush = "file"]
    /\ UNCHANGED phase

MayAsk(n) == phase = "open" /\ w.asked + n <= MaxAsked /\ UNCHANGED phase

write_tag == \E n \in 1..MaxTag : MayAsk(n) /\ w' \in Encoded(w, n)

write_str == \E n \in 0..MaxAsked : MayAsk(n + 3) /\ w' \in mpack_write_str(w, n)

mpack_write_bytes == \E n \in 0..MaxAsked : MayAsk(n) /\ w' \in mpack_write_native(w, n)

mpack_writer_flush_message ==
    /\ phase = "open" /\ w.error = "ok" /\ w.size <= MaxAsked
    /\ w' \in IF w.flush = "none" THEN {Flag(w, "bug")}
              ELSE IF w.current = 0 THEN {w}
              ELSE mpack_writer_flush_unchecked(w)
    /\ UNCHANGED phase

Destroy == phase = "open" /\ phase' = "closed" /\ w' \in mpack_writer_destroy(w)

Init == w = Ready(0, "none", "none", "none") /\ phase = "none"

Next == \/ mpack_writer_init_growable \/ mpack_writer_init_stdfile
        \/ mpack_writer_init_filename \/ mpack_writer_init \/ mpack_writer_set_flush
        \/ write_tag \/ write_str \/ mpack_write_bytes
        \/ mpack_writer_flush_message \/ Destroy

Spec == Init /\ [][Next]_vars

-----------------------------------------------------------------------------
(* Properties.                                                             *)

\* Types; above all, that nothing is stored behind the end of the buffer.
TypeOK ==
    /\ phase \in {"none", "open", "closed"}
    /\ w.error \in Errors /\ w.starved \in BOOLEAN
    /\ {w.size, w.sent, w.asked} \subseteq Nat /\ w.current \in 0..w.size
    /\ w.mem \in [0..(w.size - 1) -> Nat] /\ w.file \in [0..(w.sent - 1) -> Nat]
    /\ w.flush \in {"none", "growable", "file"}
    /\ w.teardown \in {"none", "growable", "file", "close"}
    /\ w.block \in {"none", "live", "freed", "given"}

\* A writer that ends without an error has delivered every byte, in order: to the
\* owner of the grown buffer, to the file, or into the buffer that it was lent.
AnswerIsExact ==
    phase = "closed" /\ w.error = "ok" =>
        IF w.sent > 0 \/ w.block = "freed"
        THEN w.sent = w.asked /\ \A i \in 0..(w.sent - 1) : w.file[i] = i + 1
        ELSE w.current = w.asked /\ \A i \in 0..(w.current - 1) : w.mem[i] = i + 1

\* Whatever fails and whatever is written after that, a file has no gap: it holds
\* the first bytes that the writer was given.
FileIsPrefix == \A i \in 0..(w.sent - 1) : w.file[i] = i + 1

\* A block that a writer allocated is freed once, or becomes the caller's, and that
\* only without an error.
BlockHasOneOwner ==
    phase = "closed" => /\ w.block # "live"
                        /\ w.block = "given" <=> w.teardown = "growable" /\ w.error = "ok"

\* No error without a cause: no memory, a file that takes no more, or a buffer that
\* cannot be flushed and is full.  A flush always makes the room that it is called for.
ErrorsAreEarned ==
    /\ w.error \in {"memory", "io"} => w.starved
    /\ w.error = "too_big" => w.flush = "none" /\ w.asked > w.size
    /\ w.flush = "none" /\ phase = "open" /\ w.asked > w.size => w.error # "ok"

=============================================================================
