---------------------------- MODULE MpackReader ----------------------------
(***************************************************************************)
(* The reader of lib/mpack, with which ctr_decode_msgpack_create takes     *)
(* messages apart: over data in memory (mpack_reader_init_data, the one    *)
(* the library uses), or over a buffer that a function of the caller or a  *)
(* file fills.                                                             *)
(*                                                                         *)
(* A call that needs more bytes than the buffer holds is several steps,    *)
(* one for each call of the fill function, which may give fewer bytes than *)
(* it is asked for, none at all, or an error of its own.  Bytes are those  *)
(* of MpackTag.                                                            *)
(***************************************************************************)
EXTENDS MpackTag

CONSTANTS
    Inputs,        \* what is read: its bytes, where which value starts, and the readers it has
    Capacity,      \* MPACK_BUFFER_SIZE
    MinBuffer,     \* MPACK_READER_MINIMUM_BUFFER_SIZE
    FixedSizes,    \* the sizes of buffers that callers bring
    SmallFraction, \* MPACK_READER_SMALL_FRACTION_DENOMINATOR
    SkipFraction,  \* the 16 of mpack_skip_bytes_straddle
    Counts,        \* the numbers of bytes that callers ask for
    TextSizes,     \* the sizes of the buffers that they have for strings
    Pieces,        \* bound: how many bytes a fill function gives that gives neither none nor all
    MaxBehind      \* bound: callers stop so many bytes behind the end of the source

\* mpack_reader_set_fill asserts that a buffer holds the longest tag, of nine bytes.
ASSUME ReaderAssumption ==
    /\ {Capacity, MinBuffer, SmallFraction, SkipFraction, MaxBehind} \subseteq Nat
    /\ {FixedSizes, Counts, TextSizes, Pieces} \subseteq SUBSET Nat
    /\ 0 \notin FixedSizes \cup TextSizes \cup Pieces
    /\ Capacity >= MinBuffer /\ MinBuffer >= 9 /\ SmallFraction > 0 /\ SkipFraction > 0
    /\ \A i \in Inputs : i.src \in Seq(0..(Base - 1))

VARIABLES
    input,  \* what is read
    r       \* the mpack_reader_t, its file, and the call that is under way

vars == <<input, r>>

\* Values one behind the other, each with the bytes of a string or an extension.
Concat(items) ==
    LET s[i \in 0..Len(items)] ==
            IF i = 0 THEN <<>>
            ELSE s[i - 1] \o mpack_write_tag(items[i].tag) \o items[i].body
    IN s[Len(items)]

\* The source that they make if `cut` bytes of them arrive, where each of them starts, and
\* whether it is data in memory, a file, or what a function of the caller's gives.
Written(items, cut, ways) ==
    [ways |-> ways, src |-> SubSeq(Concat(items), 1, Min({cut, Len(Concat(items))})),
     starts |-> {[at |-> Len(Concat(SubSeq(items, 1, i - 1))), item |-> items[i]] :
                    i \in DOMAIN items}]

\* A value as it was written; `time` is what mpack_write_timestamp was given, if it was that.
IsItem(item) ==
    /\ IsTag(item.tag) /\ item.body \in Seq(0..(Base - 1))
    /\ item.time # <<>> =>
          /\ item.time = <<item.time[1], item.time[2]>>
          /\ Signed64(item.time[1]) /\ item.time[2] \in 0..NanoMax
          /\ item.body = mpack_write_timestamp(item.time[1], item.time[2])

\* What of the bytes has arrived stands in the source from an offset on.
Stands(bytes, at, source) ==
    \A j \in DOMAIN bytes : at + j <= Len(source) => source[at + j] = bytes[j]

ASSUME WrittenAssumption ==
    \A i \in Inputs : \A start \in i.starts :
        /\ start.at \in Nat /\ IsItem(start.item)
        /\ Stands(mpack_write_tag(start.item.tag) \o start.item.body, start.at, i.src)

src == input.src

Nothing == [kind |-> "nothing"]
TagAt(tag, at) == [kind |-> "tag", tag |-> tag, at |-> at]
NoJob == [then |-> "none", at |-> 0, min |-> 0, max |-> 0, count |-> 0, odd |-> FALSE]

BytesOf(bytes) == [kind |-> "bytes", bytes |-> bytes]

\* What the buffer holds that was not read yet.
Unread(s) == s.end - s.data

FlagKeepingBytes(s, e) == IF s.error = "ok" THEN [s EXCEPT !.error = e] ELSE s   \* mutant

\* `end` goes to `data`, so that nothing looks at the bytes that are left.
Flag(s, e) == IF s.error = "ok" THEN [s EXCEPT !.error = e, !.end = s.data] ELSE s

Window(s, n) == [i \in 1..n |-> s.mem[s.data + i - 1]]

\* A call comes back.
Answer(s, got) ==
    [s EXCEPT !.pc = "idle", !.got = got, !.todo = 0, !.rest = 0, !.out = <<>>, !.job = NoJob]

Refused(s, e) == Answer(Flag(s, e), Nothing)

\* The next n bytes are the call's.
Take(s, n) == [s EXCEPT !.data = @ + n, !.used = @ + n]

-----------------------------------------------------------------------------
(* Filling.                                                                *)

\* mpack_fill_range: from min to max bytes, to an offset of the buffer or to the caller.
Ask(s, then, at, min, max) ==
    [s EXCEPT !.pc = "fill",
              !.job = [NoJob EXCEPT !.then = then, !.at = at, !.min = min, !.max = max]]

NotMoved(s) == [s EXCEPT !.data = 0, !.end = Unread(s)]   \* mutant

\* The bytes that are left move to the front of the buffer.
MovedToFront(s) ==
    LET n == Unread(s)
    IN [s EXCEPT !.mem = [i \in DOMAIN @ |-> IF i < n THEN @[s.data + i] ELSE @[i]],
                 !.data = 0, !.end = n]

\* The fill function gets as much room as an empty buffer has.
AllOfTheBuffer(s, n) ==   \* mutant
    Ask(MovedToFront(s), "ensure", Unread(s), n - Unread(s), s.size)

\* What is there stays, and the fill function gets the room behind it.
RestOfTheBuffer(s, n) ==
    Ask(MovedToFront(s), "ensure", Unread(s), n - Unread(s), s.size - Unread(s))

TooBigIfFull(s, n) == n >= s.size   \* mutant

TooBig(s, n) == n > s.size

\* mpack_reader_ensure_straddle: the call has to have n bytes in the buffer.
Straddle(s, n) ==
    LET t == [s EXCEPT !.n = n]
    IN IF s.fill = "none" THEN Refused(t, "invalid")
       ELSE IF TooBig(s, n) THEN Refused(t, "too_big")
       ELSE RestOfTheBuffer(t, n)

-----------------------------------------------------------------------------
(* Skipping.                                                               *)

\* mpack_discard goes on with the next value inside the one it discards.
NextDiscard(s) == IF s.op = "discard" /\ s.todo > 0 THEN [s EXCEPT !.pc = "more"]
                  ELSE Answer(s, Nothing)

\* Buffers that are skipped as a whole, and one that holds the rest.
mpack_reader_skip_using_fill(s) ==
    IF s.rest > s.size THEN Ask(s, "whole", 0, s.size, s.size)
    ELSE Ask([s EXCEPT !.data = 0], "part", 0, s.rest, s.size)

mpack_skip_bytes_straddle(s, n) ==
    LET t == [s EXCEPT !.data = s.end, !.rest = n - Unread(s)]
    IN IF s.fill = "none" THEN Refused(s, "invalid")
       ELSE IF s.skip /\ t.rest > s.size \div SkipFraction THEN [t EXCEPT !.pc = "seek"]
       ELSE mpack_reader_skip_using_fill(t)

SkipBytes(s, n) ==
    LET t == [s EXCEPT !.n = n]
    IN IF n <= Unread(s) THEN NextDiscard(Take(t, n)) ELSE mpack_skip_bytes_straddle(t, n)

-----------------------------------------------------------------------------
(* Tags.                                                                   *)

\* What is inside of a value, so that mpack_discard has to get over it.
Inside(tag) == CASE tag.type = "array" -> tag.v
                 [] tag.type = "map"   -> 2 * tag.v
                 [] OTHER              -> 0

TagRead(s, tag, k) ==
    IF s.op = "peek" THEN Answer(s, TagAt(tag, s.used))
    ELSE IF s.op = "tag" THEN Answer(Take(s, k), TagAt(tag, s.used))
    ELSE LET t == [Take(s, k) EXCEPT !.todo = @ - 1 + Inside(tag)]
         IN IF tag.type \in {"str", "bin", "ext"} THEN SkipBytes(t, tag.v) ELSE NextDiscard(t)

\* One byte to know the type, then all of the tag.
mpack_read_tag(s) ==
    IF s.error # "ok" THEN Answer(s, Nothing)
    ELSE IF Unread(s) = 0 THEN Straddle(s, 1)
    ELSE LET k == TagSize(s.mem[s.data])
         IN IF k > Unread(s) THEN Straddle(s, k)
            ELSE IF s.mem[s.data] = Code(1) THEN Refused([s EXCEPT !.n = 1], "invalid")
            ELSE TagRead([s EXCEPT !.n = k], mpack_parse_tag(Window(s, k)), k)

-----------------------------------------------------------------------------
(* Bytes.                                                                  *)

\* mpack_read_bytes_inplace_notrack
Inplace(s, n) ==
    IF s.error # "ok" THEN Answer(s, Nothing)
    ELSE IF n <= Unread(s) THEN Answer(Take([s EXCEPT !.n = n], n), BytesOf(Window(s, n)))
    ELSE Straddle(s, n)

\* What each caller of mpack_read_native makes of its bytes.
Delivered(s, bytes) ==
    CASE s.op \in {"bytes", "alloc"} -> Answer(s, BytesOf(bytes))
      [] s.op = "cstr" -> IF s.error = "ok" /\ \E i \in DOMAIN bytes : bytes[i] = 0
                          THEN Refused(s, "type") ELSE Answer(s, BytesOf(bytes))
      [] s.op = "timestamp" -> IF s.error # "ok" THEN Answer(s, Nothing)
                               ELSE IF Timestamp(bytes)[2] > NanoMax THEN Refused(s, "invalid")
                               ELSE Answer(s, [kind |-> "time", time |-> Timestamp(bytes)])

\* Its target is all zeros, or freed, after an error.
Zeros(s, n) == IF s.op = "alloc" THEN Answer(s, Nothing) ELSE Delivered(s, [i \in 1..n |-> 0])

\* What is left in the buffer, then either a new buffer or the rest of the bytes.  That
\* the buffer has no size is not looked at here: without a size there is no fill function.
mpack_read_native_straddle(s, n) ==
    LET rest == n - Unread(s)
        t    == [s EXCEPT !.out = Window(s, Unread(s)), !.data = s.end, !.rest = rest]
    IN IF s.error # "ok" THEN Zeros(s, n)
       ELSE IF s.fill = "none" THEN Zeros(Flag(s, "invalid"), n)
       ELSE IF rest <= s.size \div SmallFraction THEN Ask(t, "small", 0, rest, s.size)
       ELSE Ask(t, "direct", 0, rest, rest)

mpack_read_native(s, n) ==
    LET t == [s EXCEPT !.n = n]
    IN IF n > Unread(s) THEN mpack_read_native_straddle(t, n)
       ELSE Delivered(Take(t, n), Window(t, n))

-----------------------------------------------------------------------------
(* The fill function was called often enough.                              *)

Resume(s) ==
    LET count == s.job.count
    IN CASE s.job.then = "ensure" ->
              LET t == [s EXCEPT !.end = @ + count]
              IN IF s.op = "inplace" THEN Inplace(t, s.n) ELSE mpack_read_tag(t)
         [] s.job.then = "small" ->
              LET t == [s EXCEPT !.data = 0, !.end = count]
              IN Delivered([t EXCEPT !.data = s.rest, !.used = @ + s.n],
                           s.out \o Window(t, s.rest))
         [] s.job.then = "direct" -> Delivered([s EXCEPT !.used = @ + s.n], s.out)
         [] s.job.then = "whole" ->
              mpack_reader_skip_using_fill([s EXCEPT !.rest = @ - s.size])
         [] s.job.then = "part" ->
              NextDiscard([s EXCEPT !.end = count, !.data = s.rest, !.used = @ + s.n])

\* The fill function gave k bytes.  Every second call of it is odd, so that a call that
\* gives nothing is a step too.
Took(s, k) ==
    LET new == SubSeq(src, s.pos + 1, s.pos + k)
        at  == s.job.at + s.job.count
        t   == [s EXCEPT !.pos = @ + k, !.job.count = @ + k, !.job.odd = ~@]
    IN IF s.job.then = "direct" THEN [t EXCEPT !.out = @ \o new]
       ELSE [t EXCEPT !.mem = [i \in DOMAIN @ |->
                  IF i >= at /\ i < at + k THEN new[i - at + 1] ELSE @[i]]]

\* A fill function that gives nothing is called again.
FilledAnyway(s, k) ==   \* mutant
    LET t == Took(s, k) IN IF t.job.count >= t.job.min THEN Resume(t) ELSE t

Filled(s, k) ==
    LET t == Took(s, k)
    IN IF k = 0 THEN Refused(s, "io")
       ELSE IF t.job.count >= t.job.min THEN Resume(t) ELSE t

\* How many bytes there are for the fill function to give.
Available(s) ==
    LET n == s.job.max - s.job.count
    IN Min({n, IF s.pos > Len(src) THEN 0 ELSE Len(src) - s.pos})

\* A function of the caller's: the source may still have had something to give.
CallbackFill ==
    \/ r' = Refused([r EXCEPT !.starved = TRUE], "io")
    \/ \E k \in {0, Available(r)} \cup {i \in Pieces : i < Available(r)} :
          r' = Filled([r EXCEPT !.starved = (k = 0 /\ Available(r) > 0)], k)

\* mpack_file_reader_fill: fread() gives less only at the end of the file or on an error.
FileFill ==
    IF r.eof THEN r' = Refused(r, "eof")
    ELSE \/ \E k \in {0} \cup Pieces :
               k < Available(r) /\ r' = Filled([r EXCEPT !.starved = (k = 0)], k)
         \/ r' = Filled([r EXCEPT !.eof = Available(r) < r.job.max - r.job.count], Available(r))

Fill ==
    /\ r.pc = "fill" /\ UNCHANGED input
    /\ IF r.fill = "file" THEN FileFill ELSE CallbackFill

\* mpack_file_reader_skip: fseek() goes behind the end of a file without an error.
Seek ==
    /\ r.pc = "seek" /\ UNCHANGED input
    /\ \/ r' = Refused([r EXCEPT !.starved = TRUE], "io")
       \/ r' = NextDiscard([r EXCEPT !.pos = @ + r.rest, !.used = @ + r.n, !.eof = FALSE,
                                     !.sought = TRUE])
       \/ r' = mpack_reader_skip_using_fill(r)

More == r.pc = "more" /\ r' = mpack_read_tag([r EXCEPT !.pc = "idle"]) /\ UNCHANGED input

-----------------------------------------------------------------------------
(* Calls.                                                                  *)

Blank(size, fill, block) ==
    [error |-> "ok", mem |-> [i \in 0..(size - 1) |-> 0], size |-> size, data |-> 0, end |-> 0,
     fill |-> fill, skip |-> fill = "file", block |-> block, pos |-> 0, eof |-> FALSE,
     pc |-> "idle", op |-> "init", n |-> 0, rest |-> 0, todo |-> 0, out |-> <<>>, got |-> Nothing,
     job |-> NoJob, used |-> 0, starved |-> FALSE, sought |-> FALSE, late |-> FALSE]

Opened(way, s) == r.pc = "none" /\ way \in input.ways /\ r' = s /\ UNCHANGED input

\* The data is the source itself, and there is no buffer to fill.
mpack_reader_init_data ==
    Opened("data", [Blank(0, "none", "none") EXCEPT
                        !.mem = [i \in 0..(Len(src) - 1) |-> src[i + 1]],
                        !.end = Len(src), !.pos = Len(src)])

\* The first n bytes are there already.
mpack_reader_init == \E size \in FixedSizes : \E n \in {0, Min({size, Len(src)})} :
    Opened("buffer", [Blank(size, "none", "none") EXCEPT
                !.mem = [i \in DOMAIN @ |-> IF i < n THEN src[i + 1] ELSE 0],
                !.end = n, !.pos = n])

mpack_reader_set_fill ==
    /\ r.pc = "idle" /\ r.op = "init" /\ r.error = "ok" /\ r.fill = "none" /\ UNCHANGED input
    /\ r' = IF r.size < MinBuffer THEN Flag(r, "bug") ELSE [r EXCEPT !.fill = "callback"]

mpack_reader_init_stdfile ==
    \/ Opened("file", Blank(Capacity, "file", "live"))
    \/ Opened("file", [Blank(0, "none", "none") EXCEPT !.error = "memory", !.starved = TRUE])

mpack_reader_init_filename ==
    \/ mpack_reader_init_stdfile
    \/ Opened("file", [Blank(0, "none", "none") EXCEPT !.error = "io", !.starved = TRUE])

Begin(op) == [r EXCEPT !.op = op, !.got = Nothing, !.n = 0, !.late = r.error # "ok"]

\* Bounds: callers make one more call after an error, and stop behind the end of the source.
MayCall ==
    /\ r.pc = "idle" /\ UNCHANGED input
    /\ r.used <= Len(src) + MaxBehind /\ ~r.late

read_tag == MayCall /\ r' = mpack_read_tag(Begin("tag"))

mpack_peek_tag == MayCall /\ r' = mpack_read_tag(Begin("peek"))

mpack_discard == MayCall /\ r' = mpack_read_tag([Begin("discard") EXCEPT !.todo = 1])

mpack_skip_bytes == \E n \in Counts :
    MayCall /\ r' = IF r.error # "ok" THEN Answer(Begin("skip"), Nothing)
                    ELSE SkipBytes(Begin("skip"), n)

mpack_read_bytes == \E n \in Counts : MayCall /\ r' = mpack_read_native(Begin("bytes"), n)

mpack_read_bytes_inplace == \E n \in Counts : MayCall /\ r' = Inplace(Begin("inplace"), n)

\* malloc() may fail.
mpack_read_bytes_alloc == \E n \in Counts : \E null_terminated \in BOOLEAN :
    LET s == Begin("alloc")
    IN /\ MayCall
       /\ \/ r' = IF s.error # "ok" \/ (n = 0 /\ ~null_terminated) THEN Answer(s, Nothing)
                  ELSE mpack_read_native(s, n)
          \/ /\ s.error = "ok" /\ (n > 0 \/ null_terminated)
             /\ r' = Refused([s EXCEPT !.starved = TRUE], "memory")

\* A string and its end have to go into a buffer of the caller's.
mpack_read_cstr == \E n \in Counts : \E buffer_size \in TextSizes :
    LET s == Begin("cstr")
    IN /\ MayCall
       /\ r' = IF s.error # "ok" THEN Answer(s, Nothing)
               ELSE IF n > buffer_size - 1 THEN Refused([s EXCEPT !.n = n], "too_big")
               ELSE mpack_read_native(s, n)

\* For callers that have just read the tag of a timestamp: its length is what they give.
mpack_read_timestamp ==
    /\ MayCall /\ r.op = "tag" /\ r.got.kind = "tag"
    /\ r.got.tag.type = "ext" /\ r.got.tag.x = TimestampType
    /\ r' = IF r.got.tag.v \in {4, 8, 12} THEN mpack_read_native(Begin("timestamp"), r.got.tag.v)
            ELSE Refused(Begin("timestamp"), "invalid")

mpack_reader_remaining ==
    /\ MayCall
    /\ r' = Answer(Begin("remaining"),
                   [kind |-> "left", left |-> IF r.error = "ok" THEN Unread(r) ELSE 0])

\* mpack_file_reader_teardown, behind an fclose() that may fail.
Torn(s) ==
    [Blank(0, "none", IF s.block = "live" THEN "freed" ELSE s.block) EXCEPT
        !.pc = "closed", !.error = s.error, !.starved = s.starved, !.used = s.used]

mpack_reader_destroy ==
    /\ r.pc = "idle" /\ UNCHANGED input
    /\ \/ r' = Torn(r)
       \/ r.fill = "file" /\ r' = Torn(Flag([r EXCEPT !.starved = TRUE], "io"))

Init == input \in Inputs /\ r = [Blank(0, "none", "none") EXCEPT !.pc = "none"]

Call == \/ mpack_reader_init_data \/ mpack_reader_init \/ mpack_reader_set_fill
        \/ mpack_reader_init_filename \/ read_tag \/ mpack_peek_tag \/ mpack_discard
        \/ mpack_skip_bytes \/ mpack_read_bytes \/ mpack_read_bytes_inplace
        \/ mpack_read_bytes_alloc \/ mpack_read_cstr \/ mpack_read_timestamp
        \/ mpack_reader_remaining \/ mpack_reader_destroy

Next == Call \/ Fill \/ Seek \/ More

\* A call that has begun waits for nothing but the fill function, which returns.
Spec == Init /\ [][Next]_vars /\ WF_vars(Fill \/ Seek \/ More)

-----------------------------------------------------------------------------
(* Properties.                                                             *)

\* Types; above all, that no fill function is given more room than there is, and that
\* `data` and `end` stay inside of the buffer.
TypeOK ==
    /\ r.error \in {"ok", "memory", "io", "eof", "invalid", "too_big", "type", "bug"}
    /\ r.pc \in {"none", "idle", "fill", "seek", "more", "closed"}
    /\ r.fill \in {"none", "callback", "file"} /\ r.block \in {"none", "live", "freed"}
    /\ \A i \in DOMAIN r.mem : r.mem[i] \in 0..(Base - 1)
    /\ {r.data, r.end} \subseteq 0..Cardinality(DOMAIN r.mem)
    /\ r.pc # "fill" => r.data <= r.end
    /\ r.pc = "fill" => r.job.min \in 1..r.job.max /\ r.job.count < r.job.min
    /\ r.job.max > 0 /\ r.job.then # "direct" => r.job.at + r.job.max <= r.size
    /\ r.pc = "closed" => r.block # "live"

\* The tag that stands at an offset of the source, had it all been in one piece.
TagThere(at) == mpack_parse_tag(SubSeq(src, at + 1, at + TagSize(src[at + 1])))

\* What a call gives is what stands in the source behind all that the calls before it
\* took, however the bytes came in, and a source that is cut off is noticed, unless fseek()
\* went behind its end.
AnswersAreThere ==
    r.pc = "idle" /\ r.error = "ok" =>
        /\ r.used <= Len(src) \/ r.sought
        /\ r.got.kind = "bytes" => r.got.bytes = SubSeq(src, r.used - r.n + 1, r.used)
        /\ r.got.kind = "tag" =>
              /\ r.got.tag = TagThere(r.got.at)
              /\ r.used = r.got.at + (IF r.op = "peek" THEN 0 ELSE r.n)
        /\ r.got.kind = "left" /\ r.fill = "none" /\ r.pos = Len(src) =>
              r.got.left = Len(src) - r.used

\* A tag is the one that mpack_write_tag wrote, and a time the one that
\* mpack_write_timestamp did.
ValuesComeBack ==
    r.pc = "idle" /\ r.error = "ok" =>
        /\ r.got.kind = "tag" =>
              \A start \in input.starts :
                  start.at = r.got.at =>
                      /\ r.got.tag = AsRead(start.item.tag)
                      /\ r.n = Len(mpack_write_tag(start.item.tag))
        /\ r.got.kind = "time" =>
              \A start \in input.starts :
                  /\ start.item.time # <<>>
                  /\ start.at + Len(mpack_write_tag(start.item.tag)) + r.n = r.used
                  /\ Len(start.item.body) = r.n
                  => r.got.time = start.item.time

\* Both: calls give what the source holds, and the source holds what was written.
AnswersAreExact == AnswersAreThere /\ ValuesComeBack

\* The call had to have bytes that the source does not have.
Short(s) == s.used + s.n > Len(src)

\* No error without a cause: nothing to read any more, no memory, no room in the buffer,
\* or bytes that are none of what the call is for.
ErrorsAreEarned ==
    [][r.error = "ok" /\ r'.error # "ok" =>
        CASE r'.error = "io"      -> r'.starved \/ Short(r')
          [] r'.error = "eof"     -> Short(r')
          [] r'.error = "memory"  -> r'.starved
          [] r'.error = "invalid" -> \/ r.fill = "none" /\ (Short(r') \/ r.pos < Len(src))
                                     \/ r'.used < Len(src) /\ src[r'.used + 1] = Code(1)
                                     \/ r'.op = "timestamp"
          [] r'.error = "too_big" -> \/ r'.op = "inplace" /\ r'.n > r.size
                                     \/ r'.op = "cstr"
          [] r'.error = "type"    -> \E i \in (r'.used - r'.n + 1)..r'.used : src[i] = 0
          [] r'.error = "bug"     -> r.size < MinBuffer]_vars

\* After the first error no call gives a byte of the source or takes one, whatever stands
\* in the buffer, and the error stays the same.
ErrorIsFinal ==
    [][r.error # "ok" =>
        /\ r'.error = r.error /\ r'.used = r.used
        /\ r'.got.kind \in {"nothing", "bytes", "left"}
        /\ r'.got.kind = "bytes" => \A i \in DOMAIN r'.got.bytes : r'.got.bytes[i] = 0
        /\ r'.got.kind = "left" => r'.got.left = 0]_vars

\* Every call comes back: no fill function is called for ever, and no discard counts
\* on elements that do not come.
CallEnds == []<>(r.pc \in {"none", "idle", "closed"})

=============================================================================
