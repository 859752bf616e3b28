------------------------- MODULE MpackWriterProofs -------------------------
(***************************************************************************)
(* MpackWriter for every size of the buffer and every length of what is    *)
(* written.  Good(s, k) is what holds of an open writer s of which k bytes *)
(* more are stored than the caller's calls that have returned gave it.     *)
(***************************************************************************)
EXTENDS MpackWriter, TLAPS

Fields == {"error", "mem", "size", "current", "flush", "teardown", "block", "file", "sent",
           "asked", "starved"}

Typed(s) ==
    /\ DOMAIN s = Fields
    /\ s.error \in Errors /\ s.starved \in BOOLEAN
    /\ s.size \in Nat /\ s.sent \in Nat /\ s.asked \in Nat
    /\ s.current \in Nat /\ s.current <= s.size
    /\ s.mem \in [0..(s.size - 1) -> Nat] /\ s.file \in [0..(s.sent - 1) -> Nat]
    /\ s.flush \in {"none", "growable", "file"}
    /\ s.teardown \in {"none", "growable", "file", "close"}
    /\ s.block \in {"none", "live", "freed", "given"}

Prefix(s) == \A i \in 0..(s.sent - 1) : s.file[i] = i + 1

\* Nothing has been lost between the file and what `current` points to.
Exact(s, k) ==
    s.error = "ok" => /\ s.sent + s.current = s.asked + k
                      /\ \A i \in 0..(s.current - 1) : s.mem[i] = s.sent + i + 1

\* Flush function, teardown function and block go together.
Kind(s) ==
    /\ s.flush = "none" => s.teardown = "none"
    /\ s.flush = "growable" <=> s.teardown = "growable"
    /\ s.flush # "file" => s.sent = 0
    /\ s.flush # "none" => s.size >= MinBuffer
    /\ s.block = IF s.teardown = "none" THEN "none" ELSE "live"

Earned(s, k) ==
    /\ s.error \in {"memory", "io"} => s.starved
    /\ s.error \in {"too_big", "bug"} => s.flush = "none"
    /\ s.error = "too_big" => s.asked + k > s.size

Good(s, k) == Typed(s) /\ Prefix(s) /\ Exact(s, k) /\ Kind(s) /\ Earned(s, k)

-----------------------------------------------------------------------------
(* One step of memory.                                                     *)

\* Where the n bytes are, what is kept of the old array, and that all are bytes.
Placed(new, mem, size, at, n, first) ==
    /\ new \in [0..(size - 1) -> Nat]
    /\ \A i \in 0..(size - 1) : i >= at /\ i < at + n => new[i] = first + i - at
    /\ \A i \in 0..(size - 1) : i < at /\ i \in DOMAIN mem => new[i] = mem[i]

\* A copy puts n bytes where they belong and touches nothing in front of them.
LEMMA OverIsArray ==
    ASSUME NEW mem, \A i \in DOMAIN mem : mem[i] \in Nat, NEW size \in Nat,
           NEW at \in Nat, NEW n \in Nat, NEW first \in Nat
    PROVE  Placed(Over(mem, size, at, n, first), mem, size, at, n, first)
<1> DEFINE value(i) == IF i \in at..(at + n - 1) THEN first + i - at
                       ELSE IF i \in DOMAIN mem THEN mem[i] ELSE 0
<1>1. \A i \in 0..(size - 1) : value(i) \in Nat
  OBVIOUS
<1>2. Over(mem, size, at, n, first) = [i \in 0..(size - 1) |-> value(i)]
  BY DEF Over
<1>3. \A i \in 0..(size - 1) : i >= at /\ i < at + n => value(i) = first + i - at
  OBVIOUS
<1>4. \A i \in 0..(size - 1) : i < at /\ i \in DOMAIN mem => value(i) = mem[i]
  OBVIOUS
<1> HIDE DEF value
<1> QED
  BY <1>1, <1>2, <1>3, <1>4 DEF Placed

\* What the caller gives is stored in order if there is room for it.
LEMMA StoreIsGood ==
    ASSUME NEW s, Good(s, 0), NEW n \in Nat, n <= Left(s)
    PROVE  Good(Store(s, n), n)
<1> DEFINE t == Store(s, n)
<1>1. Typed(s) /\ n <= s.size - s.current
  BY DEF Good, Left
<1>2. /\ t.error = s.error /\ t.size = s.size /\ t.flush = s.flush
      /\ t.teardown = s.teardown /\ t.block = s.block /\ t.file = s.file
      /\ t.sent = s.sent /\ t.asked = s.asked /\ t.starved = s.starved
      /\ t.current = s.current + n
      /\ t.mem = Over(s.mem, s.size, s.current, n, s.asked + 1)
      /\ DOMAIN t = Fields
  BY <1>1 DEF Store, Typed, Fields
<1> HIDE DEF t
<1>3. Placed(t.mem, s.mem, s.size, s.current, n, s.asked + 1)
  <2>1. /\ s.size \in Nat /\ s.current \in Nat /\ s.asked + 1 \in Nat
        /\ \A i \in DOMAIN s.mem : s.mem[i] \in Nat
    BY <1>1 DEF Typed
  <2> QED
    BY <1>2, <2>1, OverIsArray
<1>4. Typed(t)
  BY <1>1, <1>2, <1>3 DEF Typed, Placed
<1>5. Exact(t, n)
  <2> SUFFICES ASSUME s.error = "ok"
               PROVE  /\ t.sent + t.current = t.asked + n
                      /\ \A i \in 0..(t.current - 1) : t.mem[i] = t.sent + i + 1
    BY <1>2 DEF Exact
  <2>1. /\ s.sent + s.current = s.asked
        /\ \A i \in 0..(s.current - 1) : s.mem[i] = s.sent + i + 1
    BY <1>1 DEF Good, Exact, Typed
  <2>2. t.sent + t.current = t.asked + n
    BY <1>1, <1>2, <2>1 DEF Typed
  <2>3. ASSUME NEW i \in 0..(t.current - 1)
        PROVE  t.mem[i] = t.sent + i + 1
    <3>1. /\ i \in 0..(s.size - 1) /\ i < s.current + n /\ t.sent = s.sent
          /\ {s.size, s.current, s.sent, s.asked} \subseteq Nat
      BY <1>1, <1>2 DEF Typed
    <3>2. CASE i < s.current
      <4>1. t.mem[i] = s.mem[i]
        BY <1>1, <1>3, <3>1, <3>2 DEF Typed, Placed
      <4> QED
        BY <2>1, <3>1, <3>2, <4>1
    <3>3. CASE i >= s.current
      <4>1. t.mem[i] = s.asked + 1 + i - s.current
        BY <1>3, <3>1, <3>3 DEF Placed
      <4> QED
        BY <2>1, <3>1, <4>1
    <3> QED
      BY <3>1, <3>2, <3>3
  <2> QED
    BY <2>2, <2>3
<1>6. Prefix(t) /\ Kind(t) /\ Earned(t, n)
  BY <1>1, <1>2 DEF Good, Prefix, Kind, Earned, Typed
<1> QED
  BY <1>4, <1>5, <1>6 DEF Good, t

\* With an error there is nothing to be exact about.
LEMMA ErrorIsGood ==
    ASSUME NEW s, Good(s, 0), s.error # "ok", NEW n \in Nat
    PROVE  Good(s, n)
BY DEF Good, Exact, Earned, Typed

\* A failure of the surroundings, which is remembered, makes an error.
Failing(s, e) == Flag([s EXCEPT !.starved = TRUE], e)

\* A failure of the surroundings, with an error flagged, keeps a writer good.
LEMMA FailingIsGood ==
    ASSUME NEW s, Typed(s), Prefix(s), Kind(s), NEW k \in Nat, NEW e \in {"memory", "io"},
           s.error = "ok"
    PROVE  /\ Good(Failing(s, e), k)
           /\ Failing(s, e).error = e /\ Failing(s, e).flush = s.flush
           /\ Failing(s, e).asked = s.asked
<1> DEFINE t == Failing(s, e)
<1>1. /\ t.error = e /\ t.size = s.size /\ t.flush = s.flush
      /\ t.teardown = s.teardown /\ t.block = s.block /\ t.file = s.file
      /\ t.sent = s.sent /\ t.asked = s.asked /\ t.starved = TRUE
      /\ t.current = s.current /\ t.mem = s.mem /\ DOMAIN t = Fields
  BY DEF Failing, Flag, Typed, Fields
<1> HIDE DEF t
<1>2. Typed(t)
  BY <1>1 DEF Typed, Errors
<1>3. Exact(t, k) /\ Prefix(t) /\ Kind(t) /\ Earned(t, k)
  BY <1>1 DEF Exact, Prefix, Kind, Earned, Typed
<1>4. Good(t, k)
  BY <1>2, <1>3 DEF Good
<1> QED
  BY <1>1, <1>4 DEF t

\* A larger buffer holds what the old one held, and the extra bytes behind that.
LEMMA EnlargedIsGood ==
    ASSUME NEW s, Good(s, 0), s.flush = "growable", NEW n \in Nat,
           NEW m \in Grown(s.size, s.current + n)
    PROVE  LET t == Enlarged(s, m, n)
           IN /\ Good(t, n) /\ t.flush = s.flush /\ t.asked = s.asked
              /\ t.error = s.error
              /\ n = 0 => Left(t) >= MinBuffer
<1> DEFINE t == Enlarged(s, m, n)
<1>1. Typed(s)
  BY DEF Good
<1>0. m \in Nat /\ m >= 2 * s.size /\ m >= s.current + n
  BY <1>1 DEF Typed, Grown
<1>2. /\ t.error = s.error /\ t.size = m /\ t.flush = s.flush
      /\ t.teardown = s.teardown /\ t.block = s.block /\ t.file = s.file
      /\ t.sent = s.sent /\ t.asked = s.asked /\ t.starved = s.starved
      /\ t.current = s.current + n
      /\ t.mem = Over(s.mem, m, s.current, n, s.asked + 1)
      /\ DOMAIN t = Fields
  BY <1>1 DEF Enlarged, Typed, Fields
<1> HIDE DEF t
<1>3. Placed(t.mem, s.mem, m, s.current, n, s.asked + 1)
  <2>1. s.current \in Nat
    BY <1>1 DEF Typed
  <2>2. s.asked + 1 \in Nat
    BY <1>1 DEF Typed
  <2>3. \A i \in DOMAIN s.mem : s.mem[i] \in Nat
    BY <1>1 DEF Typed
  <2>4. m \in Nat /\ t.mem = Over(s.mem, m, s.current, n, s.asked + 1)
    BY <1>0, <1>2
  <2> QED
    BY <2>1, <2>2, <2>3, <2>4, OverIsArray
<1>4. Typed(t)
  <2>1. t.size \in Nat /\ t.current \in Nat /\ t.current <= t.size
    BY <1>0, <1>1, <1>2 DEF Typed
  <2>2. t.mem \in [0..(t.size - 1) -> Nat]
    BY <1>2, <1>3 DEF Placed
  <2> QED
    BY <1>1, <1>2, <2>1, <2>2 DEF Typed
<1>5. Exact(t, n)
  <2> SUFFICES ASSUME s.error = "ok"
               PROVE  /\ t.sent + t.current = t.asked + n
                      /\ \A i \in 0..(t.current - 1) : t.mem[i] = t.sent + i + 1
    BY <1>2 DEF Exact
  <2>1. /\ s.sent + s.current = s.asked
        /\ \A i \in 0..(s.current - 1) : s.mem[i] = s.sent + i + 1
    BY <1>1 DEF Good, Exact, Typed
  <2>2. t.sent + t.current = t.asked + n
    BY <1>1, <1>2, <2>1 DEF Typed
  <2>3. ASSUME NEW i \in 0..(t.current - 1)
        PROVE  t.mem[i] = t.sent + i + 1
    <3>1. /\ i \in 0..(m - 1) /\ i < s.current + n /\ t.sent = s.sent
          /\ {s.size, s.current, s.sent, s.asked} \subseteq Nat
      BY <1>0, <1>1, <1>2 DEF Typed
    <3>2. CASE i < s.current
      <4>1. t.mem[i] = s.mem[i]
        BY <1>1, <1>3, <3>1, <3>2 DEF Typed, Placed
      <4> QED
        BY <2>1, <3>1, <3>2, <4>1
    <3>3. CASE i >= s.current
      <4>1. t.mem[i] = s.asked + 1 + i - s.current
        BY <1>3, <3>1, <3>3 DEF Placed
      <4> QED
        BY <2>1, <3>1, <4>1
    <3> QED
      BY <3>1, <3>2, <3>3
  <2> QED
    BY <2>2, <2>3
<1>6. Prefix(t)
  BY <1>2 DEF Good, Prefix
<1>7. Kind(t) /\ (n = 0 => Left(t) >= MinBuffer)
  <2>1. s.size >= MinBuffer /\ MinBuffer \in Nat /\ s.size \in Nat /\ s.current \in Nat
        /\ s.current <= s.size /\ Kind(s)
    BY WriterAssumption, <1>1 DEF Good, Kind, Typed
  <2>2. m >= MinBuffer /\ m - s.current >= MinBuffer
    BY <1>0, <2>1
  <2> QED
    BY <1>2, <2>1, <2>2 DEF Kind, Left
<1>8. Earned(t, n)
  BY <1>2 DEF Good, Earned
<1>9. Good(t, n)
  BY <1>4, <1>5, <1>6, <1>7, <1>8 DEF Good
<1> QED
  BY <1>2, <1>7, <1>9 DEF t

\* Good says nothing of a writer but what its fields are.
LEMMA SameIsGood ==
    ASSUME NEW s, NEW k \in Nat, Good(s, k), NEW t, DOMAIN t = Fields,
           t.error = s.error, t.mem = s.mem, t.size = s.size, t.current = s.current,
           t.flush = s.flush, t.teardown = s.teardown, t.block = s.block,
           t.file = s.file, t.sent = s.sent, t.asked = s.asked, t.starved = s.starved
    PROVE  Good(t, k)
<1>1. Typed(s) /\ Prefix(s) /\ Exact(s, k) /\ Kind(s) /\ Earned(s, k)
  BY DEF Good
<1>2. Typed(t)
  BY <1>1 DEF Typed
<1>3. Prefix(t)
  BY <1>1 DEF Prefix
<1>4. Exact(t, k)
  BY <1>1 DEF Exact
<1>5. Kind(t) /\ Earned(t, k)
  BY <1>1 DEF Kind, Earned
<1> QED
  BY <1>2, <1>3, <1>4, <1>5 DEF Good

\* u is s, but for what `current` is.
Rewound(u, s) ==
    /\ DOMAIN u = Fields /\ u.error = s.error /\ u.mem = s.mem /\ u.size = s.size
    /\ u.flush = s.flush /\ u.teardown = s.teardown /\ u.block = s.block
    /\ u.file = s.file /\ u.sent = s.sent /\ u.asked = s.asked /\ u.starved = s.starved

\* t is s with k more bytes in the file.
Took(t, s, c, k) ==
    /\ Typed(t) /\ Prefix(t) /\ Kind(t) /\ t.error = "ok"
    /\ t.sent = s.sent + k /\ t.current = c /\ t.size = s.size
    /\ t.flush = "file" /\ t.teardown = s.teardown /\ t.block = s.block
    /\ t.asked = s.asked /\ t.starved = s.starved

\* A file that takes k bytes of the buffer, or of what the caller has in hand while
\* the buffer is empty, has the first bytes of all.
LEMMA AppendedIsGood ==
    ASSUME NEW s, Good(s, 0), s.error = "ok", s.flush = "file",
           NEW u, Rewound(u, s), u.current = 0 \/ u.current = s.current,
           NEW own \in BOOLEAN, NEW k \in Nat,
           own => k <= s.current, ~own => s.current = 0
    PROVE  Took(Appended(u, own, k), s, u.current, k)
<1> DEFINE c == u.current
           t == Appended(u, own, k)
           put(i) == IF i < s.sent THEN s.file[i]
                     ELSE IF own THEN s.mem[i - s.sent] ELSE s.asked + 1 + i - s.sent
<1>1. Typed(s) /\ Prefix(s) /\ Kind(s)
  BY DEF Good
<1>2. /\ u.error = s.error /\ u.size = s.size /\ u.flush = s.flush
      /\ u.teardown = s.teardown /\ u.block = s.block /\ u.file = s.file
      /\ u.sent = s.sent /\ u.asked = s.asked /\ u.starved = s.starved
      /\ u.current = c /\ u.mem = s.mem /\ DOMAIN u = Fields
  BY DEF Rewound
<1>3. /\ t.error = s.error /\ t.size = s.size /\ t.flush = s.flush
      /\ t.teardown = s.teardown /\ t.block = s.block
      /\ t.sent = s.sent + k /\ t.asked = s.asked /\ t.starved = s.starved
      /\ t.current = c /\ t.mem = s.mem /\ DOMAIN t = Fields
  BY <1>2 DEF Appended, Fields
<1>11. t.file = [i \in 0..(s.sent + k - 1) |-> put(i)]
  BY <1>2 DEF Appended, Fields
<1> HIDE DEF t
<1>4. s.sent \in Nat /\ s.current \in Nat /\ s.asked \in Nat /\ c \in Nat /\ c <= s.size
  BY <1>1 DEF Typed
<1>5. /\ s.sent + s.current = s.asked
      /\ \A i \in 0..(s.current - 1) : s.mem[i] = s.sent + i + 1
      /\ \A i \in 0..(s.sent - 1) : s.file[i] = i + 1
  BY <1>1, <1>4 DEF Good, Exact, Prefix
<1>6. ASSUME NEW i \in 0..(s.sent + k - 1)
      PROVE  put(i) = i + 1
  <2>1. CASE i < s.sent
    BY <1>4, <1>5, <2>1
  <2>2. CASE i >= s.sent /\ own
    <3>1. i - s.sent \in 0..(s.current - 1)
      BY <1>4, <2>2
    <3>2. s.mem[i - s.sent] = s.sent + (i - s.sent) + 1
      BY <1>5, <3>1
    <3> QED
      BY <1>4, <2>2, <3>2
  <2>3. CASE i >= s.sent /\ ~own
    BY <1>4, <1>5, <2>3
  <2> QED
    BY <1>4, <2>1, <2>2, <2>3
<1> HIDE DEF put
<1>12. \A i \in 0..(s.sent + k - 1) : put(i) = i + 1 /\ put(i) \in Nat
  BY <1>4, <1>6
<1>13. t.sent = s.sent + k
  BY <1>3
<1>14. \A i \in 0..(s.sent + k - 1) : t.file[i] = i + 1
  BY <1>11, <1>12
<1>15. t.file \in [0..(s.sent + k - 1) -> Nat]
  BY <1>11, <1>12
<1>7. \A i \in 0..(t.sent - 1) : t.file[i] = i + 1
  BY <1>4, <1>13, <1>14
<1>8. t.file \in [0..(t.sent - 1) -> Nat]
  BY <1>4, <1>13, <1>15
<1>9. Typed(t)
  <2>1. t.sent \in Nat
    BY <1>3, <1>4
  <2> QED
    BY <1>1, <1>3, <1>4, <1>8, <2>1 DEF Typed
<1>10. Prefix(t) /\ Kind(t)
  BY <1>1, <1>3, <1>7 DEF Prefix, Kind
<1> QED
  BY <1>3, <1>9, <1>10 DEF t, Took

-----------------------------------------------------------------------------
(* Flushing and writing.                                                   *)

\* A flush of the buffer keeps a writer good, and if it does not fail there is room
\* for any tag, with nothing in the buffer if there is a file.
LEMMA FlushUncheckedIsGood ==
    ASSUME NEW s, Good(s, 0), s.error = "ok", s.flush # "none",
           NEW v \in mpack_writer_flush_unchecked(s)
    PROVE  /\ Good(v, 0) /\ v.flush = s.flush /\ v.asked = s.asked
           /\ v.error = "ok" => /\ Left(v) >= MinBuffer
                                /\ v.flush = "file" => v.current = 0
<1> DEFINE u == [s EXCEPT !.current = 0]
           r == [u EXCEPT !.current = s.current]
<1>1. Typed(s) /\ Prefix(s) /\ Kind(s)
  BY DEF Good
<1>2. /\ u.error = s.error /\ u.size = s.size /\ u.flush = s.flush
      /\ u.teardown = s.teardown /\ u.block = s.block /\ u.file = s.file
      /\ u.sent = s.sent /\ u.asked = s.asked /\ u.starved = s.starved
      /\ u.current = 0 /\ u.mem = s.mem /\ DOMAIN u = Fields
  BY <1>1 DEF Typed, Fields
<1>3. v \in Flush(u, TRUE, s.current)
  BY DEF mpack_writer_flush_unchecked
<1>4. s.size \in Nat /\ s.size >= MinBuffer /\ MinBuffer \in Nat /\ s.current \in Nat
  BY <1>1, WriterAssumption DEF Typed, Kind
<1>5. CASE s.flush = "growable" /\ s.current = 0
  <2>1. v = u
    BY <1>2, <1>3, <1>5 DEF Flush, mpack_growable_writer_flush, IsTeardown
  <2>2. Good(u, 0)
    <3>1. u.current = s.current
      BY <1>2, <1>5
    <3> HIDE DEF u
    <3> QED
      BY <1>2, <3>1, SameIsGood
  <2>3. Left(v) >= MinBuffer
    BY <1>2, <1>4, <2>1 DEF Left
  <2> QED
    BY <1>2, <1>5, <2>1, <2>2, <2>3
<1>6. CASE s.flush = "growable" /\ s.current # 0
  <2>1. v \in Grow(r, 0)
    BY <1>2, <1>3, <1>6 DEF Flush, mpack_growable_writer_flush, IsTeardown
  <2>2. /\ r.error = s.error /\ r.size = s.size /\ r.flush = s.flush
        /\ r.teardown = s.teardown /\ r.block = s.block /\ r.file = s.file
        /\ r.sent = s.sent /\ r.asked = s.asked /\ r.starved = s.starved
        /\ r.current = s.current /\ r.mem = s.mem /\ DOMAIN r = Fields
    BY <1>2 DEF Fields
  <2> HIDE DEF r
  <2>3. Good(r, 0)
    BY <2>2, SameIsGood
  <2>4. CASE v = Failing(r, "memory")
    BY <1>6, <2>2, <2>3, <2>4, FailingIsGood DEF Good
  <2>5. CASE \E m \in Grown(r.size, r.current + 0) : v = Enlarged(r, m, 0)
    <3>1. PICK m \in Grown(r.size, r.current + 0) : v = Enlarged(r, m, 0)
      BY <2>5
    <3>2. /\ Good(v, 0) /\ v.flush = r.flush /\ v.asked = r.asked /\ v.error = r.error
          /\ Left(v) >= MinBuffer
      BY <1>6, <2>2, <2>3, <3>1, EnlargedIsGood
    <3> QED
      BY <1>6, <2>2, <3>2
  <2> QED
    BY <2>1, <2>4, <2>5 DEF Grow, Failing
<1>7. CASE s.flush = "file"
  <2>1. v \in mpack_file_writer_flush(u, TRUE, s.current)
    BY <1>2, <1>3, <1>7 DEF Flush
  <2>2. Rewound(u, s) /\ u.current = 0
    BY <1>2 DEF Rewound
  <2> HIDE DEF u
  <2>3. CASE v = Appended(u, TRUE, s.current)
    <3>1. Took(v, s, 0, s.current)
      <4>1. s.current \in Nat /\ s.current <= s.current
        BY <1>4
      <4>2. Took(Appended(u, TRUE, s.current), s, u.current, s.current)
        BY <1>7, <2>2, <4>1, AppendedIsGood
      <4> QED
        BY <2>2, <2>3, <4>2
    <3>2. Exact(v, 0) /\ Earned(v, 0)
      BY <1>4, <3>1 DEF Good, Exact, Earned, Typed, Took
    <3>3. Left(v) >= MinBuffer
      BY <1>4, <3>1 DEF Left, Took
    <3> QED
      BY <1>7, <3>1, <3>2, <3>3 DEF Good, Took
  <2>4. CASE \E k \in 0..(s.current - 1) : v = Failing(Appended(u, TRUE, k), "io")
    <3>1. PICK k \in 0..(s.current - 1) : v = Failing(Appended(u, TRUE, k), "io")
      BY <2>4
    <3> DEFINE t == Appended(u, TRUE, k)
    <3>2. k \in Nat /\ k <= s.current
      BY <1>4, <3>1
    <3>3. Took(t, s, 0, k)
      BY <1>7, <2>2, <3>2, AppendedIsGood
    <3> HIDE DEF t
    <3>4. /\ Good(Failing(t, "io"), 0) /\ Failing(t, "io").error = "io"
          /\ Failing(t, "io").flush = t.flush /\ Failing(t, "io").asked = t.asked
      BY <3>3, FailingIsGood DEF Took
    <3> QED
      BY <1>7, <3>1, <3>3, <3>4 DEF t, Took
  <2> QED
    BY <2>1, <2>3, <2>4 DEF mpack_file_writer_flush, Failing
<1> QED
  BY <1>1, <1>5, <1>6, <1>7 DEF Typed

\* Bytes that do not fit after a flush go past the buffer, or make it larger.
LEMMA ExtraFlushIsGood ==
    ASSUME NEW s, Good(s, 0), s.error = "ok", s.flush # "none", NEW n \in Nat,
           s.flush = "file" => s.current = 0, NEW v \in Flush(s, FALSE, n)
    PROVE  Good(v, n) /\ v.asked = s.asked
<1>1. Typed(s) /\ Prefix(s) /\ Kind(s)
  BY DEF Good
<1>2. CASE s.flush = "growable"
  <2>1. v \in Grow(s, n)
    BY <1>2 DEF Flush, mpack_growable_writer_flush
  <2>2. CASE v = Failing(s, "memory")
    BY <1>1, <2>2, FailingIsGood
  <2>3. CASE \E m \in Grown(s.size, s.current + n) : v = Enlarged(s, m, n)
    <3>1. PICK m \in Grown(s.size, s.current + n) : v = Enlarged(s, m, n)
      BY <2>3
    <3> QED
      BY <1>2, <3>1, EnlargedIsGood
  <2> QED
    BY <2>1, <2>2, <2>3 DEF Grow, Failing
<1>3. CASE s.flush = "file"
  <2>1. v \in mpack_file_writer_flush(s, FALSE, n)
    BY <1>3 DEF Flush
  <2>2. Rewound(s, s) /\ s.current = 0
    BY <1>1, <1>3 DEF Rewound, Typed
  <2>3. CASE v = Appended(s, FALSE, n)
    <3>1. Took(v, s, 0, n)
      BY <1>3, <2>2, <2>3, AppendedIsGood
    <3>2. Exact(v, n) /\ Earned(v, n)
      BY <1>1, <2>2, <3>1 DEF Good, Exact, Earned, Typed, Took
    <3> QED
      BY <3>1, <3>2 DEF Good, Took
  <2>4. CASE \E k \in 0..(n - 1) : v = Failing(Appended(s, FALSE, k), "io")
    <3>1. PICK k \in 0..(n - 1) : v = Failing(Appended(s, FALSE, k), "io")
      BY <2>4
    <3> DEFINE t == Appended(s, FALSE, k)
    <3>2. k \in Nat
      BY <3>1
    <3>3. Took(t, s, 0, k)
      BY <1>3, <2>2, <3>2, AppendedIsGood
    <3> HIDE DEF t
    <3>4. Good(Failing(t, "io"), n) /\ Failing(t, "io").asked = t.asked
      BY <3>3, FailingIsGood DEF Took
    <3> QED
      BY <3>1, <3>3, <3>4 DEF t, Took
  <2> QED
    BY <2>1, <2>3, <2>4 DEF mpack_file_writer_flush, Failing
<1> QED
  BY <1>1, <1>2, <1>3 DEF Typed

\* Asked counts what a call was given once it returns.
LEMMA AskedIsGood ==
    ASSUME NEW n \in Nat, NEW S, \A u \in S : Good(u, n), NEW v \in Asked(S, n)
    PROVE  Good(v, 0)
<1>1. PICK u \in S : v = [u EXCEPT !.asked = @ + n]
  BY DEF Asked
<1>2. Good(u, n) /\ Typed(u) /\ Prefix(u) /\ Exact(u, n) /\ Kind(u) /\ Earned(u, n)
  BY <1>1 DEF Good
<1>3. /\ v.error = u.error /\ v.size = u.size /\ v.flush = u.flush
      /\ v.teardown = u.teardown /\ v.block = u.block /\ v.file = u.file
      /\ v.sent = u.sent /\ v.asked = u.asked + n /\ v.starved = u.starved
      /\ v.current = u.current /\ v.mem = u.mem /\ DOMAIN v = Fields
  BY <1>1, <1>2 DEF Typed, Fields
<1>4. v.asked \in Nat /\ v.asked + 0 = u.asked + n
  BY <1>2, <1>3 DEF Typed
<1>5. Typed(v)
  BY <1>2, <1>3, <1>4 DEF Typed
<1>6. Prefix(v) /\ Kind(v)
  BY <1>2, <1>3 DEF Prefix, Kind
<1>7. Exact(v, 0)
  BY <1>2, <1>3, <1>4 DEF Exact
<1>8. Earned(v, 0)
  BY <1>2, <1>3, <1>4 DEF Earned
<1> QED
  BY <1>5, <1>6, <1>7, <1>8 DEF Good

\* A buffer that is full and has no flush function: the bytes do not fit.
LEMMA TooBigIsGood ==
    ASSUME NEW s, Good(s, 0), s.error = "ok", s.flush = "none", NEW n \in Nat, ~Fits(s, n)
    PROVE  Good(Flag(s, "too_big"), n) /\ Flag(s, "too_big").error = "too_big"
<1> DEFINE t == Flag(s, "too_big")
<1>1. Typed(s) /\ Prefix(s) /\ Kind(s)
  BY DEF Good
<1>2. /\ t.error = "too_big" /\ t.size = s.size /\ t.flush = s.flush
      /\ t.teardown = s.teardown /\ t.block = s.block /\ t.file = s.file
      /\ t.sent = s.sent /\ t.asked = s.asked /\ t.starved = s.starved
      /\ t.current = s.current /\ t.mem = s.mem /\ DOMAIN t = Fields
  BY <1>1 DEF Flag, Typed, Fields
<1> HIDE DEF t
<1>3. s.asked + n > s.size
  <2>1. s.sent = 0 /\ s.sent + s.current = s.asked + 0
    BY <1>1 DEF Good, Exact, Kind
  <2>2. n > s.size - s.current
    BY <1>1 DEF Fits, Left, Typed
  <2> QED
    BY <1>1, <2>1, <2>2 DEF Typed
<1>4. Typed(t)
  BY <1>1, <1>2 DEF Typed, Errors
<1>5. Prefix(t) /\ Kind(t) /\ Exact(t, n)
  BY <1>1, <1>2 DEF Prefix, Kind, Exact
<1>6. Earned(t, n)
  BY <1>2, <1>3 DEF Earned
<1> QED
  BY <1>2, <1>4, <1>5, <1>6 DEF Good, t

\* mpack_write_native.
LEMMA NativeIsGood ==
    ASSUME NEW s, Good(s, 0), NEW n \in Nat, NEW v \in mpack_write_native(s, n)
    PROVE  Good(v, 0)
<1> DEFINE S == IF Fits(s, n) THEN {Store(s, n)} ELSE mpack_write_native_straddle(s, n)
<1>1. ASSUME NEW u \in S PROVE Good(u, n)
  <2>1. CASE Fits(s, n)
    BY <2>1, StoreIsGood DEF Fits
  <2>2. CASE ~Fits(s, n) /\ s.error # "ok"
    BY <2>2, ErrorIsGood DEF mpack_write_native_straddle
  <2>3. CASE ~Fits(s, n) /\ s.error = "ok" /\ s.flush = "none"
    BY <2>3, TooBigIsGood DEF mpack_write_native_straddle
  <2>4. CASE ~Fits(s, n) /\ s.error = "ok" /\ s.flush # "none"
    <3>1. PICK x \in mpack_writer_flush_unchecked(s) :
            u \in IF x.error # "ok" THEN {x}
                  ELSE IF n > Left(x) THEN Flush(x, FALSE, n) ELSE {Store(x, n)}
      BY <2>4 DEF mpack_write_native_straddle
    <3>2. /\ Good(x, 0) /\ x.flush = s.flush
          /\ x.error = "ok" /\ x.flush = "file" => x.current = 0
      BY <2>4, <3>1, FlushUncheckedIsGood
    <3>3. CASE x.error # "ok"
      BY <3>1, <3>2, <3>3, ErrorIsGood
    <3>4. CASE x.error = "ok" /\ n > Left(x)
      BY <2>4, <3>1, <3>2, <3>4, ExtraFlushIsGood
    <3>5. CASE x.error = "ok" /\ ~(n > Left(x))
      <4>1. n <= Left(x)
        BY <3>2, <3>5 DEF Good, Typed, Left
      <4> QED
        BY <3>1, <3>2, <3>5, <4>1, StoreIsGood
    <3> QED
      BY <3>3, <3>4, <3>5
  <2> QED
    BY <2>1, <2>2, <2>3, <2>4
<1>2. v \in Asked(S, n)
  BY DEF mpack_write_native
<1> HIDE DEF S
<1> QED
  BY <1>1, <1>2, AskedIsGood

\* MPACK_WRITE_ENCODED, for all that the smallest buffer has room for.
LEMMA EncodedIsGood ==
    ASSUME NEW s, Good(s, 0), NEW n \in Nat, n <= MinBuffer, NEW v \in Encoded(s, n)
    PROVE  Good(v, 0)
<1> DEFINE S == IF Fits(s, n) THEN {Store(s, n)}
                ELSE {IF x.error = "ok" THEN Store(x, n) ELSE x : x \in mpack_writer_ensure(s, n)}
<1>1. ASSUME NEW u \in S PROVE Good(u, n)
  <2>1. CASE Fits(s, n)
    BY <2>1, StoreIsGood DEF Fits
  <2>2. CASE ~Fits(s, n) /\ s.error # "ok"
    BY <2>2, ErrorIsGood DEF mpack_writer_ensure
  <2>3. CASE ~Fits(s, n) /\ s.error = "ok" /\ s.flush = "none"
    BY <2>3, TooBigIsGood DEF mpack_writer_ensure
  <2>4. CASE ~Fits(s, n) /\ s.error = "ok" /\ s.flush # "none"
    <3>1. PICK x \in mpack_writer_flush_unchecked(s) :
            u = IF Checked(x, n).error = "ok" THEN Store(Checked(x, n), n) ELSE Checked(x, n)
      BY <2>4 DEF mpack_writer_ensure
    <3>2. Good(x, 0) /\ (x.error = "ok" => Left(x) >= MinBuffer)
      BY <2>4, <3>1, FlushUncheckedIsGood
    <3>3. Left(x) \in Int /\ MinBuffer \in Nat
      <4>1. Typed(x)
        BY <3>2 DEF Good
      <4>2. x.size \in Nat /\ x.current \in Nat
        BY <4>1 DEF Typed
      <4>3. MinBuffer \in Nat
        BY WriterAssumption
      <4> QED
        BY <4>2, <4>3 DEF Left
    <3>4. x.error = "ok" => n <= Left(x) /\ ~(Left(x) < n)
      BY <3>2, <3>3
    <3>5. Checked(x, n) = x
      BY <3>4 DEF Checked
    <3>6. CASE x.error = "ok"
      BY <3>1, <3>2, <3>4, <3>5, <3>6, StoreIsGood
    <3>7. CASE x.error # "ok"
      BY <3>1, <3>2, <3>5, <3>7, ErrorIsGood
    <3> QED
      BY <3>6, <3>7
  <2> QED
    BY <2>1, <2>2, <2>3, <2>4
<1>2. v \in Asked(S, n)
  BY DEF Encoded
<1> HIDE DEF S
<1> QED
  BY <1>1, <1>2, AskedIsGood

\* mpack_write_str: whichever way a string and its tag go in.
LEMMA StrIsGood ==
    ASSUME NEW s, Good(s, 0), NEW n \in Nat, NEW v \in mpack_write_str(s, n)
    PROVE  Good(v, 0)
<1>1. MinBuffer \in Nat /\ MinBuffer >= 3 /\ FixStr \in Nat /\ FixStr + 1 = MinBuffer
  BY WriterAssumption
<1>2. ASSUME NEW t \in {2, 3}, v \in TagThenBytes(s, t, n)
      PROVE  Good(v, 0)
  <2>1. PICK x \in Encoded(s, t) : v \in mpack_write_native(x, n)
    BY <1>2 DEF TagThenBytes
  <2>2. t \in Nat /\ t <= MinBuffer
    BY <1>1
  <2>3. Good(x, 0)
    BY <2>1, <2>2, EncodedIsGood
  <2> QED
    BY <2>1, <2>3, NativeIsGood
<1>3. CASE n <= FixStr
  <2>1. v \in Encoded(s, n + 1)
    BY <1>3 DEF mpack_write_str
  <2>2. n + 1 \in Nat /\ n + 1 <= MinBuffer
    BY <1>1, <1>3
  <2> QED
    BY <2>1, <2>2, EncodedIsGood
<1>4. CASE Fits(s, n + 2) /\ v \in Asked({Store(s, n + 2)}, n + 2)
  <2>1. n + 2 \in Nat
    OBVIOUS
  <2>2. Good(Store(s, n + 2), n + 2)
    BY <1>4, <2>1, StoreIsGood DEF Fits
  <2> QED
    BY <1>4, <2>1, <2>2, AskedIsGood
<1> QED
  BY <1>2, <1>3, <1>4 DEF mpack_write_str

-----------------------------------------------------------------------------
(* The end of a writer.                                                    *)

\* What holds of a writer that is closed: what its owner can count on.
Final(s) ==
    /\ Typed(s) /\ Prefix(s)
    /\ s.block # "live" /\ (s.block = "given" <=> s.teardown = "growable" /\ s.error = "ok")
    /\ s.error \in {"memory", "io"} => s.starved
    /\ s.error = "too_big" => s.flush = "none" /\ s.asked > s.size
    /\ s.error = "ok" =>
          IF s.sent > 0 \/ s.block = "freed" THEN s.sent = s.asked
          ELSE s.current = s.asked /\ \A i \in 0..(s.current - 1) : s.mem[i] = i + 1

\* The last flush: all is in the file, or in the buffer that is about to be handed over.
Flushed(s) ==
    /\ Typed(s) /\ Prefix(s)
    /\ s.block = IF s.teardown = "none" THEN "none" ELSE "live"
    /\ s.error \in {"memory", "io"} => s.starved
    /\ s.error = "too_big" => s.flush = "none" /\ s.asked > s.size
    /\ s.teardown = "growable" => s.sent = 0
    /\ s.error = "ok" =>
          IF s.sent > 0 \/ s.teardown \in {"file", "close"} THEN s.sent = s.asked
          ELSE s.current = s.asked /\ \A i \in 0..(s.current - 1) : s.mem[i] = i + 1

\* Whether the last flush takes the buffer or not, what it leaves is exact if
\* there is no error, and the writer keeps its block.
LEMMA LastFlushIsGood ==
    ASSUME NEW s, Good(s, 0), NEW v \in LastFlush(s)
    PROVE  Flushed(v)
<1>1. Typed(s) /\ Prefix(s) /\ Kind(s) /\ Exact(s, 0) /\ Earned(s, 0)
  BY DEF Good
<1>2. s.sent \in Nat /\ s.current \in Nat /\ s.asked \in Nat /\ s.asked + 0 = s.asked
  BY <1>1 DEF Typed
<1>3. s.error = "ok" => /\ s.sent + s.current = s.asked
                        /\ \A i \in 0..(s.current - 1) : s.mem[i] = s.sent + i + 1
  BY <1>1, <1>2 DEF Exact
<1>4. s.error = "ok" /\ s.sent = 0 =>
          s.current = s.asked /\ \A i \in 0..(s.current - 1) : s.mem[i] = i + 1
  BY <1>2, <1>3
<1>5. s.error = "too_big" => s.flush = "none" /\ s.asked > s.size
  BY <1>1, <1>2 DEF Earned
<1>6. CASE ~(s.error = "ok" /\ s.current # 0 /\ s.flush # "none")
  <2>1. v = s
    BY <1>6 DEF LastFlush
  <2>2. s.error = "ok" =>
          IF s.sent > 0 \/ s.teardown \in {"file", "close"} THEN s.sent = s.asked
          ELSE s.current = s.asked /\ \A i \in 0..(s.current - 1) : s.mem[i] = i + 1
    <3>1. s.error = "ok" /\ s.current = 0 => s.sent = s.asked
      BY <1>2, <1>3
    <3>2. s.flush = "none" => s.sent = 0 /\ s.teardown = "none"
      BY <1>1 DEF Kind
    <3> QED
      BY <1>2, <1>4, <1>6, <3>1, <3>2
  <2> QED
    BY <1>1, <1>5, <2>1, <2>2 DEF Flushed, Kind, Earned
<1>7. CASE s.error = "ok" /\ s.current # 0 /\ s.flush # "none"
  <2>1. PICK x \in Flush(s, TRUE, s.current) : v = [x EXCEPT !.flush = "none"]
    BY <1>7 DEF LastFlush
  <2>2. CASE s.flush = "growable"
    <3>1. x = s
      BY <2>1, <2>2 DEF Flush, mpack_growable_writer_flush, IsTeardown
    <3>2. /\ v.error = s.error /\ v.size = s.size /\ v.flush = "none"
          /\ v.teardown = s.teardown /\ v.block = s.block /\ v.file = s.file
          /\ v.sent = s.sent /\ v.asked = s.asked /\ v.starved = s.starved
          /\ v.current = s.current /\ v.mem = s.mem /\ DOMAIN v = Fields
      BY <1>1, <2>1, <3>1 DEF Typed, Fields
    <3>3. Typed(v) /\ Prefix(v)
      BY <1>1, <3>2 DEF Typed, Prefix
    <3>4. s.sent = 0 /\ s.teardown = "growable"
      BY <1>1, <2>2 DEF Kind
    <3> QED
      BY <1>1, <1>4, <1>7, <3>2, <3>3, <3>4 DEF Flushed, Kind
  <2>3. CASE s.flush = "file"
    <3>1. \/ x = Appended(s, TRUE, s.current)
          \/ \E k \in 0..(s.current - 1) : x = Failing(Appended(s, TRUE, k), "io")
      BY <2>1, <2>3 DEF Flush, mpack_file_writer_flush, Failing
    <3>2. ASSUME NEW k \in Nat, k <= s.current
          PROVE  Took(Appended(s, TRUE, k), s, s.current, k)
      BY <1>1, <1>7, <2>3, <3>2, AppendedIsGood DEF Rewound, Typed
    <3>3. /\ Typed(x) /\ Prefix(x) /\ Kind(x) /\ x.teardown = s.teardown
          /\ x.error = "ok" => x.sent = s.sent + s.current /\ x.asked = s.asked
          /\ x.error \in {"ok", "io"} /\ (x.error = "io" => x.starved)
      <4>1. CASE x = Appended(s, TRUE, s.current)
        <5>1. s.current <= s.current
          BY <1>2
        <5>2. Took(x, s, s.current, s.current)
          BY <1>2, <3>2, <4>1, <5>1
        <5> QED
          BY <5>2 DEF Took
      <4>2. CASE \E k \in 0..(s.current - 1) : x = Failing(Appended(s, TRUE, k), "io")
        <5>1. PICK k \in 0..(s.current - 1) : x = Failing(Appended(s, TRUE, k), "io")
          BY <4>2
        <5> DEFINE t == Appended(s, TRUE, k)
        <5>2. k \in Nat /\ k <= s.current
          BY <1>2, <5>1
        <5>3. Took(t, s, s.current, k)
          BY <3>2, <5>2
        <5> HIDE DEF t
        <5>4. /\ x.error = "io" /\ x.starved = TRUE /\ x.teardown = t.teardown
              /\ Good(Failing(t, "io"), 0)
          BY <5>1, <5>3, FailingIsGood DEF Took, Failing, Flag, Typed, Fields, t
        <5> QED
          BY <5>1, <5>3, <5>4 DEF Took, Good, t
      <4> QED
        BY <3>1, <4>1, <4>2
    <3>4. /\ v.error = x.error /\ v.size = x.size /\ v.flush = "none"
          /\ v.teardown = x.teardown /\ v.block = x.block /\ v.file = x.file
          /\ v.sent = x.sent /\ v.asked = x.asked /\ v.starved = x.starved
          /\ v.current = x.current /\ v.mem = x.mem /\ DOMAIN v = Fields
      BY <2>1, <3>3 DEF Typed, Fields
    <3>5. Typed(v) /\ Prefix(v)
      BY <3>3, <3>4 DEF Typed, Prefix
    <3>6. s.sent + s.current = s.asked /\ s.sent + s.current > 0 /\ s.teardown # "growable"
      BY <1>1, <1>2, <1>3, <1>7, <2>3 DEF Kind
    <3>7. v.error = "ok" => v.sent > 0 /\ v.sent = v.asked
      BY <3>3, <3>4, <3>6
    <3> QED
      BY <3>3, <3>4, <3>5, <3>6, <3>7 DEF Flushed, Kind
  <2> QED
    BY <1>1, <1>7, <2>2, <2>3 DEF Typed
<1> QED
  BY <1>6, <1>7

\* t is u with its block freed or given away.
Parted(t, u, b) ==
    /\ Typed(t) /\ Prefix(t) /\ t.block = b
    /\ t.error = u.error /\ t.size = u.size /\ t.flush = u.flush
    /\ t.teardown = u.teardown /\ t.sent = u.sent /\ t.asked = u.asked
    /\ t.starved = u.starved /\ t.current = u.current /\ t.mem = u.mem

\* A writer that gives up its block keeps all else.
LEMMA PartedIsTyped ==
    ASSUME NEW u, Typed(u), Prefix(u), NEW b \in {"freed", "given"}
    PROVE  Parted([u EXCEPT !.block = b], u, b)
<1> DEFINE t == [u EXCEPT !.block = b]
<1>1. /\ t.error = u.error /\ t.size = u.size /\ t.flush = u.flush
      /\ t.teardown = u.teardown /\ t.block = b /\ t.file = u.file
      /\ t.sent = u.sent /\ t.asked = u.asked /\ t.starved = u.starved
      /\ t.current = u.current /\ t.mem = u.mem /\ DOMAIN t = Fields
  BY DEF Typed, Fields
<1> HIDE DEF t
<1>2. Typed(t) /\ Prefix(t)
  BY <1>1 DEF Typed, Prefix
<1> QED
  BY <1>1, <1>2 DEF t, Parted

\* t is u after a failure of its surroundings.
Failed(t, u, e) ==
    /\ Typed(t) /\ Prefix(t)
    /\ t.error = IF u.error = "ok" THEN e ELSE u.error
    /\ t.size = u.size /\ t.flush = u.flush /\ t.teardown = u.teardown
    /\ t.block = u.block /\ t.sent = u.sent /\ t.asked = u.asked /\ t.starved = TRUE

\* A writer whose surroundings fail keeps its type, its file and its block.
LEMMA FailedIsTyped ==
    ASSUME NEW u, Typed(u), Prefix(u), NEW e \in {"memory", "io"}
    PROVE  Failed(Failing(u, e), u, e)
<1> DEFINE t == Failing(u, e)
<1>1. /\ t.error = IF u.error = "ok" THEN e ELSE u.error
      /\ t.size = u.size /\ t.flush = u.flush
      /\ t.teardown = u.teardown /\ t.block = u.block /\ t.file = u.file
      /\ t.sent = u.sent /\ t.asked = u.asked /\ t.starved = TRUE
      /\ t.current = u.current /\ t.mem = u.mem /\ DOMAIN t = Fields
  BY DEF Failing, Flag, Typed, Fields
<1> HIDE DEF t
<1>2. Typed(t)
  BY <1>1 DEF Typed, Errors
<1>3. Prefix(t)
  BY <1>1 DEF Prefix
<1> QED
  BY <1>1, <1>2, <1>3 DEF t, Failed

\* A smaller block still has all that was written.
LEMMA ShrunkIsTyped ==
    ASSUME NEW s, Typed(s), Prefix(s)
    PROVE  LET t == Shrunk(s)
           IN /\ Typed(t) /\ Prefix(t)
              /\ t.error = s.error /\ t.flush = s.flush /\ t.teardown = s.teardown
              /\ t.block = s.block /\ t.sent = s.sent /\ t.asked = s.asked
              /\ t.starved = s.starved /\ t.current = s.current
              /\ \A i \in 0..(s.current - 1) : t.mem[i] = s.mem[i]
<1> DEFINE t == Shrunk(s)
           m == IF s.current = 0 THEN 1 ELSE s.current
<1>1. /\ t.error = s.error /\ t.size = m /\ t.flush = s.flush
      /\ t.teardown = s.teardown /\ t.block = s.block /\ t.file = s.file
      /\ t.sent = s.sent /\ t.asked = s.asked /\ t.starved = s.starved
      /\ t.current = s.current /\ DOMAIN t = Fields
      /\ t.mem = Over(s.mem, m, s.current, 0, 0)
  BY DEF Shrunk, Typed, Fields
<1>2. m \in Nat /\ s.current \in Nat /\ s.current <= m /\ s.current <= s.size
  BY DEF Typed
<1>3. \A i \in DOMAIN s.mem : s.mem[i] \in Nat
  BY DEF Typed
<1> HIDE DEF t, m
<1>4. Placed(t.mem, s.mem, m, s.current, 0, 0)
  <2>1. Placed(Over(s.mem, m, s.current, 0, 0), s.mem, m, s.current, 0, 0)
    BY <1>2, <1>3, OverIsArray
  <2> QED
    BY <1>1, <2>1
<1>5. Typed(t)
  BY <1>1, <1>2, <1>4 DEF Typed, Placed
<1>6. Prefix(t)
  BY <1>1 DEF Prefix
<1>7. \A i \in 0..(s.current - 1) : t.mem[i] = s.mem[i]
  <2>1. ASSUME NEW i \in 0..(s.current - 1)
        PROVE  i \in 0..(m - 1) /\ i < s.current /\ i \in DOMAIN s.mem
    BY <1>2 DEF Typed
  <2> QED
    BY <1>4, <2>1 DEF Placed
<1> QED
  BY <1>1, <1>5, <1>6, <1>7 DEF t

\* Every teardown function ends a flushed writer with one owner of the block.
LEMMA TeardownIsFinal ==
    ASSUME NEW s, Flushed(s), NEW v \in Teardown(s)
    PROVE  Final(v)
<1>1. Typed(s) /\ Prefix(s)
  BY DEF Flushed
<1>2. CASE s.teardown = "none"
  BY <1>1, <1>2 DEF Teardown, Flushed, Final
<1>3. CASE s.teardown = "growable" /\ s.error # "ok"
  <2>1. v = [s EXCEPT !.block = "freed"]
    BY <1>1, <1>3 DEF Teardown, mpack_growable_writer_teardown, Flushed, Freed
  <2>2. Parted(v, s, "freed")
    BY <1>1, <2>1, PartedIsTyped
  <2> QED
    BY <1>1, <1>3, <2>2 DEF Flushed, Final, Parted
<1>4. CASE s.teardown = "growable" /\ s.error = "ok"
  <2>1. /\ s.sent = 0 /\ s.block = "live" /\ s.current = s.asked
        /\ \A i \in 0..(s.current - 1) : s.mem[i] = i + 1
    BY <1>1, <1>4 DEF Flushed, Typed
  <2>2. CASE v = [s EXCEPT !.block = "given"]
    <3>1. Parted(v, s, "given")
      BY <1>1, <2>2, PartedIsTyped
    <3> QED
      BY <1>4, <2>1, <3>1 DEF Final, Parted
  <2>3. CASE v = Flag([s EXCEPT !.block = "freed", !.starved = TRUE], "memory")
    <3>1. /\ v.error = "memory" /\ v.size = s.size /\ v.teardown = s.teardown
          /\ v.flush = s.flush /\ v.block = "freed" /\ v.file = s.file /\ v.sent = s.sent
          /\ v.asked = s.asked /\ v.starved = TRUE /\ v.current = s.current
          /\ v.mem = s.mem /\ DOMAIN v = Fields
      BY <1>1, <1>4, <2>3 DEF Flag, Typed, Fields
    <3>2. Typed(v)
      BY <1>1, <3>1 DEF Typed, Errors
    <3>3. Prefix(v)
      BY <1>1, <3>1 DEF Prefix
    <3> QED
      BY <3>1, <3>2, <3>3 DEF Final
  <2>4. CASE v = [Shrunk(s) EXCEPT !.block = "given"]
    <3> DEFINE t == Shrunk(s)
    <3>1. /\ Typed(t) /\ Prefix(t)
          /\ t.error = s.error /\ t.flush = s.flush /\ t.teardown = s.teardown
          /\ t.block = s.block /\ t.sent = s.sent /\ t.asked = s.asked
          /\ t.starved = s.starved /\ t.current = s.current
          /\ \A i \in 0..(s.current - 1) : t.mem[i] = s.mem[i]
      BY <1>1, ShrunkIsTyped
    <3>2. v = [t EXCEPT !.block = "given"]
      BY <2>4
    <3> HIDE DEF t
    <3>3. Parted(v, t, "given")
      BY <3>1, <3>2, PartedIsTyped
    <3> QED
      BY <1>4, <2>1, <3>1, <3>3 DEF Final, Parted
  <2> QED
    BY <1>4, <2>1, <2>2, <2>3, <2>4 DEF Teardown, mpack_growable_writer_teardown, Freed
<1>5. CASE s.teardown \in {"file", "close"}
  <2>1. /\ s.block = "live" /\ (s.error = "ok" => s.sent = s.asked)
        /\ s.error \in {"memory", "io"} => s.starved
        /\ s.error = "too_big" => s.flush = "none" /\ s.asked > s.size
    BY <1>1, <1>5 DEF Flushed, Typed
  <2>2. CASE v = [s EXCEPT !.block = "freed"]
    <3>1. Parted(v, s, "freed")
      BY <1>1, <2>2, PartedIsTyped
    <3> QED
      BY <1>5, <2>1, <3>1 DEF Final, Parted
  <2>3. CASE v = [Failing(s, "io") EXCEPT !.block = "freed"]
    <3> DEFINE t == Failing(s, "io")
    <3>1. Failed(t, s, "io")
      BY <1>1, FailedIsTyped
    <3>2. v = [t EXCEPT !.block = "freed"]
      BY <2>3
    <3> HIDE DEF t
    <3>3. Parted(v, t, "freed")
      BY <3>1, <3>2, PartedIsTyped DEF Failed
    <3> QED
      BY <1>5, <2>1, <3>1, <3>3 DEF Final, Parted, Failed
  <2>4. v \in {[u EXCEPT !.block = Freed(@)] : u \in {s, Failing(s, "io")}}
    BY <1>5 DEF Teardown, mpack_file_writer_teardown, Closed, Failing
  <2>5. Failing(s, "io").block = "live"
    BY <1>1, <2>1, FailedIsTyped DEF Failed
  <2> QED
    BY <2>1, <2>2, <2>3, <2>4, <2>5 DEF Freed
<1> QED
  BY <1>1, <1>2, <1>3, <1>4, <1>5 DEF Typed

-----------------------------------------------------------------------------
(* The specification.                                                      *)

IInv ==
    /\ phase \in {"none", "open", "closed"}
    /\ IF phase = "closed" THEN Final(w) ELSE Good(w, 0)

\* A new writer, whether it got its buffer or not.
LEMMA ReadyIsGood ==
    ASSUME NEW n \in Nat, NEW flush \in {"none", "growable", "file"},
           NEW teardown \in {"none", "growable", "file", "close"}, NEW b,
           flush = "none" => teardown = "none",
           flush = "growable" <=> teardown = "growable", flush # "none" => n >= MinBuffer,
           b = IF teardown = "none" THEN "none" ELSE "live"
    PROVE  Good(Ready(n, flush, teardown, b), 0)
<1> DEFINE t == Ready(n, flush, teardown, b)
<1>1. /\ t.error = "ok" /\ t.size = n /\ t.flush = flush /\ t.teardown = teardown
      /\ t.block = b /\ t.sent = 0 /\ t.asked = 0 /\ t.starved = FALSE /\ t.current = 0
      /\ DOMAIN t = Fields
  BY DEF Ready, Fields
<1>2. t.mem = [i \in 0..(n - 1) |-> 0] /\ t.file = [i \in 0..(-1) |-> 0]
  BY DEF Ready
<1> HIDE DEF t
<1>3. t.mem \in [0..(t.size - 1) -> Nat] /\ t.file \in [0..(t.sent - 1) -> Nat]
  <2>1. t.mem \in [0..(n - 1) -> Nat]
    BY <1>2
  <2>2. t.file \in [0..(-1) -> Nat] /\ 0 - 1 = -1
    BY <1>2
  <2> QED
    BY <1>1, <2>1, <2>2
<1>4. Typed(t)
  <2>1. t.error \in Errors /\ t.starved \in BOOLEAN
    BY <1>1 DEF Errors
  <2>2. /\ t.flush \in {"none", "growable", "file"}
        /\ t.teardown \in {"none", "growable", "file", "close"}
        /\ t.block \in {"none", "live", "freed", "given"}
    BY <1>1
  <2>3. {t.size, t.sent, t.asked} \subseteq Nat /\ t.current \in 0..t.size
    BY <1>1
  <2> QED
    BY <1>1, <1>3, <2>1, <2>2, <2>3 DEF Typed
<1>5. Prefix(t) /\ Exact(t, 0) /\ Kind(t) /\ Earned(t, 0)
  BY <1>1 DEF Prefix, Exact, Kind, Earned
<1> QED
  BY <1>4, <1>5 DEF Good, t

\* A writer that could not be opened: it has an error, and nothing else.
LEMMA InitErrorIsGood ==
    ASSUME NEW e \in {"memory", "io"}
    PROVE  Good(mpack_writer_init_error(e), 0)
<1> DEFINE r == Ready(0, "none", "none", "none")
           t == mpack_writer_init_error(e)
<1>1. Good(r, 0)
  BY ReadyIsGood
<1>2. /\ t.error = e /\ t.size = r.size /\ t.flush = r.flush
      /\ t.teardown = r.teardown /\ t.block = r.block /\ t.file = r.file
      /\ t.sent = r.sent /\ t.asked = r.asked /\ t.starved = TRUE
      /\ t.current = r.current /\ t.mem = r.mem /\ DOMAIN t = Fields /\ r.flush = "none"
  BY DEF mpack_writer_init_error, Ready, Fields
<1> HIDE DEF t, r
<1>3. Typed(t) /\ Prefix(t) /\ Kind(t)
  <2>1. Typed(r) /\ Prefix(r) /\ Kind(r)
    BY <1>1 DEF Good
  <2>2. /\ r.mem \in [0..(r.size - 1) -> Nat] /\ r.file \in [0..(r.sent - 1) -> Nat]
        /\ {r.size, r.sent, r.asked} \subseteq Nat /\ r.current \in 0..r.size
        /\ r.flush \in {"none", "growable", "file"}
        /\ r.teardown \in {"none", "growable", "file", "close"}
        /\ r.block \in {"none", "live", "freed", "given"}
    BY <2>1 DEF Typed
  <2>3. t.mem \in [0..(t.size - 1) -> Nat]
    BY <1>2, <2>2
  <2>4. t.file \in [0..(t.sent - 1) -> Nat]
    BY <1>2, <2>2
  <2>5. t.error \in Errors /\ t.starved \in BOOLEAN
    BY <1>2 DEF Errors
  <2>6. Typed(t)
    BY <1>2, <2>2, <2>3, <2>4, <2>5 DEF Typed
  <2> QED
    BY <1>2, <2>1, <2>6 DEF Prefix, Kind
<1>4. Exact(t, 0) /\ Earned(t, 0)
  BY <1>2 DEF Exact, Earned
<1> QED
  BY <1>3, <1>4 DEF Good, t

\* No writer is there at first.
LEMMA InitIsGood == Init => IInv
<1>1. Good(Ready(0, "none", "none", "none"), 0)
  BY ReadyIsGood
<1> QED
  BY <1>1 DEF Init, IInv

\* Every call keeps the invariant.
LEMMA StepIsGood == IInv /\ [Next]_vars => IInv'
<1> SUFFICES ASSUME IInv, [Next]_vars
             PROVE  IInv'
  OBVIOUS
<1>1. ASSUME NEW S, \A v \in S : Good(v, 0), Opened(S)
      PROVE  IInv'
  BY <1>1 DEF Opened, IInv
<1>2. Capacity \in Nat /\ MinBuffer \in Nat /\ Capacity >= MinBuffer
  BY WriterAssumption
<1>3. /\ Good(mpack_writer_init_error("memory"), 0)
      /\ Good(mpack_writer_init_error("io"), 0)
  BY InitErrorIsGood
<1>4. CASE mpack_writer_init_growable
  <2>1. Good(Ready(Capacity, "growable", "growable", "live"), 0)
    BY <1>2, ReadyIsGood
  <2> QED
    BY <1>1, <1>3, <1>4, <2>1 DEF mpack_writer_init_growable
<1>5. CASE mpack_writer_init_stdfile
  <2>1. PICK teardown \in {"file", "close"} : Opened({Ready(Capacity, "file", teardown, "live"),
                                                     mpack_writer_init_error("memory")})
    BY <1>5 DEF mpack_writer_init_stdfile
  <2>2. Good(Ready(Capacity, "file", teardown, "live"), 0)
    BY <1>2, ReadyIsGood
  <2> QED
    BY <1>1, <1>3, <2>1, <2>2
<1>6. CASE mpack_writer_init_filename
  <2>1. Good(Ready(Capacity, "file", "close", "live"), 0)
    BY <1>2, ReadyIsGood
  <2> QED
    BY <1>1, <1>3, <1>6, <2>1 DEF mpack_writer_init_filename
<1>7. CASE mpack_writer_init
  <2>1. PICK n \in FixedSizes : Opened({Ready(n, "none", "none", "none")})
    BY <1>7 DEF mpack_writer_init
  <2>2. n \in Nat
    BY WriterAssumption
  <2>3. Good(Ready(n, "none", "none", "none"), 0)
    BY <2>2, ReadyIsGood
  <2> QED
    BY <1>1, <2>1, <2>3
<1>8. CASE mpack_writer_set_flush
  <2>1. /\ phase = "open" /\ phase' = phase /\ w.teardown = "none" /\ w.error = "ok"
        /\ w' = IF w.size < MinBuffer THEN Flag(w, "bug") ELSE [w EXCEPT !.flush = "file"]
    BY <1>8 DEF mpack_writer_set_flush
  <2>2. Good(w, 0) /\ Typed(w) /\ Prefix(w) /\ Exact(w, 0) /\ Kind(w) /\ Earned(w, 0)
    BY <2>1 DEF IInv, Good
  <2>3. CASE w.size < MinBuffer /\ w.flush = "none"
    <3>1. /\ w'.error = "bug" /\ w'.size = w.size /\ w'.flush = w.flush
          /\ w'.teardown = w.teardown /\ w'.block = w.block /\ w'.file = w.file
          /\ w'.sent = w.sent /\ w'.asked = w.asked /\ w'.starved = w.starved
          /\ w'.current = w.current /\ w'.mem = w.mem /\ DOMAIN w' = Fields
      BY <2>1, <2>2, <2>3 DEF Flag, Typed, Fields
    <3>2. Typed(w')
      BY <2>2, <3>1 DEF Typed, Errors
    <3>3. Prefix(w') /\ Kind(w')
      BY <2>2, <3>1 DEF Prefix, Kind
    <3>4. Exact(w', 0) /\ Earned(w', 0)
      BY <2>3, <3>1 DEF Exact, Earned
    <3> QED
      BY <2>1, <3>2, <3>3, <3>4 DEF IInv, Good
  <2>4. CASE ~(w.size < MinBuffer)
    <3>1. /\ w'.error = "ok" /\ w'.size = w.size /\ w'.flush = "file"
          /\ w'.teardown = w.teardown /\ w'.block = w.block /\ w'.file = w.file
          /\ w'.sent = w.sent /\ w'.asked = w.asked /\ w'.starved = w.starved
          /\ w'.current = w.current /\ w'.mem = w.mem /\ DOMAIN w' = Fields
      BY <2>1, <2>2, <2>4 DEF Typed, Fields
    <3>2. Typed(w')
      BY <2>2, <3>1 DEF Typed, Errors
    <3>3. Prefix(w') /\ Exact(w', 0)
      BY <2>1, <2>2, <3>1 DEF Prefix, Exact
    <3>4. w'.size >= MinBuffer
      BY <1>2, <2>2, <2>4, <3>1 DEF Typed
    <3>5. Kind(w') /\ Earned(w', 0)
      BY <2>1, <2>2, <3>1, <3>4 DEF Kind, Earned
    <3> QED
      BY <2>1, <3>2, <3>3, <3>5 DEF IInv, Good
  <2>5. w.flush # "none" => ~(w.size < MinBuffer)
    BY <1>2, <2>2 DEF Kind, Typed
  <2> QED
    BY <2>3, <2>4, <2>5
<1>9. CASE write_tag
  <2>1. PICK n \in 1..MaxTag : MayAsk(n) /\ w' \in Encoded(w, n)
    BY <1>9 DEF write_tag
  <2>2. n \in Nat /\ n <= MinBuffer
    BY <1>2, WriterAssumption
  <2> QED
    BY <2>1, <2>2, EncodedIsGood DEF MayAsk, IInv
<1>10. CASE write_str
  <2>1. PICK n \in 0..MaxAsked : MayAsk(n + 3) /\ w' \in mpack_write_str(w, n)
    BY <1>10 DEF write_str
  <2>2. n \in Nat
    OBVIOUS
  <2> QED
    BY <2>1, <2>2, StrIsGood DEF MayAsk, IInv
<1>11. CASE mpack_write_bytes
  <2>1. PICK n \in 0..MaxAsked : MayAsk(n) /\ w' \in mpack_write_native(w, n)
    BY <1>11 DEF mpack_write_bytes
  <2>2. n \in Nat
    OBVIOUS
  <2> QED
    BY <2>1, <2>2, NativeIsGood DEF MayAsk, IInv
<1>12. CASE mpack_writer_flush_message
  <2>1. /\ phase = "open" /\ phase' = phase /\ w.error = "ok"
        /\ w' \in IF w.flush = "none" THEN {Flag(w, "bug")}
                  ELSE IF w.current = 0 THEN {w} ELSE mpack_writer_flush_unchecked(w)
    BY <1>12 DEF mpack_writer_flush_message
  <2>2. Good(w, 0) /\ Typed(w) /\ Prefix(w) /\ Kind(w)
    BY <2>1 DEF IInv, Good
  <2>3. CASE w.flush = "none"
    <3>1. /\ w'.error = "bug" /\ w'.size = w.size /\ w'.flush = w.flush
          /\ w'.teardown = w.teardown /\ w'.block = w.block /\ w'.file = w.file
          /\ w'.sent = w.sent /\ w'.asked = w.asked /\ w'.starved = w.starved
          /\ w'.current = w.current /\ w'.mem = w.mem /\ DOMAIN w' = Fields
      BY <2>1, <2>2, <2>3 DEF Flag, Typed, Fields
    <3>2. Typed(w')
      BY <2>2, <3>1 DEF Typed, Errors
    <3>3. Prefix(w') /\ Kind(w')
      BY <2>2, <3>1 DEF Prefix, Kind
    <3>4. Exact(w', 0) /\ Earned(w', 0)
      BY <2>3, <3>1 DEF Exact, Earned
    <3> QED
      BY <2>1, <3>2, <3>3, <3>4 DEF IInv, Good
  <2>4. CASE w.flush # "none" /\ w.current = 0
    BY <2>1, <2>2, <2>4 DEF IInv
  <2>5. CASE w.flush # "none" /\ w.current # 0
    BY <2>1, <2>2, <2>5, FlushUncheckedIsGood DEF IInv
  <2> QED
    BY <2>3, <2>4, <2>5
<1>13. CASE Destroy
  <2>1. PICK v \in LastFlush(w) : w' \in Teardown(v)
    BY <1>13 DEF Destroy, mpack_writer_destroy
  <2>2. Good(w, 0) /\ phase' = "closed"
    BY <1>13 DEF Destroy, IInv
  <2>3. Flushed(v)
    BY <2>1, <2>2, LastFlushIsGood
  <2>4. Final(w')
    BY <2>1, <2>3, TeardownIsFinal
  <2> QED
    BY <2>2, <2>4 DEF IInv
<1>14. CASE UNCHANGED vars
  BY <1>14 DEF vars, IInv
<1> QED
  BY <1>4, <1>5, <1>6, <1>7, <1>8, <1>9, <1>10, <1>11, <1>12, <1>13, <1>14 DEF Next

\* The invariant holds at all times.
LEMMA SpecIsGood == Spec => []IInv
BY InitIsGood, StepIsGood, PTL DEF Spec

\* In every state of every writer nothing lies behind the end of the buffer, and all
\* that is kept has its type.
THEOREM WriterTypeCorrect == Spec => []TypeOK
<1>1. ASSUME NEW s, Typed(s)
      PROVE  /\ s.error \in Errors /\ s.starved \in BOOLEAN
             /\ {s.size, s.sent, s.asked} \subseteq Nat /\ s.current \in 0..s.size
             /\ s.mem \in [0..(s.size - 1) -> Nat] /\ s.file \in [0..(s.sent - 1) -> Nat]
             /\ s.flush \in {"none", "growable", "file"}
             /\ s.teardown \in {"none", "growable", "file", "close"}
             /\ s.block \in {"none", "live", "freed", "given"}
  BY <1>1 DEF Typed
<1>2. IInv => Typed(w) /\ phase \in {"none", "open", "closed"}
  BY DEF IInv, Good, Final
<1>3. IInv => TypeOK
  BY <1>1, <1>2 DEF TypeOK
<1> QED
  BY <1>3, SpecIsGood, PTL

\* A writer that is closed without an error has delivered all its bytes in order.
THEOREM WriterAnswerIsExact == Spec => []AnswerIsExact
<1>1. IInv => AnswerIsExact
  BY DEF IInv, Final, Prefix, AnswerIsExact
<1> QED
  BY <1>1, SpecIsGood, PTL

\* A file has the first bytes that were written, after any failure.
THEOREM WriterFileIsPrefix == Spec => []FileIsPrefix
<1>1. IInv => FileIsPrefix
  BY DEF IInv, Good, Final, Prefix, FileIsPrefix
<1> QED
  BY <1>1, SpecIsGood, PTL

\* The block of a closed writer is freed or given away, the latter only without error.
THEOREM WriterBlockHasOneOwner == Spec => []BlockHasOneOwner
<1>1. IInv => BlockHasOneOwner
  BY DEF IInv, Final, BlockHasOneOwner
<1> QED
  BY <1>1, SpecIsGood, PTL

\* Every error has a cause outside of the writer, or a buffer that was full for good.
THEOREM WriterErrorsAreEarned == Spec => []ErrorsAreEarned
<1>1. ASSUME Good(w, 0)
      PROVE  /\ w.error \in {"memory", "io"} => w.starved
             /\ w.error = "too_big" => w.flush = "none" /\ w.asked > w.size
             /\ w.flush = "none" /\ w.asked > w.size => w.error # "ok"
  <2>1. Typed(w) /\ Exact(w, 0) /\ Kind(w) /\ Earned(w, 0)
    BY <1>1 DEF Good
  <2>2. w.asked + 0 = w.asked
    BY <2>1 DEF Typed
  <2>3. w.flush = "none" /\ w.error = "ok" => w.sent = 0 /\ w.sent + w.current = w.asked
    BY <2>1, <2>2 DEF Exact, Kind
  <2>4. w.flush = "none" /\ w.error = "ok" => ~(w.asked > w.size)
    BY <2>1, <2>3 DEF Typed
  <2> QED
    BY <2>1, <2>2, <2>4 DEF Earned
<1>2. IInv => ErrorsAreEarned
  BY <1>1 DEF IInv, Final, ErrorsAreEarned
<1> QED
  BY <1>2, SpecIsGood, PTL

=============================================================================
