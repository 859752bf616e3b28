--------------------------- MODULE MsgpackOwnProofs ---------------------------
(***************************************************************************)
(* The messages of this library come back (OwnMessagesComeBack), however   *)
(* many there are in a buffer, of whatever size, with the keys of their    *)
(* maps in any order, and wherever memory runs out or the buffer ends.     *)
(*                                                                         *)
(* A frame of the decoder's stack is read from a node of the message, the  *)
(* value of a map or the elements of an array.  The invariant (PInv) says  *)
(* of a buffer of this library, while no token has come from elsewhere,    *)
(* that what is left of it is what is due of the nodes of the stack, the   *)
(* innermost first (Places), and that the structures that are being filled *)
(* hold what has been read of their nodes and nothing else (Content).      *)
(***************************************************************************)
EXTENDS MsgpackDecoderProofs, MsgpackWire, WellFoundedInduction

-----------------------------------------------------------------------------
(* Induction over the natural numbers, for a set of numbers, and what it   *)
(* says of FlattenSeq, which puts sequences one after the other.           *)

Less == OpToRel(<, Nat)

LEMMA LeastNumber ==
    ASSUME NEW S, S \subseteq Nat, S # {}
    PROVE  \E m \in S : \A n \in S : m <= n
<1>1. IsWellFoundedOn(Less, Nat)
  BY NatLessThanWellFounded DEF Less
<1>2. PICK m \in S : \A n \in S : <<n, m>> \notin Less
  BY <1>1, WFMin
<1>3. \A n \in S : n \in Nat /\ m \in Nat
  OBVIOUS
<1>4. \A n \in S : n < m => <<n, m>> \in Less
  BY <1>3 DEF Less, OpToRel
<1>5. ASSUME NEW n \in S PROVE m <= n
  <2>1. n \in Nat /\ m \in Nat /\ ~(n < m)
    BY <1>2, <1>3, <1>4
  <2> QED BY <2>1
<1> QED BY <1>5

LEMMA Induction ==
    ASSUME NEW S, 0 \in S, \A n \in Nat : n \in S => n + 1 \in S
    PROVE  Nat \subseteq S
<1> SUFFICES ASSUME Nat \ S # {} PROVE FALSE
  OBVIOUS
<1>1. PICK m \in Nat \ S : \A n \in Nat \ S : m <= n
  BY LeastNumber
<1>2. m # 0
  OBVIOUS
<1>3. m - 1 \in Nat /\ m - 1 \in S /\ (m - 1) + 1 = m
  BY <1>1, <1>2
<1> QED BY <1>3

-----------------------------------------------------------------------------
(* FlattenSeq.                                                             *)

\* f[i] is the first i sequences of s, one after the other.
Joins(f, s, n) == f = [i \in 1..n |-> IF i = 1 THEN s[i] ELSE f[i-1] \o s[i]]

LEMMA JoinsLonger ==
    ASSUME NEW s, NEW n \in Nat, NEW f, Joins(f, s, n)
    PROVE  \E g : Joins(g, s, n + 1)
<1> DEFINE g == [i \in 1..(n + 1) |-> IF i = 1 THEN s[i] ELSE f[i-1] \o s[i]]
<1>1. \A i \in 1..n : f[i] = IF i = 1 THEN s[i] ELSE f[i-1] \o s[i]
  BY DEF Joins
<1>2. \A i \in 1..n : i \in 1..(n + 1) /\ g[i] = f[i]
  BY <1>1
<1>3. \A i \in 1..(n + 1) : i # 1 => i - 1 \in 1..n
  OBVIOUS
<1>4. g = [i \in 1..(n + 1) |-> IF i = 1 THEN s[i] ELSE g[i-1] \o s[i]]
  BY <1>2, <1>3
<1> HIDE DEF g
<1>5. Joins(g, s, n + 1)
  BY <1>4 DEF Joins
<1> QED BY <1>5

LEMMA JoinsExists ==
    ASSUME NEW s, NEW n \in Nat
    PROVE  \E f : Joins(f, s, n)
<1> DEFINE S == {k \in Nat : \E f : Joins(f, s, k)}
<1>1. 0 \in S
  <2>1. [i \in 1..0 |-> s[i]] = [i \in 1..0 |-> IF i = 1 THEN s[i]
                                     ELSE [j \in 1..0 |-> s[j]][i-1] \o s[i]]
    OBVIOUS
  <2>2. Joins([i \in 1..0 |-> s[i]], s, 0)
    BY <2>1 DEF Joins
  <2> QED BY <2>2
<1>2. \A k \in Nat : k \in S => k + 1 \in S
  BY JoinsLonger
<1> HIDE DEF S
<1>3. Nat \subseteq S
  BY <1>1, <1>2, Induction
<1> QED BY <1>3 DEF S

BeginAlike(s, t, n) == \A i \in 1..n : s[i] = t[i]

\* Two sequences that begin alike are joined alike.
LEMMA JoinsAgree ==
    ASSUME NEW s, NEW t, NEW k \in Nat, NEW n \in Nat, k <= n, NEW f, NEW g,
           Joins(f, s, k), Joins(g, t, n), BeginAlike(s, t, k)
    PROVE  BeginAlike(f, g, k)
<1> DEFINE S == {j \in Nat : j \in 1..k => f[j] = g[j]}
<1>0. /\ \A i \in 1..k : f[i] = IF i = 1 THEN s[i] ELSE f[i-1] \o s[i]
      /\ \A i \in 1..n : g[i] = IF i = 1 THEN t[i] ELSE g[i-1] \o t[i]
  BY DEF Joins
<1>1. 0 \in S
  OBVIOUS
<1>2. ASSUME NEW j \in Nat, j \in S PROVE j + 1 \in S
  <2>1. SUFFICES ASSUME j + 1 \in 1..k PROVE f[j + 1] = g[j + 1]
    OBVIOUS
  <2>2. j + 1 \in 1..k /\ j + 1 \in 1..n /\ (j + 1) - 1 = j
    BY <2>1
  <2>3. j + 1 # 1 => j \in 1..k
    BY <2>1
  <2>4. j + 1 # 1 => f[j] = g[j]
    BY <1>2, <2>3
  <2>5. s[j + 1] = t[j + 1]
    BY <2>1 DEF BeginAlike
  <2>6. /\ f[j + 1] = IF j + 1 = 1 THEN s[j + 1] ELSE f[j] \o s[j + 1]
        /\ g[j + 1] = IF j + 1 = 1 THEN t[j + 1] ELSE g[j] \o t[j + 1]
    BY <1>0, <2>2
  <2> QED BY <2>4, <2>5, <2>6
<1> HIDE DEF S
<1>3. Nat \subseteq S
  BY <1>1, <1>2, Induction
<1> QED BY <1>3 DEF S, BeginAlike

LEMMA FlattenIsJoins ==
    ASSUME NEW T, NEW s \in Seq(T), s # <<>>
    PROVE  /\ Len(s) \in Nat \ {0}
           /\ \E f : Joins(f, s, Len(s)) /\ FlattenSeq(s) = f[Len(s)]
<1>1. Len(s) \in Nat \ {0}
  BY LenProperties, EmptySeq
<1> DEFINE f == CHOOSE f : f = [i \in 1..Len(s) |-> IF i = 1 THEN s[i] ELSE f[i-1] \o s[i]]
<1>2. \E h : h = [i \in 1..Len(s) |-> IF i = 1 THEN s[i] ELSE h[i-1] \o s[i]]
  BY <1>1, JoinsExists DEF Joins
<1>3. f = [i \in 1..Len(s) |-> IF i = 1 THEN s[i] ELSE f[i-1] \o s[i]]
  BY <1>2
<1>4. FlattenSeq(s) = f[Len(s)]
  BY <1>1 DEF FlattenSeq
<1> HIDE DEF f
<1>5. Joins(f, s, Len(s))
  BY <1>3 DEF Joins
<1> QED BY <1>1, <1>4, <1>5

LEMMA FlattenEmpty == FlattenSeq(<<>>) = <<>>
<1>1. Len(<<>>) = 0
  BY EmptySeq
<1> QED BY <1>1 DEF FlattenSeq

LEMMA FlattenAppend ==
    ASSUME NEW T, NEW s \in Seq(Seq(T)), NEW x \in Seq(T)
    PROVE  FlattenSeq(Append(s, x)) = FlattenSeq(s) \o x
<1> DEFINE a == Append(s, x)
<1>1. /\ a \in Seq(Seq(T)) /\ a # <<>> /\ Len(s) \in Nat /\ Len(a) = Len(s) + 1
      /\ \A i \in 1..Len(s) : a[i] = s[i]
      /\ a[Len(s) + 1] = x
  BY AppendProperties, LenProperties
<1> HIDE DEF a
<1>2. PICK g : Joins(g, a, Len(a)) /\ FlattenSeq(a) = g[Len(a)]
  BY <1>1, FlattenIsJoins
<1>3. \A i \in 1..Len(a) : g[i] = IF i = 1 THEN a[i] ELSE g[i-1] \o a[i]
  BY <1>2 DEF Joins
<1>4. CASE s = <<>>
  <2>1. Len(s) = 0 /\ Len(a) = 1 /\ g[1] = x
    BY <1>1, <1>3, <1>4, EmptySeq
  <2>2. FlattenSeq(s) = <<>> /\ <<>> \o x = x
    BY <1>4, FlattenEmpty, ConcatEmptySeq
  <2> QED BY <1>2, <2>1, <2>2 DEF a
<1>5. CASE s # <<>>
  <2>1. PICK f : Joins(f, s, Len(s)) /\ FlattenSeq(s) = f[Len(s)]
    BY <1>5, FlattenIsJoins
  <2>2. Len(s) \in Nat \ {0} /\ Len(s) <= Len(a)
    BY <1>1, <1>5, EmptySeq
  <2>3. f[Len(s)] = g[Len(s)]
    <3>1. \A i \in 1..Len(s) : f[i] = g[i]
      <4>0. PICK m : m = Len(s)
        OBVIOUS
      <4>1. PICK n : n = Len(a)
        OBVIOUS
      <4>2. m \in Nat /\ n \in Nat /\ m <= n
        BY <1>1, <2>2, <4>0, <4>1
      <4>3. BeginAlike(s, a, m)
        BY <1>1, <4>0 DEF BeginAlike
      <4>4. Joins(f, s, m) /\ Joins(g, a, n)
        BY <1>2, <2>1, <4>0, <4>1
      <4>5. BeginAlike(f, g, m)
        BY ONLY <4>2, <4>3, <4>4, JoinsAgree
      <4> QED BY <4>0, <4>5 DEF BeginAlike
    <3> QED BY <2>2, <3>1
  <2>4. Len(a) \in 1..Len(a) /\ Len(a) # 1 /\ Len(a) - 1 = Len(s)
    BY <1>1, <2>2
  <2>5. g[Len(a)] = g[Len(s)] \o x
    BY <1>1, <1>3, <2>4
  <2> QED BY <1>2, <2>1, <2>3, <2>5 DEF a
<1> QED BY <1>4, <1>5

LEMMA FlattenType ==
    ASSUME NEW T, NEW s \in Seq(Seq(T))
    PROVE  FlattenSeq(s) \in Seq(T)
<1>1. CASE s = <<>>
  BY <1>1, FlattenEmpty, EmptySeq
<1>2. CASE s # <<>>
  <2>1. PICK f : Joins(f, s, Len(s)) /\ FlattenSeq(s) = f[Len(s)]
    BY <1>2, FlattenIsJoins
  <2>2. Len(s) \in Nat \ {0}
    BY <1>2, LenProperties, EmptySeq
  <2> DEFINE S == {i \in Nat : i \in 1..Len(s) => f[i] \in Seq(T)}
  <2>3. \A i \in 1..Len(s) : f[i] = IF i = 1 THEN s[i] ELSE f[i-1] \o s[i]
    BY <2>1 DEF Joins
  <2>4. \A i \in 1..Len(s) : s[i] \in Seq(T)
    BY ElementOfSeq
  <2>5. 0 \in S
    BY <2>2
  <2>6. ASSUME NEW i \in Nat, i \in S PROVE i + 1 \in S
    <3>1. SUFFICES ASSUME i + 1 \in 1..Len(s) PROVE f[i + 1] \in Seq(T)
      OBVIOUS
    <3>2. f[i + 1] = IF i + 1 = 1 THEN s[i + 1] ELSE f[(i + 1) - 1] \o s[i + 1]
      BY <2>3, <3>1
    <3>3. (i + 1) - 1 = i /\ (i + 1 # 1 => i \in 1..Len(s))
      BY <2>2, <3>1
    <3>4. i + 1 # 1 => f[i] \in Seq(T)
      BY <2>6, <3>3
    <3>5. s[i + 1] \in Seq(T)
      BY <2>4, <3>1
    <3> QED BY <3>2, <3>3, <3>4, <3>5, ConcatProperties
  <2> HIDE DEF S
  <2>7. Nat \subseteq S
    BY <2>5, <2>6, Induction
  <2> QED BY <2>1, <2>2, <2>7 DEF S
<1> QED BY <1>1, <1>2

-----------------------------------------------------------------------------
(* From the beginning.                                                     *)

LEMMA FlattenFirst ==
    ASSUME NEW T, NEW s \in Seq(Seq(T)), NEW x \in Seq(T)
    PROVE  FlattenSeq(<<x>> \o s) = x \o FlattenSeq(s)
<1> DEFINE P(t) == FlattenSeq(<<x>> \o t) = x \o FlattenSeq(t)
           S == {k \in Nat : \A t \in Seq(Seq(T)) : Len(t) = k => P(t)}
<1>0. <<x>> \in Seq(Seq(T)) /\ <<x>> = Append(<<>>, x)
  OBVIOUS
<1>1. 0 \in S
  <2>1. SUFFICES ASSUME NEW t \in Seq(Seq(T)), Len(t) = 0 PROVE P(t)
    OBVIOUS
  <2>2. t = <<>>
    BY <2>1, EmptySeq
  <2>3. <<x>> \o t = Append(<<>>, x)
    BY <1>0, <2>2, ConcatEmptySeq
  <2>4. FlattenSeq(Append(<<>>, x)) = <<>> \o x
    <3>1. <<>> \in Seq(Seq(T))
      BY EmptySeq
    <3> QED BY <3>1, FlattenAppend, FlattenEmpty
  <2>5. <<>> \o x = x /\ x \o <<>> = x
    BY ConcatEmptySeq
  <2> QED BY <2>2, <2>3, <2>4, <2>5, FlattenEmpty
<1>2. ASSUME NEW k \in Nat, k \in S PROVE k + 1 \in S
  <2> HIDE DEF P
  <2>1. SUFFICES ASSUME NEW t \in Seq(Seq(T)), Len(t) = k + 1 PROVE P(t)
    <3>1. k + 1 \in Nat
      OBVIOUS
    <3> QED BY <3>1
  <2>2. t # <<>>
    BY <2>1, EmptySeq
  <2>3. PICK u \in Seq(Seq(T)), y \in Seq(T) : t = Append(u, y)
    BY <2>2, SequenceEmptyOrAppend
  <2>4. Len(u) = k
    BY <2>1, <2>3, AppendProperties, LenProperties
  <2>5. FlattenSeq(<<x>> \o u) = x \o FlattenSeq(u)
    BY <1>2, <2>4 DEF P
  <2>6. <<x>> \o t = Append(<<x>> \o u, y)
    <3>1. t = u \o <<y>> /\ <<y>> \in Seq(Seq(T))
      BY <2>3, AppendIsConcat
    <3>2. <<x>> \o u \in Seq(Seq(T))
      BY <1>0, ConcatProperties
    <3>3. Append(<<x>> \o u, y) = (<<x>> \o u) \o <<y>>
      BY <3>2, AppendIsConcat
    <3> QED BY <1>0, <3>1, <3>3, ConcatAssociative
  <2>7. <<x>> \o u \in Seq(Seq(T))
    BY <1>0, ConcatProperties
  <2>8. FlattenSeq(<<x>> \o t) = (x \o FlattenSeq(u)) \o y
    BY <2>5, <2>6, <2>7, FlattenAppend
  <2>9. FlattenSeq(t) = FlattenSeq(u) \o y
    BY <2>3, FlattenAppend
  <2>10. FlattenSeq(u) \in Seq(T)
    BY FlattenType
  <2>11. x \o (FlattenSeq(u) \o y) = (x \o FlattenSeq(u)) \o y
    BY <2>10, ConcatAssociative
  <2> QED BY <2>8, <2>9, <2>11 DEF P
<1> HIDE DEF S
<1>3. Nat \subseteq S
  BY <1>1, <1>2, Induction
<1>4. Len(s) \in Nat
  BY LenProperties
<1> QED BY <1>3, <1>4 DEF S

\* What comes after the first i of the parts.
After(parts, i) == FlattenSeq(SubSeq(parts, i + 1, Len(parts)))

LEMMA RestOfParts ==
    ASSUME NEW T, NEW parts \in Seq(T), NEW i \in 0..Len(parts)
    PROVE  SubSeq(parts, i + 1, Len(parts)) \in Seq(T)
<1>1. Len(parts) \in Nat /\ \A j \in 1..Len(parts) : parts[j] \in T
  BY LenProperties, ElementOfSeq
<1>2. \A j \in (i + 1)..Len(parts) : parts[j] \in T
  BY <1>1
<1>3. i + 1 \in Int /\ Len(parts) \in Int
  BY <1>1
<1> QED BY <1>2, <1>3, SubSeqProperties

LEMMA AfterType ==
    ASSUME NEW T, NEW parts \in Seq(Seq(T)), NEW i \in 0..Len(parts)
    PROVE  After(parts, i) \in Seq(T)
BY RestOfParts, FlattenType DEF After

LEMMA AfterNone ==
    ASSUME NEW T, NEW parts \in Seq(Seq(T))
    PROVE  After(parts, 0) = FlattenSeq(parts)
<1>1. SubSeq(parts, 0 + 1, Len(parts)) = parts
  BY SubSeqFull
<1> QED BY <1>1 DEF After

LEMMA AfterAll ==
    ASSUME NEW T, NEW parts \in Seq(Seq(T))
    PROVE  After(parts, Len(parts)) = <<>>
<1>1. Len(parts) \in Nat
  BY LenProperties
<1>2. SubSeq(parts, Len(parts) + 1, Len(parts)) = <<>>
  BY <1>1, SubSeqEmpty
<1> QED BY <1>2, FlattenEmpty DEF After

LEMMA AfterNext ==
    ASSUME NEW T, NEW parts \in Seq(Seq(T)), NEW i \in 0..(Len(parts) - 1)
    PROVE  After(parts, i) = parts[i + 1] \o After(parts, i + 1)
<1>1. Len(parts) \in Nat
  BY LenProperties
<1>2. i + 1 \in 1..Len(parts) /\ i + 1 \in 0..Len(parts) /\ Len(parts) \in (i + 1)..Len(parts)
  BY <1>1
<1>3. SubSeq(parts, i + 1, Len(parts)) = <<parts[i + 1]>> \o SubSeq(parts, (i + 1) + 1, Len(parts))
  BY <1>2, SubSeqRecursiveFirst
<1>4. parts[i + 1] \in Seq(T)
  BY <1>2, ElementOfSeq
<1>5. SubSeq(parts, (i + 1) + 1, Len(parts)) \in Seq(Seq(T))
  BY <1>2, RestOfParts
<1> QED BY <1>3, <1>4, <1>5, FlattenFirst DEF After

-----------------------------------------------------------------------------
(* The parts of a message.  A node is what a frame of the stack is read    *)
(* from: the value of a map, or the sequence of the values of an array.    *)

IsNode(kind, v) ==
    /\ kind = "context" =>
          /\ v \in [resourceSpans : MsgpackMessage(Int)]
          /\ \A i \in DOMAIN v.resourceSpans : ResourceSpanIsHeld(v.resourceSpans[i])
    /\ kind = "resource_span" => v \in PackedResourceSpan(Int) /\ ResourceSpanIsHeld(v)
    /\ kind = "resource" =>
          /\ v \in [attributes : AttributeSet \cup {NULL}, dropped_attributes_count : Int]
          /\ Held(v)
    /\ kind = "scope_span" => v \in PackedScopeSpan(Int) /\ ScopeSpanIsHeld(v)
    /\ kind = "scope" => v \in PackedScope(Int) /\ Held(v)
    /\ kind = "span" => v \in PackedSpan(Int) /\ SpanIsHeld(v)
    /\ kind = "status" => v \in [code : Int, message : String] /\ Held(v)
    /\ kind = "event" => v \in PackedEvent(Int) /\ Held(v) /\ v.attributes # NULL
    /\ kind = "link" => v \in PackedLink(Int) /\ Held(v)

AreNodes(kind, w) == IsList(w) /\ \A i \in 1..Len(w) : IsNode(kind, w[i])

IsValue(kind, key, w) ==
    /\ key = "attributes" => w \in AttributeSet \cup {NULL} /\ (kind = "event" => w # NULL)
    /\ key \in IdKeys => w \in Digits \cup {NULL}
    /\ key \in StringKeys => w \in String
    /\ key \in NumberKeys => w \in Int /\ Cut(key, w) = w
    /\ key \in {"resource", "status"} => IsNode(key, w)
    /\ key = "scope" => w = NULL \/ IsNode("scope", w)
    /\ key \in ArrayKeys => AreNodes(Element[key], w)

\* The tokens of a node.
WireNode(kind, v, order) ==
    CASE kind = "context"       -> Wire(v.resourceSpans, order)
      [] kind = "resource_span" -> WireResourceSpan(v, order)
      [] kind = "scope_span"    -> WireScopeSpan(v, order)
      [] kind = "span"          -> WireSpan(v, order)
      [] kind \in {"resource", "scope", "status", "event", "link"} -> WireFlat(kind, v, order)

Elements(kind, w, order) == [i \in DOMAIN w |-> WireNode(kind, w[i], order)]

WireValue(key, w, order) ==
    CASE key \in ArrayKeys -> WireArray(Elements(Element[key], w, order))
      [] key \in {"resource", "status"} -> WireFlat(key, w, order)
      [] key = "scope" -> IF w = NULL THEN <<Nil>> ELSE WireFlat("scope", w, order)
      [] key \in PlainKeys -> Leaf(key, w)

Parts(kind, v, order) ==
    [i \in DOMAIN order[kind] |->
        <<KeyToken(order[kind][i])>> \o WireValue(order[kind][i], v[order[kind][i]], order)]

\* What a node is refused for.
SpanGood(p) == SpanReads(p) /\ SpanFits(p)

ScopeSpanGood(s) ==
    /\ s.scope = NULL \/ KeysFit(s.scope.attributes)
    /\ Len(s.spans) <= MaxArray /\ \A i \in DOMAIN s.spans : SpanGood(s.spans[i])

ResourceSpanGood(r) ==
    /\ KeysFit(r.resource.attributes)
    /\ Len(r.scope_spans) <= MaxArray /\ \A i \in DOMAIN r.scope_spans : ScopeSpanGood(r.scope_spans[i])

Good(m) == Len(m) <= MaxArray /\ \A i \in DOMAIN m : ResourceSpanGood(m[i])

NodeGood(kind, v) ==
    /\ kind = "context" => Good(v.resourceSpans)
    /\ kind = "resource_span" => ResourceSpanGood(v)
    /\ kind = "scope_span" => ScopeSpanGood(v)
    /\ kind = "span" => SpanGood(v)
    /\ kind = "event" => EventReads(v)
    /\ kind = "link" => LinkReads(v)
    /\ kind \in {"resource", "scope"} => KeysFit(v.attributes)

AllGood(kind, w) == Len(w) <= MaxArray /\ \A i \in 1..Len(w) : NodeGood(kind, w[i])

ValueGood(key, w) ==
    /\ key = "attributes" => KeysFit(w)
    /\ key \in IdKeys => IdReads(w)
    /\ key = "resource" => NodeGood("resource", w)
    /\ key = "scope" => w = NULL \/ NodeGood("scope", w)
    /\ key \in ArrayKeys => AllGood(Element[key], w)

\* What a node is unpacked to.
UnNode(kind, v) ==
    CASE kind = "context" ->
            [resourceSpans |-> [i \in DOMAIN v.resourceSpans |->
                                   unpack_resource_span(v.resourceSpans[i])]]
      [] kind = "resource_span" -> unpack_resource_span(v)
      [] kind = "resource" -> [attr |-> unpack_attributes(v.attributes),
                               dropped_attr_count |-> v.dropped_attributes_count]
      [] kind = "scope_span" -> unpack_scope_span(v)
      [] kind = "scope" -> [name               |-> v.name,
                            version            |-> v.version,
                            attr               |-> v.attributes,
                            dropped_attr_count |-> v.dropped_attributes_count]
      [] kind = "span" -> unpack_span(v)
      [] kind = "status" -> v
      [] kind = "event" -> unpack_event(v)
      [] kind = "link" -> unpack_link(v)

UnValue(kind, key, w) ==
    CASE key = "attributes" -> IF kind \in {"scope", "link"} THEN w ELSE unpack_attributes(w)
      [] key \in IdKeys -> unpack_id(w)
      [] key \in StringKeys \cup NumberKeys -> w
      [] key \in {"resource", "status"} -> UnNode(key, w)
      [] key = "scope" -> unpack_instrumentation_scope(w)
      [] key \in ArrayKeys -> [i \in DOMAIN w |-> UnNode(Element[key], w[i])]

\* The structure before anything is read into it.
Blank(kind) ==
    IF kind = "context" THEN [resourceSpans |-> <<>>]
    ELSE IF kind = "resource" THEN New.resource_span.resource
    ELSE IF kind = "status" THEN New.span.status
    ELSE New[kind]

FieldFor(key) == IF key = "scope" THEN "instrumentation_scope" ELSE Field(key)

\* What is read, but for the identifiers of spans if memory was short.
Erased(kind, o) ==
    CASE kind = "context" -> [resourceSpans |-> NoIds(o.resourceSpans)]
      [] kind = "resource_span" -> NoIdsBelow(o)
      [] kind = "scope_span" -> NoIdsInScope(o)
      [] kind = "span" -> NoIdsInSpan(o)
      [] OTHER -> o

AlikeNode(hungry, kind, a, e) == (~hungry => a = e) /\ Erased(kind, a) = Erased(kind, e)

AlikeValue(hungry, kind, key, a, e) ==
    /\ key \in ArrayKeys => /\ IsList(a) /\ Len(a) = Len(e)
                            /\ \A i \in 1..Len(e) : AlikeNode(hungry, Element[key], a[i], e[i])
    /\ key \in IdKeys /\ kind = "span" => (~hungry => a = e)
    /\ key \notin ArrayKeys /\ ~(key \in IdKeys /\ kind = "span") => a = e
-----------------------------------------------------------------------------
(* The tokens of a node.                                                   *)

TokenTypes == {"map", "array", "key", "num", "nil", "attrs", "badattrs", "id", "str"}

TokenSet == TokenTypes \X (Int \cup STRING \cup AttributeSet \cup Digits \cup String)

Kinds == DOMAIN MapLevel

LEMMA LeafIs ==
    ASSUME NEW kind, NEW key \in PlainKeys, NEW w, IsValue(kind, key, w)
    PROVE  /\ key \in NumberKeys => LeafToken(key, w) = Number(w) /\ w \in Int /\ Cut(key, w) = w
           /\ key \notin NumberKeys /\ w = NULL => LeafToken(key, w) = Nil
           /\ key = "attributes" /\ w # NULL =>
                 /\ LeafToken(key, w) = <<IF KeysFit(w) THEN "attrs" ELSE "badattrs", w>>
                 /\ w \in AttributeSet
           /\ key \in IdKeys /\ w # NULL => LeafToken(key, w) = <<"id", w>> /\ w \in Digits
           /\ key \in StringKeys => w \in String
           /\ key \in StringKeys /\ w # NULL => LeafToken(key, w) = <<"str", w>>
<1>1. /\ key \in NumberKeys => key \notin IdKeys /\ key \notin StringKeys /\ key # "attributes"
      /\ key \in StringKeys => key \notin IdKeys /\ key # "attributes"
      /\ key \in IdKeys => key # "attributes"
      /\ key \in NumberKeys \/ key \in IdKeys \/ key \in StringKeys \/ key = "attributes"
  BY DEF PlainKeys, NumberKeys, IdKeys, StringKeys
<1>2. CASE key \in NumberKeys
  <2>1. LeafToken(key, w) = Number(w)
    BY <1>1, <1>2, Zenon DEF LeafToken
  <2>2. w \in Int /\ Cut(key, w) = w
    BY <1>1, <1>2 DEF IsValue
  <2> QED BY <1>1, <1>2, <2>1, <2>2
<1>3. CASE key \in IdKeys
  <2>1. w = NULL => LeafToken(key, w) = Nil
    BY <1>1, <1>3, Zenon DEF LeafToken
  <2>2. w # NULL => LeafToken(key, w) = <<"id", w>>
    BY <1>1, <1>3, Zenon DEF LeafToken
  <2>3. w \in Digits \cup {NULL}
    BY <1>1, <1>3 DEF IsValue
  <2> QED BY <1>1, <1>3, <2>1, <2>2, <2>3
<1>4. CASE key \in StringKeys
  <2>1. w = NULL => LeafToken(key, w) = Nil
    BY <1>1, <1>4, Zenon DEF LeafToken
  <2>2. w # NULL => LeafToken(key, w) = <<"str", w>>
    BY <1>1, <1>4, Zenon DEF LeafToken
  <2>3. w \in String
    BY <1>1, <1>4 DEF IsValue
  <2> QED BY <1>1, <1>4, <2>1, <2>2, <2>3
<1>5. CASE key = "attributes"
  <2>1. w = NULL => LeafToken(key, w) = Nil
    BY <1>1, <1>5, Zenon DEF LeafToken
  <2>2. w # NULL => LeafToken(key, w) = <<IF KeysFit(w) THEN "attrs" ELSE "badattrs", w>>
    BY <1>1, <1>5, Zenon DEF LeafToken
  <2>3. w \in AttributeSet \cup {NULL}
    BY <1>1, <1>5 DEF IsValue
  <2> QED BY <1>1, <1>5, <2>1, <2>2, <2>3
<1> QED BY <1>1, <1>2, <1>3, <1>4, <1>5

LEMMA LeafType ==
    ASSUME NEW kind, NEW key \in PlainKeys, NEW w, IsValue(kind, key, w)
    PROVE  Leaf(key, w) \in Seq(TokenSet)
<1>1. key \in NumberKeys \/ key \in IdKeys \/ key \in StringKeys \/ key = "attributes"
  BY DEF PlainKeys
<1>2. LeafToken(key, w) \in TokenSet
  <2>1. key \in NumberKeys => LeafToken(key, w) \in TokenSet
    BY LeafIs DEF TokenSet, TokenTypes, Number
  <2>2. key \notin NumberKeys /\ w = NULL => LeafToken(key, w) \in TokenSet
    BY LeafIs DEF TokenSet, TokenTypes, Nil
  <2>3. key = "attributes" /\ w # NULL => LeafToken(key, w) \in TokenSet
    BY LeafIs DEF TokenSet, TokenTypes
  <2>4. key \in IdKeys /\ w # NULL => LeafToken(key, w) \in TokenSet
    BY LeafIs DEF TokenSet, TokenTypes
  <2>5. key \in StringKeys /\ w # NULL => LeafToken(key, w) \in TokenSet
    BY LeafIs DEF TokenSet, TokenTypes
  <2>6. key \in NumberKeys => key \notin IdKeys /\ key \notin StringKeys /\ key # "attributes"
    BY DEF NumberKeys, IdKeys, StringKeys
  <2> QED BY <1>1, <2>1, <2>2, <2>3, <2>4, <2>5, <2>6
<1>3. PICK t : t = LeafToken(key, w)
  OBVIOUS
<1>4. <<t>> \in Seq(TokenSet)
  BY <1>2, <1>3
<1> QED BY <1>3, <1>4 DEF Leaf

\* The entries of a map, given the tokens of its values.
MapParts(kind, values, order) ==
    [i \in DOMAIN order[kind] |-> <<KeyToken(order[kind][i])>> \o values[order[kind][i]]]

LEMMA OrderIs ==
    ASSUME NEW order \in Orders, NEW kind \in Kinds
    PROVE  /\ order[kind] \in Seq(STRING) /\ DOMAIN order[kind] = 1..EntryCount[kind]
           /\ Len(order[kind]) = EntryCount[kind] /\ EntryCount[kind] \in Nat
           /\ \A i \in 1..EntryCount[kind] : order[kind][i] \in Range(Entries[kind])
           /\ \A key \in Range(Entries[kind]) : \E i \in 1..EntryCount[kind] : order[kind][i] = key
           /\ \A i, j \in 1..EntryCount[kind] : order[kind][i] = order[kind][j] => i = j
<1>1. kind \in DOMAIN Entries /\ EntryCount[kind] \in Nat
  BY DEF Kinds, MapLevel, Entries, EntryCount
<1>2. /\ order[kind] \in Seq(STRING) /\ Len(order[kind]) = EntryCount[kind]
      /\ IsInjective(order[kind]) /\ Range(order[kind]) = Range(Entries[kind])
  BY <1>1 DEF Orders
<1>3. DOMAIN order[kind] = 1..EntryCount[kind]
  BY <1>2
<1>4. /\ \A i \in 1..EntryCount[kind] : order[kind][i] \in Range(Entries[kind])
      /\ \A key \in Range(Entries[kind]) : \E i \in 1..EntryCount[kind] : order[kind][i] = key
  <2>1. PICK r : r = Range(Entries[kind])
    OBVIOUS
  <2>2. r = {order[kind][x] : x \in 1..EntryCount[kind]}
    BY <1>2, <1>3, <2>1 DEF Range
  <2> QED BY <2>1, <2>2
<1>5. \A i, j \in 1..EntryCount[kind] : order[kind][i] = order[kind][j] => i = j
  BY <1>2, <1>3 DEF IsInjective
<1> QED BY <1>1, <1>2, <1>3, <1>4, <1>5

LEMMA MapPartsType ==
    ASSUME NEW order \in Orders, NEW kind \in Kinds, NEW values,
           \A key \in Range(Entries[kind]) : values[key] \in Seq(TokenSet)
    PROVE  /\ MapParts(kind, values, order) \in Seq(Seq(TokenSet))
           /\ Len(MapParts(kind, values, order)) = EntryCount[kind]
           /\ WireMap(kind, values, order)
                = <<Map(EntryCount[kind])>> \o FlattenSeq(MapParts(kind, values, order))
           /\ WireMap(kind, values, order) \in Seq(TokenSet)
<1> DEFINE n == EntryCount[kind]
           parts == MapParts(kind, values, order)
<1>1. /\ n \in Nat /\ DOMAIN order[kind] = 1..n
      /\ \A i \in 1..n : order[kind][i] \in Range(Entries[kind]) /\ order[kind][i] \in STRING
  <2>1. order[kind] \in Seq(STRING) /\ n \in Nat /\ DOMAIN order[kind] = 1..n
        /\ Len(order[kind]) = n /\ \A i \in 1..n : order[kind][i] \in Range(Entries[kind])
    BY OrderIs
  <2>2. \A i \in 1..n : order[kind][i] \in STRING
    BY <2>1, ElementOfSeq
  <2> QED BY <2>1, <2>2
<1>2. \A i \in 1..n : <<KeyToken(order[kind][i])>> \o values[order[kind][i]] \in Seq(TokenSet)
  <2> TAKE i \in 1..n
  <2>1. PICK t : t = KeyToken(order[kind][i])
    OBVIOUS
  <2>2. t \in TokenSet
    BY <1>1, <2>1 DEF TokenSet, TokenTypes, KeyToken
  <2>3. <<t>> \in Seq(TokenSet) /\ values[order[kind][i]] \in Seq(TokenSet)
    BY <1>1, <2>2
  <2> QED BY <2>1, <2>3, ConcatProperties
<1>3. parts = [i \in 1..n |-> <<KeyToken(order[kind][i])>> \o values[order[kind][i]]]
  BY <1>1 DEF MapParts
<1>4. parts \in Seq(Seq(TokenSet)) /\ Len(parts) = n
  <2>1. PICK q, T : q = parts /\ T = Seq(TokenSet)
    OBVIOUS
  <2>2. q \in [1..n -> T]
    BY <1>2, <1>3, <2>1
  <2>3. q \in Seq(T) /\ Len(q) = n
    BY <1>1, <2>2
  <2> QED BY <2>1, <2>3
<1>5. FlattenSeq(parts) \in Seq(TokenSet)
  BY <1>4, FlattenType
<1>6. <<Map(n)>> \in Seq(TokenSet)
  <2>1. Map(n) \in TokenSet
    BY <1>1 DEF Map, TokenSet, TokenTypes
  <2>2. PICK t : t = Map(n)
    OBVIOUS
  <2>3. <<t>> \in Seq(TokenSet)
    BY <2>1, <2>2
  <2> QED BY <2>2, <2>3
<1>7. <<Map(n)>> \o FlattenSeq(parts) \in Seq(TokenSet)
  BY <1>5, <1>6, ConcatProperties
<1>8. WireMap(kind, values, order) = <<Map(n)>> \o FlattenSeq(parts)
  BY DEF WireMap, MapParts
<1> QED BY <1>4, <1>7, <1>8

LEMMA ArrayType ==
    ASSUME NEW elements, IsList(elements),
           \A i \in 1..Len(elements) : elements[i] \in Seq(TokenSet)
    PROVE  elements \in Seq(Seq(TokenSet)) /\ WireArray(elements) \in Seq(TokenSet)
<1>1. PICK S : elements \in Seq(S)
  BY DEF IsList
<1>2. /\ Len(elements) \in Nat
      /\ elements = [i \in 1..Len(elements) |-> elements[i]]
  BY <1>1
<1>3. elements \in Seq(Seq(TokenSet))
  BY <1>2, IsASeq
<1>4. FlattenSeq(elements) \in Seq(TokenSet)
  BY <1>3, FlattenType
<1>5. PICK t : t = Array(Len(elements))
  OBVIOUS
<1>6. t \in TokenSet
  BY <1>2, <1>5 DEF Array, TokenSet, TokenTypes
<1>7. <<t>> \in Seq(TokenSet)
  BY <1>6
<1>8. <<t>> \o FlattenSeq(elements) \in Seq(TokenSet)
  BY <1>4, <1>7, ConcatProperties
<1> QED BY <1>3, <1>5, <1>8 DEF WireArray

\* The alternatives of IsValue and of WireValue exclude one another.
LEMMA KeysDiffer ==
    /\ PlainKeys \cap (ArrayKeys \cup MapKeys) = {} /\ ArrayKeys \cap MapKeys = {}
    /\ ArrayKeys = {"resourceSpans", "scope_spans", "spans", "events", "links"}
    /\ NumberKeys \cap (IdKeys \cup StringKeys \cup {"attributes"}) = {}
    /\ StringKeys \cap (IdKeys \cup {"attributes"}) = {} /\ "attributes" \notin IdKeys
    /\ Element["resourceSpans"] = "resource_span" /\ Element["scope_spans"] = "scope_span"
    /\ Element["spans"] = "span" /\ Element["events"] = "event" /\ Element["links"] = "link"
<1>1. ArrayKeys = {"resourceSpans", "scope_spans", "spans", "events", "links"}
  BY DEF ArrayKeys, Element
<1>2. PlainKeys \cap (ArrayKeys \cup MapKeys) = {} /\ ArrayKeys \cap MapKeys = {}
  BY <1>1 DEF PlainKeys, MapKeys, IdKeys, StringKeys, NumberKeys
<1>3. /\ NumberKeys \cap (IdKeys \cup StringKeys \cup {"attributes"}) = {}
      /\ StringKeys \cap (IdKeys \cup {"attributes"}) = {} /\ "attributes" \notin IdKeys
  BY DEF IdKeys, StringKeys, NumberKeys
<1>4. /\ Element["resourceSpans"] = "resource_span" /\ Element["scope_spans"] = "scope_span"
      /\ Element["spans"] = "span" /\ Element["events"] = "event" /\ Element["links"] = "link"
  BY DEF Element
<1> QED BY <1>1, <1>2, <1>3, <1>4

LEMMA WireValueIs ==
    ASSUME NEW key, NEW w, NEW order
    PROVE  /\ key \in PlainKeys => WireValue(key, w, order) = Leaf(key, w)
           /\ key \in ArrayKeys =>
                 WireValue(key, w, order) = WireArray(Elements(Element[key], w, order))
           /\ key \in {"resource", "status"} => WireValue(key, w, order) = WireFlat(key, w, order)
           /\ key = "scope" => WireValue(key, w, order) =
                 IF w = NULL THEN <<Nil>> ELSE WireFlat("scope", w, order)
<1>1. /\ key \in PlainKeys => key \notin ArrayKeys /\ key \notin {"resource", "status"} /\ key # "scope"
      /\ key \in {"resource", "status"} => key \notin ArrayKeys /\ key # "scope"
      /\ key = "scope" => key \notin ArrayKeys
  BY KeysDiffer DEF MapKeys
<1>2. key \in PlainKeys => WireValue(key, w, order) = Leaf(key, w)
  BY <1>1, Zenon DEF WireValue
<1>3. key \in ArrayKeys => WireValue(key, w, order) = WireArray(Elements(Element[key], w, order))
  BY <1>1, Zenon DEF WireValue
<1>4. key \in {"resource", "status"} => WireValue(key, w, order) = WireFlat(key, w, order)
  BY <1>1, Zenon DEF WireValue
<1>5. key = "scope" => WireValue(key, w, order) =
         IF w = NULL THEN <<Nil>> ELSE WireFlat("scope", w, order)
  BY <1>1, Zenon DEF WireValue
<1> QED BY <1>2, <1>3, <1>4, <1>5


\* Under each key of a node there is a value that fits it.
LEMMA NodeFields ==
    ASSUME NEW kind \in Kinds, NEW v, IsNode(kind, v)
    PROVE  /\ DOMAIN v = Range(Entries[kind])
           /\ \A key \in Range(Entries[kind]) : IsValue(kind, key, v[key])
<1> USE DEF Range
<1>1. CASE kind = "context"
  <2>1. v \in [resourceSpans : MsgpackMessage(Int)]
        /\ \A i \in DOMAIN v.resourceSpans : ResourceSpanIsHeld(v.resourceSpans[i])
    BY <1>1 DEF IsNode
  <2>2. DOMAIN v = {"resourceSpans"} /\ Range(Entries[kind]) = {"resourceSpans"}
    BY <1>1, <2>1 DEF Entries
  <2>3. v.resourceSpans \in Seq(PackedResourceSpan(Int))
    BY <2>1 DEF MsgpackMessage
  <2>4. PICK w : w = v.resourceSpans
    OBVIOUS
  <2>5. IsList(w) /\ \A i \in 1..Len(w) : IsNode("resource_span", w[i])
    <3>1. DOMAIN w = 1..Len(w) /\ \A i \in 1..Len(w) : w[i] \in PackedResourceSpan(Int)
      BY <2>3, <2>4, LenProperties, ElementOfSeq
    <3> QED BY <2>1, <2>3, <2>4, <3>1 DEF IsList, IsNode
  <2>6. IsValue(kind, "resourceSpans", v.resourceSpans)
    BY <2>4, <2>5, KeysDiffer DEF IsValue, AreNodes, MapKeys, PlainKeys
  <2> QED BY <2>2, <2>6
<1>2. CASE kind = "resource_span"
  <2>1. v \in PackedResourceSpan(Int) /\ ResourceSpanIsHeld(v)
    BY <1>2 DEF IsNode
  <2>2. /\ DOMAIN v = {"resource", "schema_url", "scope_spans"}
        /\ v.resource \in [attributes : AttributeSet \cup {NULL}, dropped_attributes_count : Int]
        /\ v.schema_url \in String /\ v.scope_spans \in Seq(PackedScopeSpan(Int))
    BY <2>1 DEF PackedResourceSpan
  <2>3. Range(Entries[kind]) = {"resource", "schema_url", "scope_spans"}
    BY <1>2 DEF Entries
  <2>4. IsValue(kind, "resource", v.resource)
    BY <2>1, <2>2, KeysDiffer DEF IsValue, IsNode, MapKeys, PlainKeys, ResourceSpanIsHeld
  <2>5. IsValue(kind, "schema_url", v.schema_url)
    BY <2>2, KeysDiffer DEF IsValue, StringKeys, PlainKeys
  <2>6. PICK w : w = v.scope_spans
    OBVIOUS
  <2>7. IsList(w) /\ \A i \in 1..Len(w) : IsNode("scope_span", w[i])
    <3>1. DOMAIN w = 1..Len(w) /\ \A i \in 1..Len(w) : w[i] \in PackedScopeSpan(Int)
      BY <2>2, <2>6, LenProperties, ElementOfSeq
    <3>2. \A i \in DOMAIN w : ScopeSpanIsHeld(w[i])
      BY <2>1, <2>6 DEF ResourceSpanIsHeld
    <3> QED BY <2>2, <2>6, <3>1, <3>2 DEF IsList, IsNode
  <2>8. IsValue(kind, "scope_spans", v.scope_spans)
    BY <2>6, <2>7, KeysDiffer DEF IsValue, AreNodes, MapKeys, PlainKeys
  <2> QED BY <2>2, <2>3, <2>4, <2>5, <2>8
<1>3. CASE kind = "scope_span"
  <2>1. v \in PackedScopeSpan(Int) /\ ScopeSpanIsHeld(v)
    BY <1>3 DEF IsNode
  <2>2. /\ DOMAIN v = {"scope", "spans", "schema_url"}
        /\ v.scope \in PackedScope(Int) \cup {NULL}
        /\ v.schema_url \in String /\ v.spans \in Seq(PackedSpan(Int))
    BY <2>1 DEF PackedScopeSpan
  <2>3. Range(Entries[kind]) = {"scope", "spans", "schema_url"}
    BY <1>3 DEF Entries
  <2>4. IsValue(kind, "scope", v.scope)
    BY <2>1, <2>2, KeysDiffer DEF IsValue, IsNode, MapKeys, PlainKeys, ScopeSpanIsHeld
  <2>5. IsValue(kind, "schema_url", v.schema_url)
    BY <2>2, KeysDiffer DEF IsValue, StringKeys, PlainKeys
  <2>6. PICK w : w = v.spans
    OBVIOUS
  <2>7. IsList(w) /\ \A i \in 1..Len(w) : IsNode("span", w[i])
    <3>1. DOMAIN w = 1..Len(w) /\ \A i \in 1..Len(w) : w[i] \in PackedSpan(Int)
      BY <2>2, <2>6, LenProperties, ElementOfSeq
    <3>2. \A i \in DOMAIN w : SpanIsHeld(w[i])
      BY <2>1, <2>6 DEF ScopeSpanIsHeld
    <3> QED BY <2>2, <2>6, <3>1, <3>2 DEF IsList, IsNode
  <2>8. IsValue(kind, "spans", v.spans)
    BY <2>6, <2>7, KeysDiffer DEF IsValue, AreNodes, MapKeys, PlainKeys
  <2> QED BY <2>2, <2>3, <2>4, <2>5, <2>8
<1>4. CASE kind = "span"
  <2>1. v \in PackedSpan(Int) /\ SpanIsHeld(v)
    BY <1>4 DEF IsNode
  <2>2. Range(Entries[kind]) =
           {"trace_id", "span_id", "parent_span_id", "trace_state", "name", "kind",
            "start_time_unix_nano", "end_time_unix_nano", "attributes",
            "dropped_attributes_count", "dropped_events_count",
            "dropped_links_count", "events", "links", "schema_url", "status"}
    BY <1>4 DEF Entries
  <2>3. DOMAIN v = Range(Entries[kind])
    BY <2>1, <2>2 DEF PackedSpan
  <2>4. /\ v.trace_id \in Digits \cup {NULL} /\ v.span_id \in Digits \cup {NULL}
        /\ v.parent_span_id \in Digits \cup {NULL} /\ v.trace_state \in String
        /\ v.name \in String /\ v.schema_url \in String /\ v.kind \in Int
        /\ v.start_time_unix_nano \in Int /\ v.end_time_unix_nano \in Int
        /\ v.attributes \in AttributeSet \cup {NULL} /\ v.dropped_attributes_count \in Int
        /\ v.dropped_events_count \in Int /\ v.dropped_links_count \in Int
        /\ v.events \in Seq(PackedEvent(Int)) /\ v.links \in Seq(PackedLink(Int))
        /\ v.status \in [code : Int, message : String]
    BY <2>1 DEF PackedSpan
  <2>5. \A key \in IdKeys : key \in Range(Entries[kind]) => IsValue(kind, key, v[key])
    BY <2>4, KeysDiffer DEF IsValue, IdKeys, PlainKeys, MapKeys
  <2>6. \A key \in StringKeys : key \in Range(Entries[kind]) => IsValue(kind, key, v[key])
    BY <2>2, <2>4, KeysDiffer DEF IsValue, StringKeys, PlainKeys, MapKeys
  <2>7. \A key \in NumberKeys : key \in Range(Entries[kind]) => IsValue(kind, key, v[key])
    <3>1. \A key \in NumberKeys : key \in Range(Entries[kind]) => v[key] \in Int
      BY <2>2, <2>4 DEF NumberKeys
    <3>2. \A key \in NumberKeys : key \in Range(Entries[kind]) => Cut(key, v[key]) = v[key]
      BY <2>1, <2>3 DEF SpanIsHeld, Held
    <3> QED BY <3>1, <3>2, KeysDiffer DEF IsValue, PlainKeys, MapKeys
  <2>8. IsValue(kind, "attributes", v.attributes)
    BY <1>4, <2>4, KeysDiffer DEF IsValue, PlainKeys, MapKeys
  <2>9. IsValue(kind, "status", v.status)
    BY <2>1, <2>4, KeysDiffer DEF IsValue, IsNode, PlainKeys, MapKeys, SpanIsHeld
  <2>10. PICK w : w = v.events
    OBVIOUS
  <2>11. IsList(w) /\ \A i \in 1..Len(w) : IsNode("event", w[i])
    <3>1. DOMAIN w = 1..Len(w) /\ \A i \in 1..Len(w) : w[i] \in PackedEvent(Int)
      BY <2>4, <2>10, LenProperties, ElementOfSeq
    <3>2. \A i \in DOMAIN w : Held(w[i]) /\ w[i].attributes # NULL
      BY <2>1, <2>10 DEF SpanIsHeld
    <3> QED BY <2>4, <2>10, <3>1, <3>2 DEF IsList, IsNode
  <2>12. IsValue(kind, "events", v.events)
    BY <2>10, <2>11, KeysDiffer DEF IsValue, AreNodes, MapKeys, PlainKeys
  <2>13. PICK x : x = v.links
    OBVIOUS
  <2>14. IsList(x) /\ \A i \in 1..Len(x) : IsNode("link", x[i])
    <3>1. DOMAIN x = 1..Len(x) /\ \A i \in 1..Len(x) : x[i] \in PackedLink(Int)
      BY <2>4, <2>13, LenProperties, ElementOfSeq
    <3>2. \A i \in DOMAIN x : Held(x[i])
      BY <2>1, <2>13 DEF SpanIsHeld
    <3> QED BY <2>4, <2>13, <3>1, <3>2 DEF IsList, IsNode
  <2>15. IsValue(kind, "links", v.links)
    BY <2>13, <2>14, KeysDiffer DEF IsValue, AreNodes, MapKeys, PlainKeys
  <2>16. \A key \in Range(Entries[kind]) : \/ key \in IdKeys \/ key \in StringKeys \/ key \in NumberKeys
                                           \/ key \in {"attributes", "status", "events", "links"}
    BY <2>2 DEF IdKeys, StringKeys, NumberKeys
  <2> QED BY <2>3, <2>5, <2>6, <2>7, <2>8, <2>9, <2>12, <2>15, <2>16
<1>5. CASE kind \in {"resource", "scope", "status", "event", "link"}
  <2>1. Held(v) /\ (kind = "event" => v.attributes # NULL)
    BY <1>5 DEF IsNode
  <2>2. /\ DOMAIN v = Range(Entries[kind])
        /\ \A key \in Range(Entries[kind]) :
              /\ key \in IdKeys => v[key] \in Digits \cup {NULL}
              /\ key \in StringKeys => v[key] \in String
              /\ key \in NumberKeys => v[key] \in Int
              /\ key = "attributes" => v[key] \in AttributeSet \cup {NULL}
              /\ key \in PlainKeys
    <3>1. CASE kind = "resource"
      <4>1. Range(Entries[kind]) = {"attributes", "dropped_attributes_count"}
        BY <3>1 DEF Entries
      <4>2. v \in [attributes : AttributeSet \cup {NULL}, dropped_attributes_count : Int]
        BY <3>1 DEF IsNode
      <4> QED BY <4>1, <4>2 DEF IdKeys, StringKeys, NumberKeys, PlainKeys
    <3>2. CASE kind = "scope"
      <4>1. Range(Entries[kind]) = {"name", "version", "attributes", "dropped_attributes_count"}
        BY <3>2 DEF Entries
      <4>2. v \in PackedScope(Int)
        BY <3>2 DEF IsNode
      <4> QED BY <4>1, <4>2 DEF PackedScope, IdKeys, StringKeys, NumberKeys, PlainKeys
    <3>3. CASE kind = "status"
      <4>1. Range(Entries[kind]) = {"code", "message"}
        BY <3>3 DEF Entries
      <4>2. v \in [code : Int, message : String]
        BY <3>3 DEF IsNode
      <4> QED BY <4>1, <4>2 DEF IdKeys, StringKeys, NumberKeys, PlainKeys
    <3>4. CASE kind = "event"
      <4>1. Range(Entries[kind]) = {"time_unix_nano", "name", "attributes", "dropped_attributes_count"}
        BY <3>4 DEF Entries
      <4>2. v \in PackedEvent(Int)
        BY <3>4 DEF IsNode
      <4> QED BY <4>1, <4>2 DEF PackedEvent, IdKeys, StringKeys, NumberKeys, PlainKeys
    <3>5. CASE kind = "link"
      <4>1. Range(Entries[kind]) = {"trace_id", "span_id", "trace_state", "attributes",
                                    "dropped_attributes_count"}
        BY <3>5 DEF Entries
      <4>2. v \in PackedLink(Int)
        BY <3>5 DEF IsNode
      <4> QED BY <4>1, <4>2 DEF PackedLink, IdKeys, StringKeys, NumberKeys, PlainKeys
    <3> QED BY <1>5, <3>1, <3>2, <3>3, <3>4, <3>5
  <2>3. \A key \in Range(Entries[kind]) : key \in NumberKeys => Cut(key, v[key]) = v[key]
    BY <2>1, <2>2 DEF Held
  <2>4. \A key \in Range(Entries[kind]) : kind = "event" /\ key = "attributes" => v[key] # NULL
    BY <2>1
  <2> QED BY <2>2, <2>3, <2>4, KeysDiffer DEF IsValue, MapKeys
<1> QED BY <1>1, <1>2, <1>3, <1>4, <1>5 DEF Kinds, MapLevel

\* A node is written as the number of its entries and then the entries.
Wired(kind, v, order) ==
    /\ WireNode(kind, v, order) = <<Map(EntryCount[kind])>> \o FlattenSeq(Parts(kind, v, order))
    /\ Parts(kind, v, order) \in Seq(Seq(TokenSet))
    /\ Len(Parts(kind, v, order)) = EntryCount[kind]
    /\ WireNode(kind, v, order) \in Seq(TokenSet)

LEMMA WireNodeIs ==
    ASSUME NEW kind, NEW v, NEW order
    PROVE  /\ kind = "context" => WireNode(kind, v, order) = Wire(v.resourceSpans, order)
           /\ kind = "resource_span" => WireNode(kind, v, order) = WireResourceSpan(v, order)
           /\ kind = "scope_span" => WireNode(kind, v, order) = WireScopeSpan(v, order)
           /\ kind = "span" => WireNode(kind, v, order) = WireSpan(v, order)
           /\ kind \in {"resource", "scope", "status", "event", "link"} =>
                 WireNode(kind, v, order) = WireFlat(kind, v, order)
<1>1. kind = "context" => WireNode(kind, v, order) = Wire(v.resourceSpans, order)
  BY Zenon DEF WireNode
<1>2. kind = "resource_span" => WireNode(kind, v, order) = WireResourceSpan(v, order)
  BY Zenon DEF WireNode
<1>3. kind = "scope_span" => WireNode(kind, v, order) = WireScopeSpan(v, order)
  BY Zenon DEF WireNode
<1>4. kind = "span" => WireNode(kind, v, order) = WireSpan(v, order)
  BY Zenon DEF WireNode
<1>5. kind \in {"resource", "scope", "status", "event", "link"} =>
         WireNode(kind, v, order) = WireFlat(kind, v, order)
  <2>1. kind \in {"resource", "scope", "status", "event", "link"} =>
           kind # "context" /\ kind # "resource_span" /\ kind # "scope_span" /\ kind # "span"
    OBVIOUS
  <2> QED BY <2>1, Zenon DEF WireNode
<1> QED BY <1>1, <1>2, <1>3, <1>4, <1>5

LEMMA MapIsWired ==
    ASSUME NEW order \in Orders, NEW kind \in Kinds, NEW v, NEW values,
           \A key \in Range(Entries[kind]) :
              values[key] = WireValue(key, v[key], order) /\ values[key] \in Seq(TokenSet),
           WireNode(kind, v, order) = WireMap(kind, values, order)
    PROVE  Wired(kind, v, order)
<1>1. MapParts(kind, values, order) = Parts(kind, v, order)
  <2>1. \A i \in DOMAIN order[kind] :
           values[order[kind][i]] = WireValue(order[kind][i], v[order[kind][i]], order)
    BY OrderIs
  <2> QED BY <2>1 DEF MapParts, Parts
<1> QED BY <1>1, MapPartsType DEF Wired

LEMMA FlatIsWired ==
    ASSUME NEW order \in Orders, NEW kind \in {"resource", "scope", "status", "event", "link"},
           NEW v, IsNode(kind, v)
    PROVE  Wired(kind, v, order)
<1>1. kind \in Kinds
  BY DEF Kinds, MapLevel
<1>2. DOMAIN v = Range(Entries[kind]) /\ \A key \in Range(Entries[kind]) : IsValue(kind, key, v[key])
  BY <1>1, NodeFields
<1>3. \A key \in Range(Entries[kind]) : key \in PlainKeys
  BY DEF Range, Entries, PlainKeys, IdKeys, StringKeys, NumberKeys
<1>4. PICK values : values = [key \in DOMAIN v |-> Leaf(key, v[key])]
  OBVIOUS
<1>5. \A key \in Range(Entries[kind]) :
         values[key] = WireValue(key, v[key], order) /\ values[key] \in Seq(TokenSet)
  <2> TAKE key \in Range(Entries[kind])
  <2>1. values[key] = Leaf(key, v[key])
    BY <1>2, <1>4
  <2>2. Leaf(key, v[key]) \in Seq(TokenSet) /\ WireValue(key, v[key], order) = Leaf(key, v[key])
    BY <1>2, <1>3, LeafType, WireValueIs
  <2> QED BY <2>1, <2>2
<1>6. WireNode(kind, v, order) = WireMap(kind, values, order)
  BY <1>4, WireNodeIs DEF WireFlat
<1> QED BY <1>1, <1>5, <1>6, MapIsWired

LEMMA ArrayIsWired ==
    ASSUME NEW order, NEW kind, NEW w, AreNodes(kind, w),
           \A i \in 1..Len(w) : Wired(kind, w[i], order)
    PROVE  /\ Elements(kind, w, order) \in Seq(Seq(TokenSet))
           /\ Len(Elements(kind, w, order)) = Len(w)
           /\ WireArray(Elements(kind, w, order))
                = <<Array(Len(w))>> \o FlattenSeq(Elements(kind, w, order))
           /\ WireArray(Elements(kind, w, order)) \in Seq(TokenSet)
<1>1. PICK e : e = Elements(kind, w, order)
  OBVIOUS
<1>2. Len(w) \in Nat /\ DOMAIN w = 1..Len(w)
  BY ListFacts DEF AreNodes
<1>3. e = [i \in 1..Len(w) |-> WireNode(kind, w[i], order)]
  BY <1>1, <1>2 DEF Elements
<1>4. \A i \in 1..Len(w) : e[i] \in Seq(TokenSet)
  BY <1>3 DEF Wired
<1>5. PICK T : T = Seq(TokenSet)
  OBVIOUS
<1>6. e \in [1..Len(w) -> T]
  BY <1>3, <1>4, <1>5
<1>7. e \in Seq(T) /\ Len(e) = Len(w)
  BY <1>2, <1>6
<1>8. IsList(e)
  BY <1>7 DEF IsList
<1>9. WireArray(e) \in Seq(TokenSet)
  BY <1>4, <1>7, <1>8, ArrayType
<1>10. WireArray(e) = <<Array(Len(w))>> \o FlattenSeq(e)
  BY <1>7 DEF WireArray
<1> QED BY <1>1, <1>5, <1>7, <1>9, <1>10

\* A value under a key, given that the nodes below are.
LEMMA ValueIsWired ==
    ASSUME NEW order \in Orders, NEW kind, NEW key \in PlainKeys \cup ArrayKeys \cup MapKeys, NEW w,
           IsValue(kind, key, w),
           key \in ArrayKeys => \A i \in 1..Len(w) : Wired(Element[key], w[i], order)
    PROVE  WireValue(key, w, order) \in Seq(TokenSet)
<1>1. CASE key \in PlainKeys
  BY <1>1, LeafType, WireValueIs
<1>2. CASE key \in ArrayKeys
  <2>1. AreNodes(Element[key], w)
    BY <1>2 DEF IsValue
  <2>2. PICK below : below = Element[key]
    OBVIOUS
  <2>3. WireArray(Elements(below, w, order)) \in Seq(TokenSet)
    BY <1>2, <2>1, <2>2, ArrayIsWired
  <2> QED BY <1>2, <2>2, <2>3, WireValueIs
<1>3. CASE key \in {"resource", "status"}
  <2>1. IsNode(key, w)
    BY <1>3 DEF IsValue
  <2>2. Wired(key, w, order)
    BY <1>3, <2>1, FlatIsWired
  <2>3. WireNode(key, w, order) = WireFlat(key, w, order)
    BY <1>3, WireNodeIs
  <2>4. WireValue(key, w, order) = WireFlat(key, w, order)
    BY <1>3, WireValueIs
  <2> QED BY <2>2, <2>3, <2>4 DEF Wired
<1>4. CASE key = "scope"
  <2>1. CASE w = NULL
    <3>1. PICK t : t = Nil
      OBVIOUS
    <3>2. t \in TokenSet
      BY <3>1 DEF Nil, TokenSet, TokenTypes
    <3>3. <<t>> \in Seq(TokenSet)
      BY <3>2
    <3> QED BY <1>4, <2>1, <3>1, <3>3, WireValueIs
  <2>2. CASE w # NULL
    <3>1. IsNode("scope", w)
      BY <1>4, <2>2 DEF IsValue
    <3>2. Wired("scope", w, order)
      BY <3>1, FlatIsWired
    <3> QED BY <1>4, <2>2, <3>2, WireValueIs, WireNodeIs DEF Wired
  <2> QED BY <2>1, <2>2
<1> QED BY <1>1, <1>2, <1>3, <1>4 DEF MapKeys

LEMMA AnyKeys ==
    ASSUME NEW kind \in Kinds
    PROVE  Range(Entries[kind]) \subseteq PlainKeys \cup ArrayKeys \cup MapKeys
BY KeysDiffer DEF Kinds, MapLevel, Range, Entries, PlainKeys, IdKeys, StringKeys, NumberKeys, MapKeys

LEMMA SpanIsWired ==
    ASSUME NEW order \in Orders, NEW v, IsNode("span", v)
    PROVE  Wired("span", v, order)
<1>1. "span" \in Kinds
  BY DEF Kinds, MapLevel
<1>2. /\ DOMAIN v = Range(Entries["span"])
      /\ \A key \in Range(Entries["span"]) : IsValue("span", key, v[key])
  BY <1>1, NodeFields
<1>3. \A key \in Range(Entries["span"]) :
         key \in PlainKeys \/ key = "events" \/ key = "links" \/ key = "status"
  BY DEF Range, Entries, PlainKeys, IdKeys, StringKeys, NumberKeys
<1>4. {"events", "links", "status"} \subseteq Range(Entries["span"])
  BY DEF Range, Entries
<1>5. AreNodes("event", v.events) /\ AreNodes("link", v.links) /\ IsNode("status", v.status)
  <2>1. IsValue("span", "events", v.events) /\ IsValue("span", "links", v.links)
        /\ IsValue("span", "status", v.status)
    BY <1>2, <1>4
  <2> QED BY <2>1, KeysDiffer DEF IsValue
<1>6. /\ \A i \in 1..Len(v.events) : Wired("event", v.events[i], order)
      /\ \A i \in 1..Len(v.links) : Wired("link", v.links[i], order)
  BY <1>5, FlatIsWired DEF AreNodes
<1>7. PICK values : values = [key \in DOMAIN v |->
        CASE key = "events" -> WireArray([i \in DOMAIN v.events |-> WireFlat("event", v.events[i], order)])
          [] key = "links"  -> WireArray([i \in DOMAIN v.links |-> WireFlat("link", v.links[i], order)])
          [] key = "status" -> WireFlat("status", v.status, order)
          [] OTHER          -> Leaf(key, v[key])]
  OBVIOUS
<1>8. WireNode("span", v, order) = WireMap("span", values, order)
  BY <1>7, WireNodeIs DEF WireSpan
<1>9. \A key \in Range(Entries["span"]) : values[key] = WireValue(key, v[key], order)
  <2> TAKE key \in Range(Entries["span"])
  <2>1. CASE key = "events"
    <3>1. values[key] = WireArray([i \in DOMAIN v.events |-> WireFlat("event", v.events[i], order)])
      BY <1>2, <1>7, <2>1
    <3>2. Elements("event", v.events, order) = [i \in DOMAIN v.events |-> WireFlat("event", v.events[i], order)]
      BY WireNodeIs DEF Elements
    <3> QED BY <2>1, <3>1, <3>2, WireValueIs, KeysDiffer
  <2>2. CASE key = "links"
    <3>1. values[key] = WireArray([i \in DOMAIN v.links |-> WireFlat("link", v.links[i], order)])
      BY <1>2, <1>7, <2>2
    <3>2. Elements("link", v.links, order) = [i \in DOMAIN v.links |-> WireFlat("link", v.links[i], order)]
      BY WireNodeIs DEF Elements
    <3> QED BY <2>2, <3>1, <3>2, WireValueIs, KeysDiffer
  <2>3. CASE key = "status"
    <3>1. values[key] = WireFlat("status", v.status, order)
      BY <1>2, <1>7, <2>3
    <3> QED BY <2>3, <3>1, WireValueIs
  <2>4. CASE key \in PlainKeys
    <3>1. key # "events" /\ key # "links" /\ key # "status"
      BY <2>4, KeysDiffer DEF MapKeys
    <3>2. values[key] = Leaf(key, v[key])
      BY <1>2, <1>7, <3>1
    <3> QED BY <2>4, <3>2, WireValueIs
  <2> QED BY <1>3, <2>1, <2>2, <2>3, <2>4
<1>10. \A key \in Range(Entries["span"]) : WireValue(key, v[key], order) \in Seq(TokenSet)
  <2> TAKE key \in Range(Entries["span"])
  <2>1. key \in ArrayKeys => \A i \in 1..Len(v[key]) : Wired(Element[key], v[key][i], order)
    BY <1>3, <1>6, KeysDiffer DEF MapKeys
  <2> QED BY <1>1, <1>2, <2>1, ValueIsWired, AnyKeys
<1> QED BY <1>1, <1>8, <1>9, <1>10, MapIsWired

LEMMA ScopeSpanIsWired ==
    ASSUME NEW order \in Orders, NEW v, IsNode("scope_span", v)
    PROVE  Wired("scope_span", v, order)
<1>1. "scope_span" \in Kinds
  BY DEF Kinds, MapLevel
<1>2. /\ DOMAIN v = Range(Entries["scope_span"])
      /\ \A key \in Range(Entries["scope_span"]) : IsValue("scope_span", key, v[key])
  BY <1>1, NodeFields
<1>3. Range(Entries["scope_span"]) = {"scope", "spans", "schema_url"}
  BY DEF Range, Entries
<1>4. AreNodes("span", v.spans)
  BY <1>2, <1>3, KeysDiffer DEF IsValue
<1>5. \A i \in 1..Len(v.spans) : Wired("span", v.spans[i], order)
  BY <1>4, SpanIsWired DEF AreNodes
<1>6. PICK values : values =
        [scope      |-> IF v.scope = NULL THEN <<Nil>> ELSE WireFlat("scope", v.scope, order),
         spans      |-> WireArray([i \in DOMAIN v.spans |-> WireSpan(v.spans[i], order)]),
         schema_url |-> Leaf("schema_url", v.schema_url)]
  OBVIOUS
<1>7. WireNode("scope_span", v, order) = WireMap("scope_span", values, order)
  BY <1>6, WireNodeIs DEF WireScopeSpan
<1>8. \A key \in Range(Entries["scope_span"]) : values[key] = WireValue(key, v[key], order)
  <2>1. values.scope = WireValue("scope", v.scope, order)
    BY <1>6, WireValueIs
  <2>2. values.spans = WireValue("spans", v.spans, order)
    <3>1. Elements("span", v.spans, order) = [i \in DOMAIN v.spans |-> WireSpan(v.spans[i], order)]
      BY WireNodeIs DEF Elements
    <3> QED BY <1>6, <3>1, WireValueIs, KeysDiffer
  <2>3. values.schema_url = WireValue("schema_url", v.schema_url, order)
    BY <1>6, WireValueIs DEF PlainKeys, StringKeys
  <2> QED BY <1>3, <2>1, <2>2, <2>3
<1>9. \A key \in Range(Entries["scope_span"]) : WireValue(key, v[key], order) \in Seq(TokenSet)
  <2> TAKE key \in Range(Entries["scope_span"])
  <2>1. key \in ArrayKeys => \A i \in 1..Len(v[key]) : Wired(Element[key], v[key][i], order)
    BY <1>3, <1>5, KeysDiffer
  <2> QED BY <1>1, <1>2, <2>1, ValueIsWired, AnyKeys
<1> QED BY <1>1, <1>7, <1>8, <1>9, MapIsWired

LEMMA ResourceSpanIsWired ==
    ASSUME NEW order \in Orders, NEW v, IsNode("resource_span", v)
    PROVE  Wired("resource_span", v, order)
<1>1. "resource_span" \in Kinds
  BY DEF Kinds, MapLevel
<1>2. /\ DOMAIN v = Range(Entries["resource_span"])
      /\ \A key \in Range(Entries["resource_span"]) : IsValue("resource_span", key, v[key])
  BY <1>1, NodeFields
<1>3. Range(Entries["resource_span"]) = {"resource", "schema_url", "scope_spans"}
  BY DEF Range, Entries
<1>4. AreNodes("scope_span", v.scope_spans)
  BY <1>2, <1>3, KeysDiffer DEF IsValue
<1>5. \A i \in 1..Len(v.scope_spans) : Wired("scope_span", v.scope_spans[i], order)
  BY <1>4, ScopeSpanIsWired DEF AreNodes
<1>6. PICK values : values =
        [resource    |-> WireFlat("resource", v.resource, order),
         schema_url  |-> Leaf("schema_url", v.schema_url),
         scope_spans |-> WireArray([i \in DOMAIN v.scope_spans |->
                                       WireScopeSpan(v.scope_spans[i], order)])]
  OBVIOUS
<1>7. WireNode("resource_span", v, order) = WireMap("resource_span", values, order)
  BY <1>6, WireNodeIs DEF WireResourceSpan
<1>8. \A key \in Range(Entries["resource_span"]) : values[key] = WireValue(key, v[key], order)
  <2>1. values.resource = WireValue("resource", v.resource, order)
    BY <1>6, WireValueIs
  <2>2. values.scope_spans = WireValue("scope_spans", v.scope_spans, order)
    <3>1. Elements("scope_span", v.scope_spans, order)
            = [i \in DOMAIN v.scope_spans |-> WireScopeSpan(v.scope_spans[i], order)]
      BY WireNodeIs DEF Elements
    <3> QED BY <1>6, <3>1, WireValueIs, KeysDiffer
  <2>3. values.schema_url = WireValue("schema_url", v.schema_url, order)
    BY <1>6, WireValueIs DEF PlainKeys, StringKeys
  <2> QED BY <1>3, <2>1, <2>2, <2>3
<1>9. \A key \in Range(Entries["resource_span"]) : WireValue(key, v[key], order) \in Seq(TokenSet)
  <2> TAKE key \in Range(Entries["resource_span"])
  <2>1. key \in ArrayKeys => \A i \in 1..Len(v[key]) : Wired(Element[key], v[key][i], order)
    BY <1>3, <1>5, KeysDiffer
  <2> QED BY <1>1, <1>2, <2>1, ValueIsWired, AnyKeys
<1> QED BY <1>1, <1>7, <1>8, <1>9, MapIsWired

LEMMA NodeIsWired ==
    ASSUME NEW order \in Orders, NEW kind \in Kinds, NEW v, IsNode(kind, v)
    PROVE  Wired(kind, v, order)
<1>1. CASE kind = "context"
  <2>1. DOMAIN v = Range(Entries[kind]) /\ \A key \in Range(Entries[kind]) : IsValue(kind, key, v[key])
    BY NodeFields
  <2>2. Range(Entries[kind]) = {"resourceSpans"}
    BY <1>1 DEF Range, Entries
  <2>3. AreNodes("resource_span", v.resourceSpans)
    BY <2>1, <2>2, KeysDiffer DEF IsValue
  <2>4. \A i \in 1..Len(v.resourceSpans) : Wired("resource_span", v.resourceSpans[i], order)
    BY <2>3, ResourceSpanIsWired DEF AreNodes
  <2>5. PICK values : values =
          [resourceSpans |-> WireArray([i \in DOMAIN v.resourceSpans |->
                                           WireResourceSpan(v.resourceSpans[i], order)])]
    OBVIOUS
  <2>6. WireNode(kind, v, order) = WireMap(kind, values, order)
    BY <1>1, <2>5, WireNodeIs DEF Wire
  <2>7. values.resourceSpans = WireValue("resourceSpans", v.resourceSpans, order)
    <3>1. Elements("resource_span", v.resourceSpans, order)
            = [i \in DOMAIN v.resourceSpans |-> WireResourceSpan(v.resourceSpans[i], order)]
      BY WireNodeIs DEF Elements
    <3> QED BY <2>5, <3>1, WireValueIs, KeysDiffer
  <2>8. WireValue("resourceSpans", v.resourceSpans, order) \in Seq(TokenSet)
    BY <2>1, <2>2, <2>4, ValueIsWired, KeysDiffer
  <2> QED BY <2>2, <2>6, <2>7, <2>8, MapIsWired
<1>2. kind # "context" => kind \in {"resource_span", "scope_span", "span", "resource", "scope",
                                    "status", "event", "link"}
  BY DEF Kinds, MapLevel
<1> QED BY <1>1, <1>2, ResourceSpanIsWired, ScopeSpanIsWired, SpanIsWired, FlatIsWired

-----------------------------------------------------------------------------
(* What is left to read of the node of a frame.                            *)

RestAt(tokens, p) == SubSeq(tokens, p + 1, Len(tokens))

IsJoined(x, a, b) == x = a \o b

LEMMA RestNext ==
    ASSUME NEW T, NEW tokens \in Seq(T), NEW p \in Nat, NEW x, NEW r \in Seq(T),
           IsJoined(RestAt(tokens, p), <<x>>, r)
    PROVE  p < Len(tokens) /\ tokens[p + 1] = x /\ RestAt(tokens, p + 1) = r
<1>1. PICK n : n = Len(tokens)
  OBVIOUS
<1>2. n \in Nat /\ \A i \in 1..n : tokens[i] \in T
  BY <1>1, LenProperties, ElementOfSeq
<1>3. \A a \in Nat : a <= n =>
         /\ SubSeq(tokens, a + 1, n) \in Seq(T) /\ Len(SubSeq(tokens, a + 1, n)) = n - a
         /\ \A i \in 1..(n - a) : SubSeq(tokens, a + 1, n)[i] = tokens[a + i]
  <2> SUFFICES ASSUME NEW a \in Nat, a <= n
               PROVE  /\ SubSeq(tokens, a + 1, n) \in Seq(T) /\ Len(SubSeq(tokens, a + 1, n)) = n - a
                      /\ \A i \in 1..(n - a) : SubSeq(tokens, a + 1, n)[i] = tokens[a + i]
    OBVIOUS
  <2>1. \A i \in (a + 1)..n : tokens[i] \in T
    BY <1>2
  <2>2. PICK m : m = a + 1
    OBVIOUS
  <2>3. m \in Int /\ n \in Int /\ \A i \in m..n : tokens[i] \in T
    BY <1>2, <2>1, <2>2
  <2>4. /\ SubSeq(tokens, m, n) \in Seq(T)
        /\ Len(SubSeq(tokens, m, n)) = IF m <= n THEN n - m + 1 ELSE 0
        /\ \A i \in 1..(n - m + 1) : SubSeq(tokens, m, n)[i] = tokens[m + i - 1]
    BY <2>3, SubSeqProperties
  <2>5. n - m + 1 = n - a /\ \A i \in 1..(n - a) : m + i - 1 = a + i
    BY <1>2, <2>2
  <2>6. Len(SubSeq(tokens, m, n)) = n - a
    BY <1>2, <2>2, <2>4, <2>5
  <2>7. \A i \in 1..(n - a) : SubSeq(tokens, m, n)[i] = tokens[a + i]
    BY <2>4, <2>5
  <2> QED BY <2>2, <2>4, <2>6, <2>7
<1>4. PICK s : s = RestAt(tokens, p)
  OBVIOUS
<1>5. PICK U : U = T \cup {x}
  OBVIOUS
<1>6. r \in Seq(U) /\ <<x>> \in Seq(U)
  BY <1>5, SeqMonotonic
<1>7. PICK one : one = <<x>>
  OBVIOUS
<1>8. one \in Seq(U) /\ Len(one) = 1 /\ one[1] = x
  BY <1>6, <1>7
<1>9. PICK k : k = Len(r)
  OBVIOUS
<1>10. k \in Nat
  BY <1>9, LenProperties
<1>11. /\ Len(s) = 1 + k
       /\ \A i \in 1..(1 + k) : s[i] = IF i <= 1 THEN one[i] ELSE r[i - 1]
  BY <1>4, <1>6, <1>7, <1>8, <1>9, ConcatProperties DEF IsJoined
<1>12. s = SubSeq(tokens, p + 1, n)
  BY <1>1, <1>4 DEF RestAt
<1>13. p < n
  <2>1. SUFFICES ASSUME p >= n PROVE FALSE
    BY <1>2
  <2>2. SubSeq(tokens, p + 1, n) = <<>>
    BY <1>2, <2>1, SubSeqEmpty
  <2>3. Len(s) = 0
    BY <1>12, <2>2, EmptySeq
  <2> QED BY <1>10, <1>11, <2>3
<1>14. /\ s \in Seq(T) /\ Len(s) = n - p
       /\ \A i \in 1..(n - p) : s[i] = tokens[p + i]
  BY <1>2, <1>3, <1>12, <1>13
<1>15. tokens[p + 1] = x
  <2>1. 1 \in 1..(n - p) /\ 1 \in 1..(1 + k)
    BY <1>2, <1>10, <1>13
  <2>2. s[1] = tokens[p + 1] /\ s[1] = one[1]
    BY <1>11, <1>14, <2>1
  <2> QED BY <1>8, <2>2
<1>16. PICK q : q = p + 1
  OBVIOUS
<1>17. q \in Nat /\ q <= n
  BY <1>2, <1>13, <1>16
<1>18. PICK u : u = SubSeq(tokens, q + 1, n)
  OBVIOUS
<1>19. /\ u \in Seq(T) /\ Len(u) = n - q
       /\ \A i \in 1..(n - q) : u[i] = tokens[q + i]
  BY <1>3, <1>17, <1>18
<1>20. Len(u) = Len(r)
  BY <1>2, <1>9, <1>10, <1>11, <1>14, <1>16, <1>19
<1>21. \A i \in 1..Len(u) : u[i] = r[i]
  <2> TAKE i \in 1..Len(u)
  <2>0. PICK l : l = Len(u)
    OBVIOUS
  <2>01. i \in 1..l /\ l = k /\ l = n - q /\ q = p + 1 /\ p < n /\ n \in Nat /\ p \in Nat
    BY <1>2, <1>9, <1>13, <1>16, <1>19, <1>20, <2>0
  <2>1. i \in 1..k /\ i \in 1..(n - q) /\ i + 1 \in 1..(1 + k) /\ i + 1 \in 1..(n - p) /\ ~(i + 1 <= 1)
    BY ONLY <1>10, <2>01
  <2>2. s[i + 1] = r[(i + 1) - 1] /\ s[i + 1] = tokens[p + (i + 1)] /\ u[i] = tokens[q + i]
    BY <1>11, <1>14, <1>19, <2>1
  <2>3. (i + 1) - 1 = i /\ p + (i + 1) = q + i
    BY <1>16, <2>1
  <2> QED BY <2>2, <2>3
<1>22. u = r
  BY <1>19, <1>20, <1>21, SeqEqual
<1> QED BY <1>1, <1>13, <1>15, <1>16, <1>18, <1>22 DEF RestAt

\* No key is at hand.
Keyless(f) == f.key = ""

Size(f, v) == IF f.what = "map" THEN EntryCount[f.kind] ELSE Len(v)

PartsOf(f, v, order) ==
    IF f.what = "map" THEN Parts(f.kind, v, order) ELSE Elements(f.kind, v, order)

Opener(f, v) == IF f.what = "map" THEN Map(EntryCount[f.kind]) ELSE Array(Len(v))

Whole(f, v, order) ==
    IF f.what = "map" THEN WireNode(f.kind, v, order) ELSE WireArray(Elements(f.kind, v, order))

\* The entries or elements that are read or being read.
Begun(f, v) == IF f.left = Unopened THEN 0 ELSE Size(f, v) - f.left

Due(f, v, order) ==
    IF f.left = Unopened THEN Whole(f, v, order)
    ELSE IF f.key = "" THEN After(PartsOf(f, v, order), Begun(f, v))
    ELSE WireValue(f.key, v[f.key], order) \o After(PartsOf(f, v, order), Begun(f, v) + 1)

\* What a frame has read of its node v.
Reads(f, v, order) ==
    /\ \/ f.what = "map" /\ f.kind \in Kinds /\ IsNode(f.kind, v)
       \/ f.what = "array" /\ f.kind \in DOMAIN ArrayLevel /\ AreNodes(f.kind, v) /\ f.key = ""
    /\ f.left = Unopened \/ f.left \in 0..Size(f, v)
    /\ f.key # "" =>
          /\ f.left \in 1..Size(f, v)
          /\ f.key = order[f.kind][Begun(f, v) + 1]

LEMMA PartsAre ==
    ASSUME NEW order \in Orders, NEW f, NEW v, Reads(f, v, order)
    PROVE  /\ PartsOf(f, v, order) \in Seq(Seq(TokenSet))
           /\ Len(PartsOf(f, v, order)) = Size(f, v) /\ Size(f, v) \in Nat
           /\ Whole(f, v, order) = <<Opener(f, v)>> \o After(PartsOf(f, v, order), 0)
           /\ Whole(f, v, order) \in Seq(TokenSet)
           /\ Begun(f, v) \in 0..Size(f, v) /\ (f.left # Unopened => f.left = Size(f, v) - Begun(f, v))
<1>1. /\ PartsOf(f, v, order) \in Seq(Seq(TokenSet))
      /\ Len(PartsOf(f, v, order)) = Size(f, v) /\ Size(f, v) \in Nat
      /\ Whole(f, v, order) = <<Opener(f, v)>> \o FlattenSeq(PartsOf(f, v, order))
      /\ Whole(f, v, order) \in Seq(TokenSet)
  <2>1. CASE f.what = "map"
    <3>1. f.kind \in Kinds /\ IsNode(f.kind, v)
      BY <2>1 DEF Reads
    <3>2. Wired(f.kind, v, order)
      BY <3>1, NodeIsWired
    <3>3. EntryCount[f.kind] \in Nat
      BY <3>1, OrderIs
    <3> QED BY <2>1, <3>2, <3>3 DEF Wired, PartsOf, Whole, Opener, Size
  <2>2. CASE f.what = "array"
    <3>1. f.kind \in DOMAIN ArrayLevel /\ AreNodes(f.kind, v)
      BY <2>2 DEF Reads
    <3>2. f.kind \in Kinds
      BY <3>1 DEF ArrayLevel, Kinds, MapLevel
    <3>3. \A i \in 1..Len(v) : Wired(f.kind, v[i], order)
      BY <3>1, <3>2, NodeIsWired DEF AreNodes
    <3>4. Len(v) \in Nat
      BY <3>1, ListFacts DEF AreNodes
    <3>5. PICK kind : kind = f.kind
      OBVIOUS
    <3>6. /\ Elements(kind, v, order) \in Seq(Seq(TokenSet))
          /\ Len(Elements(kind, v, order)) = Len(v)
          /\ WireArray(Elements(kind, v, order))
               = <<Array(Len(v))>> \o FlattenSeq(Elements(kind, v, order))
          /\ WireArray(Elements(kind, v, order)) \in Seq(TokenSet)
      BY <3>1, <3>3, <3>5, ArrayIsWired
    <3> QED BY <2>2, <3>4, <3>5, <3>6 DEF PartsOf, Whole, Opener, Size
  <2> QED BY <2>1, <2>2 DEF Reads
<1>2. After(PartsOf(f, v, order), 0) = FlattenSeq(PartsOf(f, v, order))
  BY <1>1, AfterNone
<1>3. Begun(f, v) \in 0..Size(f, v) /\ (f.left # Unopened => f.left = Size(f, v) - Begun(f, v))
  <2>1. PICK n, l : n = Size(f, v) /\ l = f.left
    OBVIOUS
  <2>2. n \in Nat /\ (l = Unopened \/ l \in 0..n)
    BY <1>1, <2>1 DEF Reads
  <2>3. l # Unopened => n - l \in 0..n /\ l = n - (n - l)
    BY <2>2
  <2> QED BY <2>1, <2>2, <2>3 DEF Begun
<1> QED BY <1>1, <1>2, <1>3

LEMMA KeyIs ==
    ASSUME NEW order \in Orders, NEW f, NEW v, Reads(f, v, order), f.what = "map",
           NEW i \in 1..Size(f, v)
    PROVE  LET key == order[f.kind][i]
           IN  /\ key \in Range(Entries[f.kind]) /\ key \in DOMAIN v
               /\ IsValue(f.kind, key, v[key])
               /\ key \in PlainKeys \cup ArrayKeys \cup MapKeys
               /\ PartsOf(f, v, order)[i] = <<KeyToken(key)>> \o WireValue(key, v[key], order)
               /\ WireValue(key, v[key], order) \in Seq(TokenSet)
               /\ KeyToken(key) \in TokenSet
<1>1. f.kind \in Kinds /\ IsNode(f.kind, v) /\ Size(f, v) = EntryCount[f.kind]
  BY DEF Reads, Size
<1>2. PICK key : key = order[f.kind][i]
  OBVIOUS
<1>3. key \in Range(Entries[f.kind]) /\ i \in DOMAIN order[f.kind] /\ key \in STRING
  <2>1. /\ order[f.kind] \in Seq(STRING) /\ Len(order[f.kind]) = EntryCount[f.kind]
        /\ DOMAIN order[f.kind] = 1..EntryCount[f.kind]
        /\ order[f.kind][i] \in Range(Entries[f.kind])
    BY <1>1, OrderIs
  <2> QED BY <1>1, <1>2, <2>1, ElementOfSeq
<1>4. key \in DOMAIN v /\ IsValue(f.kind, key, v[key])
  BY <1>1, <1>3, NodeFields
<1>5. key \in PlainKeys \cup ArrayKeys \cup MapKeys
  BY <1>1, <1>3, AnyKeys
<1>6. PartsOf(f, v, order)[i] = <<KeyToken(key)>> \o WireValue(key, v[key], order)
  BY <1>2, <1>3 DEF PartsOf, Parts
<1>7. key \in ArrayKeys => \A j \in 1..Len(v[key]) : Wired(Element[key], v[key][j], order)
  <2> SUFFICES ASSUME key \in ArrayKeys, NEW j \in 1..Len(v[key])
               PROVE  Wired(Element[key], v[key][j], order)
    OBVIOUS
  <2>1. AreNodes(Element[key], v[key])
    BY <1>4 DEF IsValue
  <2>2. Element[key] \in Kinds
    BY KeysDiffer DEF Kinds, MapLevel
  <2> QED BY <2>1, <2>2, NodeIsWired DEF AreNodes
<1>8. WireValue(key, v[key], order) \in Seq(TokenSet)
  BY <1>4, <1>5, <1>7, ValueIsWired
<1>9. KeyToken(key) \in TokenSet
  BY <1>3 DEF KeyToken, TokenSet, TokenTypes
<1> QED BY <1>2, <1>3, <1>4, <1>5, <1>6, <1>8, <1>9

\* Tokens leave a frame one way or another.
LEMMA DueType ==
    ASSUME NEW order \in Orders, NEW f, NEW v, Reads(f, v, order)
    PROVE  Due(f, v, order) \in Seq(TokenSet)
<1> DEFINE parts == PartsOf(f, v, order)
           n == Size(f, v)
           b == Begun(f, v)
<1>1. /\ parts \in Seq(Seq(TokenSet)) /\ Len(parts) = n /\ n \in Nat /\ b \in 0..n
      /\ Whole(f, v, order) \in Seq(TokenSet) /\ (f.left # Unopened => f.left = n - b)
  BY PartsAre
<1>2. After(parts, b) \in Seq(TokenSet)
  BY <1>1, AfterType
<1>3. ASSUME f.key # "" PROVE WireValue(f.key, v[f.key], order) \o After(parts, b + 1) \in Seq(TokenSet)
  <2>1. f.left \in 1..n /\ f.key = order[f.kind][b + 1] /\ f.what = "map"
    BY <1>3 DEF Reads
  <2>2. f.left # Unopened
    BY <1>1, <2>1 DEF Unopened
  <2>3. b + 1 \in 1..n /\ b + 1 \in 0..n
    BY <1>1, <2>1, <2>2
  <2>4. After(parts, b + 1) \in Seq(TokenSet)
    BY <1>1, <2>3, AfterType
  <2>5. WireValue(f.key, v[f.key], order) \in Seq(TokenSet)
    BY <2>1, <2>3, KeyIs
  <2> QED BY <2>4, <2>5, ConcatProperties
<1> QED BY <1>1, <1>2, <1>3 DEF Due

LEMMA Regroup ==
    \A t, w, a \in Seq(TokenSet) : (t \o w) \o a = t \o (w \o a) /\ t \o w \in Seq(TokenSet)
BY ConcatAssociative, ConcatProperties

LEMMA Single ==
    ASSUME NEW t \in TokenSet
    PROVE  <<t>> \in Seq(TokenSet)
OBVIOUS

LEMMA Numbers ==
    \A n \in Nat : n # Unopened /\ n - n = 0 /\ n \in 0..n /\ \A l \in 1..n : l # Unopened /\ l # 0
BY DEF Unopened

\* Numbers of entries: n in all, b of them begun, l left.
LEMMA Counting ==
    ASSUME NEW n \in Nat, NEW b \in 0..n, NEW l, l = n - b, l # 0
    PROVE  /\ l \in 1..n /\ l # Unopened /\ b + 1 \in 1..n /\ b + 1 \in 0..n /\ b \in 0..(n - 1)
           /\ l - 1 \in 0..n /\ n - (l - 1) = b + 1 /\ l - 1 # Unopened
BY DEF Unopened

LEMMA DueOpens ==
    ASSUME NEW order \in Orders, NEW f, NEW v, Reads(f, v, order), f.left = Unopened,
           NEW g, g.what = f.what, g.kind = f.kind, g.left = Size(f, v), Keyless(g)
    PROVE  /\ IsJoined(Due(f, v, order), <<Opener(f, v)>>, Due(g, v, order))
           /\ Reads(g, v, order) /\ Begun(g, v) = 0 /\ Size(g, v) = Size(f, v)
<1> USE DEF Keyless
<1>1. /\ Size(f, v) \in Nat
      /\ Whole(f, v, order) = <<Opener(f, v)>> \o After(PartsOf(f, v, order), 0)
  BY PartsAre
<1>0. PICK n : n = Size(f, v)
  OBVIOUS
<1>01. n \in Nat
  BY <1>0, <1>1
<1>02. n # Unopened /\ n - n = 0 /\ n \in 0..n
  BY <1>01, Numbers
<1>2. Size(g, v) = Size(f, v) /\ PartsOf(g, v, order) = PartsOf(f, v, order)
  BY DEF Size, PartsOf
<1>3. g.left # Unopened /\ Begun(g, v) = 0
  BY <1>0, <1>01, <1>02, <1>2 DEF Begun
<1>4. Reads(g, v, order)
  BY <1>0, <1>01, <1>02, <1>2 DEF Reads
<1>5. Due(g, v, order) = After(PartsOf(f, v, order), 0)
  BY <1>2, <1>3 DEF Due
<1>6. Due(f, v, order) = Whole(f, v, order)
  BY DEF Due
<1> QED BY <1>1, <1>2, <1>3, <1>4, <1>5, <1>6 DEF IsJoined

LEMMA DueKey ==
    ASSUME NEW order \in Orders, NEW f, NEW v, Reads(f, v, order), f.what = "map",
           f.left # Unopened, f.left # 0, Keyless(f),
           NEW g, g.what = f.what, g.kind = f.kind, g.left = f.left,
           g.key = order[f.kind][Begun(f, v) + 1]
    PROVE  /\ IsJoined(Due(f, v, order), <<KeyToken(g.key)>>, Due(g, v, order))
           /\ Reads(g, v, order) /\ Begun(g, v) = Begun(f, v) /\ Size(g, v) = Size(f, v)
           /\ g.key \in Range(Entries[f.kind]) /\ ~Keyless(g)
<1> USE DEF Keyless
<1>0. PICK parts, n, b, l : parts = PartsOf(f, v, order) /\ n = Size(f, v) /\ b = Begun(f, v) /\ l = f.left
  OBVIOUS
<1>1. /\ parts \in Seq(Seq(TokenSet)) /\ Len(parts) = n /\ n \in Nat
      /\ b \in 0..n /\ l = n - b
  BY <1>0, PartsAre
<1>2. Size(g, v) = n /\ PartsOf(g, v, order) = parts /\ Begun(g, v) = b
  BY <1>0 DEF Size, PartsOf, Begun
<1>3. b + 1 \in 1..n /\ b \in 0..(n - 1) /\ b + 1 \in 0..n /\ l \in 1..n
  BY <1>0, <1>1, Counting
<1>4. /\ g.key \in Range(Entries[f.kind])
      /\ parts[b + 1] = <<KeyToken(g.key)>> \o WireValue(g.key, v[g.key], order)
      /\ WireValue(g.key, v[g.key], order) \in Seq(TokenSet) /\ KeyToken(g.key) \in TokenSet
  <2>1. g.key = order[f.kind][b + 1] /\ b + 1 \in 1..Size(f, v)
    BY <1>0, <1>3
  <2>2. PICK i : i = b + 1
    OBVIOUS
  <2>3. i \in 1..Size(f, v) /\ g.key = order[f.kind][i]
    BY <2>1, <2>2
  <2>4. /\ order[f.kind][i] \in Range(Entries[f.kind])
        /\ PartsOf(f, v, order)[i]
             = <<KeyToken(order[f.kind][i])>> \o WireValue(order[f.kind][i], v[order[f.kind][i]], order)
        /\ WireValue(order[f.kind][i], v[order[f.kind][i]], order) \in Seq(TokenSet)
        /\ KeyToken(order[f.kind][i]) \in TokenSet
    BY <2>3, KeyIs
  <2> QED BY <1>0, <2>2, <2>3, <2>4
<1>5. After(parts, b) = parts[b + 1] \o After(parts, b + 1)
  BY <1>1, <1>3, AfterNext
<1>6. After(parts, b + 1) \in Seq(TokenSet)
  BY <1>1, <1>3, AfterType
<1>7. PICK t, w, a : t = <<KeyToken(g.key)>> /\ w = WireValue(g.key, v[g.key], order)
                     /\ a = After(parts, b + 1)
  OBVIOUS
<1>8. t \in Seq(TokenSet) /\ w \in Seq(TokenSet) /\ a \in Seq(TokenSet)
  BY <1>4, <1>6, <1>7, Single
<1>9. (t \o w) \o a = t \o (w \o a)
  BY <1>8, Regroup
<1>10. g.key # ""
  <2>1. f.kind \in Kinds
    BY DEF Reads
  <2>2. "" \notin PlainKeys \cup ArrayKeys \cup MapKeys
    BY KeysDiffer DEF PlainKeys, IdKeys, StringKeys, NumberKeys, MapKeys
  <2>3. g.key \in PlainKeys \cup ArrayKeys \cup MapKeys
    BY <1>4, <2>1, AnyKeys
  <2> QED BY <2>2, <2>3
<1>11. Reads(g, v, order)
  BY <1>0, <1>2, <1>3 DEF Reads
<1>12. Due(f, v, order) = After(parts, b)
  BY <1>0 DEF Due
<1>13. Due(g, v, order) = w \o a
  BY <1>2, <1>7, <1>10 DEF Due
<1> QED BY <1>0, <1>2, <1>4, <1>5, <1>7, <1>9, <1>10, <1>11, <1>12, <1>13 DEF IsJoined

LEMMA DueValue ==
    ASSUME NEW order \in Orders, NEW f, NEW v, Reads(f, v, order), ~Keyless(f),
           NEW g, g.what = f.what, g.kind = f.kind, g.left = f.left - 1, Keyless(g)
    PROVE  /\ IsJoined(Due(f, v, order), WireValue(f.key, v[f.key], order), Due(g, v, order))
           /\ Reads(g, v, order) /\ Begun(g, v) = Begun(f, v) + 1 /\ Size(g, v) = Size(f, v)
           /\ Begun(g, v) \in 1..Size(f, v) /\ f.key = order[f.kind][Begun(g, v)]
           /\ f.what = "map" /\ f.kind \in Kinds
           /\ f.key \in Range(Entries[f.kind]) /\ IsValue(f.kind, f.key, v[f.key])
           /\ WireValue(f.key, v[f.key], order) \in Seq(TokenSet)
<1> USE DEF Keyless
<1>1. /\ f.left \in 1..Size(f, v) /\ f.key = order[f.kind][Begun(f, v) + 1] /\ f.what = "map"
      /\ f.kind \in Kinds
  BY DEF Reads
<1>2. f.left # Unopened /\ f.left # 0
  <2>1. Size(f, v) \in Nat
    BY PartsAre
  <2>2. PICK n, l : n = Size(f, v) /\ l = f.left
    OBVIOUS
  <2>3. n \in Nat /\ l \in 1..n
    BY <1>1, <2>1, <2>2
  <2>4. l # Unopened /\ l # 0
    BY <2>3, Numbers
  <2> QED BY <2>2, <2>4
<1>3. PICK n, b, l : n = Size(f, v) /\ b = Begun(f, v) /\ l = f.left
  OBVIOUS
<1>4. n \in Nat /\ b \in 0..n /\ l = n - b /\ l \in 1..n
  BY <1>1, <1>2, <1>3, PartsAre
<1>5. b + 1 \in 1..n /\ l - 1 \in 0..n /\ n - (l - 1) = b + 1 /\ l - 1 # Unopened
  BY <1>2, <1>3, <1>4, Counting
<1>6. Size(g, v) = n /\ PartsOf(g, v, order) = PartsOf(f, v, order)
  BY <1>3 DEF Size, PartsOf
<1>7. Begun(g, v) = b + 1
  BY <1>3, <1>5, <1>6 DEF Begun
<1>8. Reads(g, v, order)
  BY <1>1, <1>3, <1>5, <1>6 DEF Reads
<1>9. Due(g, v, order) = After(PartsOf(f, v, order), b + 1)
  BY <1>3, <1>5, <1>6, <1>7 DEF Due
<1>10. Due(f, v, order) = WireValue(f.key, v[f.key], order) \o After(PartsOf(f, v, order), b + 1)
  BY <1>2, <1>3 DEF Due
<1>11. f.key \in Range(Entries[f.kind]) /\ IsValue(f.kind, f.key, v[f.key])
       /\ WireValue(f.key, v[f.key], order) \in Seq(TokenSet)
  <2>1. f.key = order[f.kind][b + 1] /\ b + 1 \in 1..Size(f, v)
    BY <1>1, <1>3, <1>5
  <2> QED BY <1>1, <2>1, KeyIs
<1> QED BY <1>1, <1>3, <1>5, <1>6, <1>7, <1>8, <1>9, <1>10, <1>11 DEF IsJoined

LEMMA DueElement ==
    ASSUME NEW order \in Orders, NEW f, NEW v, Reads(f, v, order), f.what = "array",
           f.left # Unopened, f.left # 0,
           NEW g, g.what = f.what, g.kind = f.kind, g.left = f.left - 1, Keyless(g)
    PROVE  /\ IsJoined(Due(f, v, order), WireNode(f.kind, v[Begun(g, v)], order), Due(g, v, order))
           /\ Reads(g, v, order) /\ Begun(g, v) = Begun(f, v) + 1 /\ Size(g, v) = Size(f, v)
           /\ Begun(g, v) \in 1..Len(v)
           /\ f.kind \in Kinds /\ IsNode(f.kind, v[Begun(g, v)])
<1> USE DEF Keyless
<1>1. /\ f.kind \in DOMAIN ArrayLevel /\ AreNodes(f.kind, v) /\ f.key = "" /\ Size(f, v) = Len(v)
      /\ f.left \in 0..Size(f, v)
  BY DEF Reads, Size
<1>2. f.kind \in Kinds
  BY <1>1 DEF ArrayLevel, Kinds, MapLevel
<1>3. PICK n, b, l, parts : n = Size(f, v) /\ b = Begun(f, v) /\ l = f.left
                            /\ parts = PartsOf(f, v, order)
  OBVIOUS
<1>4. n \in Nat /\ b \in 0..n /\ l = n - b /\ parts \in Seq(Seq(TokenSet))
      /\ Len(parts) = n
  BY <1>3, PartsAre
<1>5. b + 1 \in 1..n /\ b \in 0..(n - 1) /\ l - 1 \in 0..n /\ n - (l - 1) = b + 1 /\ l - 1 # Unopened
  BY <1>3, <1>4, Counting
<1>6. Size(g, v) = n /\ PartsOf(g, v, order) = parts
  BY <1>3 DEF Size, PartsOf
<1>7. Begun(g, v) = b + 1
  BY <1>3, <1>5, <1>6 DEF Begun
<1>8. Reads(g, v, order)
  BY <1>1, <1>3, <1>5, <1>6 DEF Reads
<1>9. After(parts, b) = parts[b + 1] \o After(parts, b + 1)
  BY <1>4, <1>5, AfterNext
<1>10. parts[b + 1] = WireNode(f.kind, v[b + 1], order)
  <2>1. DOMAIN v = 1..n
    BY <1>1, <1>3, ListFacts DEF AreNodes
  <2>2. parts = [i \in DOMAIN v |-> WireNode(f.kind, v[i], order)]
    BY <1>3 DEF PartsOf, Elements
  <2> QED BY <1>5, <2>1, <2>2
<1>11. Due(f, v, order) = After(parts, b)
  BY <1>1, <1>3 DEF Due
<1>12. Due(g, v, order) = After(parts, b + 1)
  BY <1>3, <1>5, <1>6, <1>7 DEF Due
<1>13. IsNode(f.kind, v[b + 1])
  BY <1>1, <1>3, <1>5 DEF AreNodes
<1> QED BY <1>1, <1>2, <1>3, <1>5, <1>6, <1>7, <1>8, <1>9, <1>10, <1>11, <1>12, <1>13 DEF IsJoined

LEMMA DueEnds ==
    ASSUME NEW order \in Orders, NEW f, NEW v, Reads(f, v, order), f.left = 0
    PROVE  Due(f, v, order) = <<>> /\ Begun(f, v) = Size(f, v) /\ Keyless(f)
<1> USE DEF Keyless
<1>1. f.left # Unopened
  BY DEF Unopened
<1>2. /\ PartsOf(f, v, order) \in Seq(Seq(TokenSet))
      /\ Len(PartsOf(f, v, order)) = Size(f, v) /\ Size(f, v) \in Nat
  BY PartsAre
<1>3. Begun(f, v) = Size(f, v)
  BY <1>1, <1>2 DEF Begun
<1>4. f.key = ""
  <2>1. PICK n : n = Size(f, v)
    OBVIOUS
  <2>2. 0 \notin 1..n
    BY <1>2, <2>1
  <2> QED BY <2>1, <2>2 DEF Reads
<1>5. After(PartsOf(f, v, order), Size(f, v)) = <<>>
  BY <1>2, AfterAll
<1> QED BY <1>1, <1>3, <1>4, <1>5 DEF Due

-----------------------------------------------------------------------------
(* What a node is unpacked to, field by field.                             *)

FlatKinds == {"resource", "scope", "status", "event", "link"}

LEMMA UnValueIs ==
    ASSUME NEW kind, NEW key, NEW w
    PROVE  /\ key = "attributes" /\ kind \in {"scope", "link"} => UnValue(kind, key, w) = w
           /\ key = "attributes" /\ kind \notin {"scope", "link"} =>
                 UnValue(kind, key, w) = unpack_attributes(w)
           /\ key \in IdKeys => UnValue(kind, key, w) = unpack_id(w)
           /\ key \in StringKeys \cup NumberKeys => UnValue(kind, key, w) = w
           /\ key \in {"resource", "status"} => UnValue(kind, key, w) = UnNode(key, w)
           /\ key = "scope" => UnValue(kind, key, w) = unpack_instrumentation_scope(w)
           /\ key \in ArrayKeys =>
                 UnValue(kind, key, w) = [i \in DOMAIN w |-> UnNode(Element[key], w[i])]
<1>1. /\ key = "attributes" => /\ key \notin IdKeys /\ key \notin StringKeys \cup NumberKeys
                               /\ key \notin {"resource", "status"} /\ key # "scope"
                               /\ key \notin ArrayKeys
      /\ key \in IdKeys => /\ key # "attributes" /\ key \notin StringKeys \cup NumberKeys
                           /\ key \notin {"resource", "status"} /\ key # "scope"
                           /\ key \notin ArrayKeys
      /\ key \in StringKeys \cup NumberKeys => /\ key # "attributes" /\ key \notin IdKeys
                                               /\ key \notin {"resource", "status"} /\ key # "scope"
                                               /\ key \notin ArrayKeys
      /\ key \in {"resource", "status", "scope"} \cup ArrayKeys =>
            key # "attributes" /\ key \notin IdKeys /\ key \notin StringKeys \cup NumberKeys
      /\ key \in ArrayKeys => key \notin {"resource", "status"} /\ key # "scope"
  BY KeysDiffer DEF PlainKeys, MapKeys
<1>2. key = "attributes" /\ kind \in {"scope", "link"} => UnValue(kind, key, w) = w
  BY <1>1, Zenon DEF UnValue
<1>3. key = "attributes" /\ kind \notin {"scope", "link"} =>
         UnValue(kind, key, w) = unpack_attributes(w)
  BY <1>1, Zenon DEF UnValue
<1>4. key \in IdKeys => UnValue(kind, key, w) = unpack_id(w)
  BY <1>1, Zenon DEF UnValue
<1>5. key \in StringKeys \cup NumberKeys => UnValue(kind, key, w) = w
  BY <1>1, Zenon DEF UnValue
<1>6. key \in {"resource", "status"} => UnValue(kind, key, w) = UnNode(key, w)
  <2>1. key \in {"resource", "status"} => key # "attributes" /\ key \notin IdKeys
                                          /\ key \notin StringKeys \cup NumberKeys
                                          /\ key # "scope" /\ key \notin ArrayKeys
    BY <1>1
  <2> QED BY <2>1, Zenon DEF UnValue
<1>7. key = "scope" => UnValue(kind, key, w) = unpack_instrumentation_scope(w)
  <2>1. key = "scope" => key # "attributes" /\ key \notin IdKeys /\ key \notin StringKeys \cup NumberKeys
                         /\ key \notin {"resource", "status"} /\ key \notin ArrayKeys
    BY <1>1
  <2> QED BY <2>1, Zenon DEF UnValue
<1>8. key \in ArrayKeys => UnValue(kind, key, w) = [i \in DOMAIN w |-> UnNode(Element[key], w[i])]
  <2>1. key \in ArrayKeys => key # "attributes" /\ key \notin IdKeys
                             /\ key \notin StringKeys \cup NumberKeys
                             /\ key \notin {"resource", "status"} /\ key # "scope"
    BY <1>1
  <2> QED BY <2>1, Zenon DEF UnValue
<1> QED BY <1>2, <1>3, <1>4, <1>5, <1>6, <1>7, <1>8

LEMMA UnNodeIs ==
    ASSUME NEW kind, NEW v
    PROVE  /\ kind = "context" => UnNode(kind, v) =
                 [resourceSpans |-> [i \in DOMAIN v.resourceSpans |->
                                        unpack_resource_span(v.resourceSpans[i])]]
           /\ kind = "resource_span" => UnNode(kind, v) = unpack_resource_span(v)
           /\ kind = "resource" => UnNode(kind, v) =
                 [attr |-> unpack_attributes(v.attributes),
                  dropped_attr_count |-> v.dropped_attributes_count]
           /\ kind = "scope_span" => UnNode(kind, v) = unpack_scope_span(v)
           /\ kind = "scope" => UnNode(kind, v) =
                 [name |-> v.name, version |-> v.version, attr |-> v.attributes,
                  dropped_attr_count |-> v.dropped_attributes_count]
           /\ kind = "span" => UnNode(kind, v) = unpack_span(v)
           /\ kind = "status" => UnNode(kind, v) = v
           /\ kind = "event" => UnNode(kind, v) = unpack_event(v)
           /\ kind = "link" => UnNode(kind, v) = unpack_link(v)
<1>1. kind = "context" => UnNode(kind, v) =
         [resourceSpans |-> [i \in DOMAIN v.resourceSpans |-> unpack_resource_span(v.resourceSpans[i])]]
  BY Zenon DEF UnNode
<1>2. kind = "resource_span" => UnNode(kind, v) = unpack_resource_span(v)
  BY Zenon DEF UnNode
<1>3. kind = "resource" => UnNode(kind, v) =
         [attr |-> unpack_attributes(v.attributes), dropped_attr_count |-> v.dropped_attributes_count]
  BY Zenon DEF UnNode
<1>4. kind = "scope_span" => UnNode(kind, v) = unpack_scope_span(v)
  BY Zenon DEF UnNode
<1>5. kind = "scope" => UnNode(kind, v) =
         [name |-> v.name, version |-> v.version, attr |-> v.attributes,
          dropped_attr_count |-> v.dropped_attributes_count]
  BY Zenon DEF UnNode
<1>6. kind = "span" => UnNode(kind, v) = unpack_span(v)
  BY Zenon DEF UnNode
<1>7. kind = "status" => UnNode(kind, v) = v
  BY Zenon DEF UnNode
<1>8. kind = "event" => UnNode(kind, v) = unpack_event(v)
  BY Zenon DEF UnNode
<1>9. kind = "link" => UnNode(kind, v) = unpack_link(v)
  BY Zenon DEF UnNode
<1> QED BY <1>1, <1>2, <1>3, <1>4, <1>5, <1>6, <1>7, <1>8, <1>9

LEMMA BlankIs ==
    ASSUME NEW kind
    PROVE  /\ kind = "context" => Blank(kind) = [resourceSpans |-> <<>>]
           /\ kind = "resource" => Blank(kind) = [attr |-> <<>>, dropped_attr_count |-> 0]
           /\ kind = "status" => Blank(kind) = [code |-> 0, message |-> NULL]
           /\ kind \in {"resource_span", "scope_span", "scope", "span", "event", "link"} =>
                 Blank(kind) = New[kind]
<1>2. New.resource_span.resource = [attr |-> <<>>, dropped_attr_count |-> 0]
      /\ New.span.status = [code |-> 0, message |-> NULL]
  BY DEF New
<1>3. kind = "context" => Blank(kind) = [resourceSpans |-> <<>>]
  BY DEF Blank
<1>4. kind = "resource" => Blank(kind) = New.resource_span.resource
  BY DEF Blank
<1>5. kind = "status" => Blank(kind) = New.span.status
  BY DEF Blank
<1>6. kind \in {"resource_span", "scope_span", "scope", "span", "event", "link"} =>
         Blank(kind) = New[kind]
  BY DEF Blank
<1> QED BY <1>2, <1>3, <1>4, <1>5, <1>6

LEMMA FieldForIs ==
    /\ FieldFor("scope") = "instrumentation_scope" /\ FieldFor("attributes") = "attr"
    /\ FieldFor("dropped_attributes_count") = "dropped_attr_count"
    /\ \A key : key \notin {"scope", "attributes", "dropped_attributes_count"} => FieldFor(key) = key
<1>1. FieldFor("scope") = "instrumentation_scope"
  BY Zenon DEF FieldFor
<1>2. \A key : key # "scope" => FieldFor(key) = Field(key)
  BY Zenon DEF FieldFor
<1>3. Field("attributes") = "attr" /\ Field("dropped_attributes_count") = "dropped_attr_count"
  BY Zenon DEF Field
<1>4. \A key : key # "attributes" /\ key # "dropped_attributes_count" => Field(key) = key
  BY Zenon DEF Field
<1> QED BY <1>1, <1>2, <1>3, <1>4

\* The fields of the structure of a kind.
Fields(kind) == DOMAIN Blank(kind)

LEMMA FieldsAre ==
    ASSUME NEW kind \in Kinds
    PROVE  /\ kind = "context" => Fields(kind) = {"resourceSpans"}
           /\ kind = "resource_span" => Fields(kind) = {"resource", "schema_url", "scope_spans"}
           /\ kind = "resource" => Fields(kind) = {"attr", "dropped_attr_count"}
           /\ kind = "scope_span" => Fields(kind) = {"instrumentation_scope", "schema_url", "spans"}
           /\ kind = "scope" => Fields(kind) = {"name", "version", "attr", "dropped_attr_count"}
           /\ kind = "span" => Fields(kind) =
                 {"trace_id", "span_id", "parent_span_id", "trace_state", "name", "schema_url",
                  "kind", "flags", "start_time_unix_nano", "end_time_unix_nano", "attr",
                  "dropped_attr_count", "events", "dropped_events_count", "links",
                  "dropped_links_count", "status"}
           /\ kind = "status" => Fields(kind) = {"code", "message"}
           /\ kind = "event" => Fields(kind) = {"name", "time_unix_nano", "attr", "dropped_attr_count"}
           /\ kind = "link" => Fields(kind) = {"trace_id", "span_id", "trace_state", "attr",
                                               "dropped_attr_count", "flags"}
<1>1. kind = "context" => Fields(kind) = {"resourceSpans"}
  BY BlankIs DEF Fields
<1>2. kind = "resource_span" => Fields(kind) = {"resource", "schema_url", "scope_spans"}
  <2>1. kind = "resource_span" => Fields(kind) = DOMAIN New.resource_span
    BY BlankIs DEF Fields
  <2> QED BY <2>1 DEF New
<1>3. kind = "resource" => Fields(kind) = {"attr", "dropped_attr_count"}
  BY BlankIs DEF Fields
<1>4. kind = "scope_span" => Fields(kind) = {"instrumentation_scope", "schema_url", "spans"}
  <2>1. kind = "scope_span" => Fields(kind) = DOMAIN New.scope_span
    BY BlankIs DEF Fields
  <2> QED BY <2>1 DEF New
<1>5. kind = "scope" => Fields(kind) = {"name", "version", "attr", "dropped_attr_count"}
  <2>1. kind = "scope" => Fields(kind) = DOMAIN New.scope
    BY BlankIs DEF Fields
  <2> QED BY <2>1 DEF New
<1>6. kind = "span" => Fields(kind) =
                 {"trace_id", "span_id", "parent_span_id", "trace_state", "name", "schema_url",
                  "kind", "flags", "start_time_unix_nano", "end_time_unix_nano", "attr",
                  "dropped_attr_count", "events", "dropped_events_count", "links",
                  "dropped_links_count", "status"}
  <2>1. kind = "span" => Fields(kind) = DOMAIN New.span
    BY BlankIs DEF Fields
  <2> QED BY <2>1 DEF New
<1>7. kind = "status" => Fields(kind) = {"code", "message"}
  BY BlankIs DEF Fields
<1>8. kind = "event" => Fields(kind) = {"name", "time_unix_nano", "attr", "dropped_attr_count"}
  <2>1. kind = "event" => Fields(kind) = DOMAIN New.event
    BY BlankIs DEF Fields
  <2> QED BY <2>1 DEF New
<1>9. kind = "link" => Fields(kind) = {"trace_id", "span_id", "trace_state", "attr",
                                               "dropped_attr_count", "flags"}
  <2>1. kind = "link" => Fields(kind) = DOMAIN New.link
    BY BlankIs DEF Fields
  <2> QED BY <2>1 DEF New
<1> QED BY <1>1, <1>2, <1>3, <1>4, <1>5, <1>6, <1>7, <1>8, <1>9

LEMMA KeysAre ==
    ASSUME NEW kind \in Kinds
    PROVE  /\ kind = "context" => Range(Entries[kind]) = {"resourceSpans"}
           /\ kind = "resource_span" =>
                 Range(Entries[kind]) = {"resource", "schema_url", "scope_spans"}
           /\ kind = "resource" => Range(Entries[kind]) = {"attributes", "dropped_attributes_count"}
           /\ kind = "scope_span" => Range(Entries[kind]) = {"scope", "spans", "schema_url"}
           /\ kind = "scope" =>
                 Range(Entries[kind]) = {"name", "version", "attributes", "dropped_attributes_count"}
           /\ kind = "span" => Range(Entries[kind]) =
                 {"trace_id", "span_id", "parent_span_id", "trace_state", "name", "kind",
                  "start_time_unix_nano", "end_time_unix_nano", "attributes",
                  "dropped_attributes_count", "dropped_events_count",
                  "dropped_links_count", "events", "links", "schema_url", "status"}
           /\ kind = "status" => Range(Entries[kind]) = {"code", "message"}
           /\ kind = "event" => Range(Entries[kind]) =
                 {"time_unix_nano", "name", "attributes", "dropped_attributes_count"}
           /\ kind = "link" => Range(Entries[kind]) =
                 {"trace_id", "span_id", "trace_state", "attributes", "dropped_attributes_count"}
<1> USE DEF Range, Entries
<1>1. kind = "context" => Range(Entries[kind]) = {"resourceSpans"}
  OBVIOUS
<1>2. kind = "resource_span" => Range(Entries[kind]) = {"resource", "schema_url", "scope_spans"}
  OBVIOUS
<1>3. kind = "resource" => Range(Entries[kind]) = {"attributes", "dropped_attributes_count"}
  OBVIOUS
<1>4. kind = "scope_span" => Range(Entries[kind]) = {"scope", "spans", "schema_url"}
  OBVIOUS
<1>5. kind = "scope" =>
         Range(Entries[kind]) = {"name", "version", "attributes", "dropped_attributes_count"}
  OBVIOUS
<1>6. kind = "span" => Range(Entries[kind]) =
                 {"trace_id", "span_id", "parent_span_id", "trace_state", "name", "kind",
                  "start_time_unix_nano", "end_time_unix_nano", "attributes",
                  "dropped_attributes_count", "dropped_events_count",
                  "dropped_links_count", "events", "links", "schema_url", "status"}
  OBVIOUS
<1>7. kind = "status" => Range(Entries[kind]) = {"code", "message"}
  OBVIOUS
<1>8. kind = "event" => Range(Entries[kind]) =
                 {"time_unix_nano", "name", "attributes", "dropped_attributes_count"}
  OBVIOUS
<1>9. kind = "link" => Range(Entries[kind]) =
                 {"trace_id", "span_id", "trace_state", "attributes", "dropped_attributes_count"}
  OBVIOUS
<1> QED BY <1>1, <1>2, <1>3, <1>4, <1>5, <1>6, <1>7, <1>8, <1>9

\* Every field is that of one key, but for the flags that nothing packs.
LEMMA FieldOfKey ==
    ASSUME NEW kind \in Kinds
    PROVE  /\ \A key \in Range(Entries[kind]) : FieldFor(key) \in Fields(kind) /\ FieldFor(key) # "flags"
           /\ \A x \in Fields(kind) : x = "flags" \/ \E key \in Range(Entries[kind]) : x = FieldFor(key)
           /\ \A key, other \in Range(Entries[kind]) : FieldFor(key) = FieldFor(other) => key = other
<1>1. CASE kind = "context"
  BY <1>1, KeysAre, FieldsAre, FieldForIs
<1>2. CASE kind = "resource_span"
  BY <1>2, KeysAre, FieldsAre, FieldForIs
<1>3. CASE kind = "resource"
  BY <1>3, KeysAre, FieldsAre, FieldForIs
<1>4. CASE kind = "scope_span"
  BY <1>4, KeysAre, FieldsAre, FieldForIs
<1>5. CASE kind = "scope"
  BY <1>5, KeysAre, FieldsAre, FieldForIs
<1>6. CASE kind = "span"
  <2>1. \A key \in Range(Entries[kind]) : FieldFor(key) \in Fields(kind) /\ FieldFor(key) # "flags"
    BY <1>6, KeysAre, FieldsAre, FieldForIs
  <2>2. \A x \in Fields(kind) : x = "flags" \/ \E key \in Range(Entries[kind]) : x = FieldFor(key)
    <3>1. \A x \in Fields(kind) : \/ x \in {"flags", "attr", "dropped_attr_count"}
                                  \/ x \in Range(Entries[kind]) \ {"scope", "attributes", "dropped_attributes_count"}
      BY <1>6, KeysAre, FieldsAre
    <3>2. {"attributes", "dropped_attributes_count"} \subseteq Range(Entries[kind])
      BY <1>6, KeysAre
    <3> QED BY <3>1, <3>2, FieldForIs
  <2>3. \A key, other \in Range(Entries[kind]) : FieldFor(key) = FieldFor(other) => key = other
    <3>1. "scope" \notin Range(Entries[kind]) /\ "attr" \notin Range(Entries[kind])
          /\ "dropped_attr_count" \notin Range(Entries[kind])
      BY <1>6, KeysAre
    <3> QED BY <3>1, FieldForIs
  <2> QED BY <2>1, <2>2, <2>3
<1>7. CASE kind = "status"
  BY <1>7, KeysAre, FieldsAre, FieldForIs
<1>8. CASE kind = "event"
  BY <1>8, KeysAre, FieldsAre, FieldForIs
<1>9. CASE kind = "link"
  BY <1>9, KeysAre, FieldsAre, FieldForIs
<1> QED BY <1>1, <1>2, <1>3, <1>4, <1>5, <1>6, <1>7, <1>8, <1>9 DEF Kinds, MapLevel

LEMMA UnFields ==
    ASSUME NEW kind \in Kinds, NEW v, IsNode(kind, v)
    PROVE  /\ UnNode(kind, v) = [x \in Fields(kind) |-> UnNode(kind, v)[x]]
           /\ "flags" \in Fields(kind) => UnNode(kind, v).flags = 0
           /\ \A key \in Range(Entries[kind]) :
                 UnNode(kind, v)[FieldFor(key)] = UnValue(kind, key, v[key])
<1>1. CASE kind = "context"
  <2>1. UnNode(kind, v) = [resourceSpans |-> [i \in DOMAIN v.resourceSpans |->
                                                 unpack_resource_span(v.resourceSpans[i])]]
    BY <1>1, UnNodeIs
  <2>2. UnValue(kind, "resourceSpans", v.resourceSpans)
          = [i \in DOMAIN v.resourceSpans |-> UnNode("resource_span", v.resourceSpans[i])]
    BY KeysDiffer, UnValueIs
  <2>3. \A i : UnNode("resource_span", v.resourceSpans[i]) = unpack_resource_span(v.resourceSpans[i])
    BY UnNodeIs
  <2> QED BY <1>1, <2>1, <2>2, <2>3, KeysAre, FieldsAre, FieldForIs
<1>2. CASE kind = "resource_span"
  <2>1. UnNode(kind, v) = unpack_resource_span(v)
    BY <1>2, UnNodeIs
  <2>2. UnNode(kind, v).resource = UnValue(kind, "resource", v.resource)
    <3>1. UnValue(kind, "resource", v.resource)
            = [attr |-> unpack_attributes(v.resource.attributes),
               dropped_attr_count |-> v.resource.dropped_attributes_count]
      <4>1. UnValue(kind, "resource", v.resource) = UnNode("resource", v.resource)
        BY UnValueIs
      <4> QED BY <4>1, UnNodeIs
    <3> QED BY <2>1, <3>1 DEF unpack_resource_span
  <2>3. UnNode(kind, v).schema_url = UnValue(kind, "schema_url", v.schema_url)
    BY <2>1, UnValueIs DEF unpack_resource_span, StringKeys
  <2>4. UnNode(kind, v).scope_spans = UnValue(kind, "scope_spans", v.scope_spans)
    <3>1. UnValue(kind, "scope_spans", v.scope_spans)
            = [i \in DOMAIN v.scope_spans |-> UnNode("scope_span", v.scope_spans[i])]
      BY KeysDiffer, UnValueIs
    <3>2. \A i : UnNode("scope_span", v.scope_spans[i]) = unpack_scope_span(v.scope_spans[i])
      BY UnNodeIs
    <3> QED BY <2>1, <3>1, <3>2 DEF unpack_resource_span
  <2>5. UnNode(kind, v) = [x \in Fields(kind) |-> UnNode(kind, v)[x]]
    BY <1>2, <2>1, FieldsAre DEF unpack_resource_span
  <2>6. "flags" \notin Fields(kind)
    BY <1>2, FieldsAre
  <2> QED BY <1>2, <2>2, <2>3, <2>4, <2>5, <2>6, KeysAre, FieldForIs
<1>3. CASE kind = "scope_span"
  <2>1. UnNode(kind, v) = unpack_scope_span(v)
    BY <1>3, UnNodeIs
  <2>2. UnNode(kind, v).instrumentation_scope = UnValue(kind, "scope", v.scope)
    BY <2>1, UnValueIs DEF unpack_scope_span
  <2>3. UnNode(kind, v).schema_url = UnValue(kind, "schema_url", v.schema_url)
    BY <2>1, UnValueIs DEF unpack_scope_span, StringKeys
  <2>4. UnNode(kind, v).spans = UnValue(kind, "spans", v.spans)
    <3>1. UnValue(kind, "spans", v.spans) = [i \in DOMAIN v.spans |-> UnNode("span", v.spans[i])]
      BY KeysDiffer, UnValueIs
    <3>2. \A i : UnNode("span", v.spans[i]) = unpack_span(v.spans[i])
      BY UnNodeIs
    <3> QED BY <2>1, <3>1, <3>2 DEF unpack_scope_span
  <2>5. UnNode(kind, v) = [x \in Fields(kind) |-> UnNode(kind, v)[x]]
    BY <1>3, <2>1, FieldsAre DEF unpack_scope_span
  <2>6. "flags" \notin Fields(kind)
    BY <1>3, FieldsAre
  <2> QED BY <1>3, <2>2, <2>3, <2>4, <2>5, <2>6, KeysAre, FieldForIs
<1>4. CASE kind = "span"
  <2>1. UnNode(kind, v) = unpack_span(v)
    BY <1>4, UnNodeIs
  <2>2. UnNode(kind, v).events = UnValue(kind, "events", v.events)
    <3>1. UnValue(kind, "events", v.events) = [i \in DOMAIN v.events |-> UnNode("event", v.events[i])]
      BY KeysDiffer, UnValueIs
    <3>2. \A i : UnNode("event", v.events[i]) = unpack_event(v.events[i])
      BY UnNodeIs
    <3> QED BY <2>1, <3>1, <3>2 DEF unpack_span
  <2>3. UnNode(kind, v).links = UnValue(kind, "links", v.links)
    <3>1. UnValue(kind, "links", v.links) = [i \in DOMAIN v.links |-> UnNode("link", v.links[i])]
      BY KeysDiffer, UnValueIs
    <3>2. \A i : UnNode("link", v.links[i]) = unpack_link(v.links[i])
      BY UnNodeIs
    <3> QED BY <2>1, <3>1, <3>2 DEF unpack_span
  <2>4. UnNode(kind, v).status = UnValue(kind, "status", v.status)
    BY <2>1, UnNodeIs, UnValueIs DEF unpack_span
  <2>5. UnNode(kind, v).attr = UnValue(kind, "attributes", v.attributes)
    <3>1. UnValue(kind, "attributes", v.attributes) = unpack_attributes(v.attributes)
      BY <1>4, UnValueIs
    <3> QED BY <2>1, <3>1 DEF unpack_span
  <2>6. \A key \in IdKeys : UnNode(kind, v)[key] = UnValue(kind, key, v[key])
    <3>1. \A key \in IdKeys : UnValue(kind, key, v[key]) = unpack_id(v[key])
      BY UnValueIs
    <3> QED BY <2>1, <3>1 DEF unpack_span, IdKeys
  <2>7. \A key \in {"trace_state", "name", "schema_url", "kind", "start_time_unix_nano",
                    "end_time_unix_nano", "dropped_events_count", "dropped_links_count"} :
           UnNode(kind, v)[key] = UnValue(kind, key, v[key])
    <3>1. \A key \in {"trace_state", "name", "schema_url", "kind", "start_time_unix_nano",
                      "end_time_unix_nano", "dropped_events_count", "dropped_links_count"} :
             UnValue(kind, key, v[key]) = v[key]
      BY UnValueIs DEF StringKeys, NumberKeys
    <3> QED BY <2>1, <3>1 DEF unpack_span
  <2>8. UnNode(kind, v).dropped_attr_count
          = UnValue(kind, "dropped_attributes_count", v.dropped_attributes_count)
    BY <2>1, UnValueIs DEF unpack_span, NumberKeys
  <2>9. UnNode(kind, v) = [x \in Fields(kind) |-> UnNode(kind, v)[x]] /\ UnNode(kind, v).flags = 0
    BY <1>4, <2>1, FieldsAre DEF unpack_span
  <2>10. \A key \in Range(Entries[kind]) :
            \/ key \in IdKeys \/ key \in {"events", "links", "status", "attributes", "dropped_attributes_count"}
            \/ key \in {"trace_state", "name", "schema_url", "kind", "start_time_unix_nano",
                        "end_time_unix_nano", "dropped_events_count", "dropped_links_count"}
    BY <1>4, KeysAre DEF IdKeys
  <2>11. \A key \in IdKeys : FieldFor(key) = key
    BY FieldForIs DEF IdKeys
  <2>12. \A key \in Range(Entries[kind]) : UnNode(kind, v)[FieldFor(key)] = UnValue(kind, key, v[key])
    BY <2>2, <2>3, <2>4, <2>5, <2>6, <2>7, <2>8, <2>10, <2>11, FieldForIs
  <2> QED BY <2>9, <2>12
<1>5. CASE kind = "resource"
  <2>1. UnNode(kind, v) = [attr |-> unpack_attributes(v.attributes),
                           dropped_attr_count |-> v.dropped_attributes_count]
    BY <1>5, UnNodeIs
  <2>2. UnValue(kind, "attributes", v.attributes) = unpack_attributes(v.attributes)
    BY <1>5, UnValueIs
  <2>3. UnValue(kind, "dropped_attributes_count", v.dropped_attributes_count) = v.dropped_attributes_count
    BY UnValueIs DEF NumberKeys
  <2> QED BY <1>5, <2>1, <2>2, <2>3, KeysAre, FieldsAre, FieldForIs
<1>6. CASE kind = "scope"
  <2>1. UnNode(kind, v) = [name |-> v.name, version |-> v.version, attr |-> v.attributes,
                           dropped_attr_count |-> v.dropped_attributes_count]
    BY <1>6, UnNodeIs
  <2>2. UnValue(kind, "attributes", v.attributes) = v.attributes
    BY <1>6, UnValueIs
  <2>3. /\ UnValue(kind, "dropped_attributes_count", v.dropped_attributes_count) = v.dropped_attributes_count
        /\ UnValue(kind, "name", v.name) = v.name
        /\ UnValue(kind, "version", v.version) = v.version
    BY UnValueIs DEF NumberKeys, StringKeys
  <2> QED BY <1>6, <2>1, <2>2, <2>3, KeysAre, FieldsAre, FieldForIs
<1>7. CASE kind = "status"
  <2>1. UnNode(kind, v) = v /\ v \in [code : Int, message : String]
    BY <1>7, UnNodeIs DEF IsNode
  <2>2. UnValue(kind, "code", v.code) = v.code /\ UnValue(kind, "message", v.message) = v.message
    BY UnValueIs DEF NumberKeys, StringKeys
  <2> QED BY <1>7, <2>1, <2>2, KeysAre, FieldsAre, FieldForIs
<1>8. CASE kind = "event"
  <2>1. UnNode(kind, v) = unpack_event(v)
    BY <1>8, UnNodeIs
  <2>2. UnValue(kind, "attributes", v.attributes) = unpack_attributes(v.attributes)
    BY <1>8, UnValueIs
  <2>3. /\ UnValue(kind, "dropped_attributes_count", v.dropped_attributes_count) = v.dropped_attributes_count
        /\ UnValue(kind, "name", v.name) = v.name
        /\ UnValue(kind, "time_unix_nano", v.time_unix_nano) = v.time_unix_nano
    BY UnValueIs DEF NumberKeys, StringKeys
  <2> QED BY <1>8, <2>1, <2>2, <2>3, KeysAre, FieldsAre, FieldForIs DEF unpack_event
<1>9. CASE kind = "link"
  <2>1. UnNode(kind, v) = unpack_link(v)
    BY <1>9, UnNodeIs
  <2>2. UnValue(kind, "attributes", v.attributes) = v.attributes
    BY <1>9, UnValueIs
  <2>3. /\ UnValue(kind, "dropped_attributes_count", v.dropped_attributes_count) = v.dropped_attributes_count
        /\ UnValue(kind, "trace_state", v.trace_state) = v.trace_state
        /\ UnValue(kind, "trace_id", v.trace_id) = unpack_id(v.trace_id)
        /\ UnValue(kind, "span_id", v.span_id) = unpack_id(v.span_id)
    BY UnValueIs DEF NumberKeys, StringKeys, IdKeys
  <2> QED BY <1>9, <2>1, <2>2, <2>3, KeysAre, FieldsAre, FieldForIs DEF unpack_link
<1> QED BY <1>1, <1>2, <1>3, <1>4, <1>5, <1>6, <1>7, <1>8, <1>9 DEF Kinds, MapLevel

\* A node is good if the values under its keys are.
LEMMA GoodByKeys ==
    ASSUME NEW kind \in Kinds, NEW v, IsNode(kind, v)
    PROVE  NodeGood(kind, v) <=> \A key \in Range(Entries[kind]) : ValueGood(key, v[key])
<1>0. DOMAIN v = Range(Entries[kind]) /\ \A key \in Range(Entries[kind]) : IsValue(kind, key, v[key])
  BY NodeFields
<1> USE KeysDiffer
<1>1. CASE kind = "context"
  <2>1. Range(Entries[kind]) = {"resourceSpans"}
    BY <1>1, KeysAre
  <2>2. PICK w : w = v.resourceSpans
    OBVIOUS
  <2>3. DOMAIN w = 1..Len(w)
    BY <1>0, <2>1, <2>2, ListFacts DEF IsValue, AreNodes
  <2>4. ValueGood("resourceSpans", w) <=> Len(w) <= MaxArray /\ \A i \in 1..Len(w) : ResourceSpanGood(w[i])
    BY DEF ValueGood, AllGood, NodeGood, PlainKeys, MapKeys
  <2>5. NodeGood(kind, v) <=> Len(w) <= MaxArray /\ \A i \in 1..Len(w) : ResourceSpanGood(w[i])
    BY <1>1, <2>2, <2>3 DEF NodeGood, Good
  <2> QED BY <2>1, <2>2, <2>4, <2>5
<1>2. CASE kind = "resource_span"
  <2>1. Range(Entries[kind]) = {"resource", "schema_url", "scope_spans"}
    BY <1>2, KeysAre
  <2>2. PICK w : w = v.scope_spans
    OBVIOUS
  <2>3. DOMAIN w = 1..Len(w)
    BY <1>0, <2>1, <2>2, ListFacts DEF IsValue, AreNodes
  <2>4. ValueGood("scope_spans", w) <=> Len(w) <= MaxArray /\ \A i \in 1..Len(w) : ScopeSpanGood(w[i])
    BY DEF ValueGood, AllGood, NodeGood, PlainKeys, MapKeys
  <2>5. ValueGood("schema_url", v.schema_url)
    BY DEF ValueGood, StringKeys, IdKeys
  <2>6. ValueGood("resource", v.resource) <=> KeysFit(v.resource.attributes)
    BY DEF ValueGood, NodeGood, PlainKeys, MapKeys
  <2>7. NodeGood(kind, v) <=> KeysFit(v.resource.attributes) /\ Len(w) <= MaxArray
                              /\ \A i \in 1..Len(w) : ScopeSpanGood(w[i])
    BY <1>2, <2>2, <2>3 DEF NodeGood, ResourceSpanGood
  <2> QED BY <2>1, <2>2, <2>4, <2>5, <2>6, <2>7
<1>3. CASE kind = "scope_span"
  <2>1. Range(Entries[kind]) = {"scope", "spans", "schema_url"}
    BY <1>3, KeysAre
  <2>2. PICK w : w = v.spans
    OBVIOUS
  <2>3. DOMAIN w = 1..Len(w)
    BY <1>0, <2>1, <2>2, ListFacts DEF IsValue, AreNodes
  <2>4. ValueGood("spans", w) <=> Len(w) <= MaxArray /\ \A i \in 1..Len(w) : SpanGood(w[i])
    BY DEF ValueGood, AllGood, NodeGood, PlainKeys, MapKeys
  <2>5. ValueGood("schema_url", v.schema_url)
    BY DEF ValueGood, StringKeys, IdKeys
  <2>6. ValueGood("scope", v.scope) <=> v.scope = NULL \/ KeysFit(v.scope.attributes)
    BY DEF ValueGood, NodeGood, PlainKeys, MapKeys
  <2>7. NodeGood(kind, v) <=> /\ v.scope = NULL \/ KeysFit(v.scope.attributes)
                              /\ Len(w) <= MaxArray /\ \A i \in 1..Len(w) : SpanGood(w[i])
    BY <1>3, <2>2, <2>3 DEF NodeGood, ScopeSpanGood
  <2> QED BY <2>1, <2>2, <2>4, <2>5, <2>6, <2>7
<1>4. CASE kind = "span"
  <2>1. Range(Entries[kind]) =
                 {"trace_id", "span_id", "parent_span_id", "trace_state", "name", "kind",
                  "start_time_unix_nano", "end_time_unix_nano", "attributes",
                  "dropped_attributes_count", "dropped_events_count",
                  "dropped_links_count", "events", "links", "schema_url", "status"}
    BY <1>4, KeysAre
  <2>2. PICK w, x : w = v.events /\ x = v.links
    OBVIOUS
  <2>3. DOMAIN w = 1..Len(w) /\ DOMAIN x = 1..Len(x)
    <3>1. IsValue(kind, "events", w) /\ IsValue(kind, "links", x)
      BY <1>0, <2>1, <2>2
    <3> QED BY <3>1, ListFacts DEF IsValue, AreNodes
  <2>4. ValueGood("events", w) <=> Len(w) <= MaxArray /\ \A i \in 1..Len(w) : EventReads(w[i])
    BY DEF ValueGood, AllGood, NodeGood, PlainKeys, MapKeys
  <2>5. ValueGood("links", x) <=> Len(x) <= MaxArray /\ \A i \in 1..Len(x) : LinkReads(x[i])
    BY DEF ValueGood, AllGood, NodeGood, PlainKeys, MapKeys
  <2>6. \A key \in IdKeys : ValueGood(key, v[key]) <=> IdReads(v[key])
    BY DEF ValueGood, PlainKeys, MapKeys
  <2>7. ValueGood("attributes", v.attributes) <=> KeysFit(v.attributes)
    BY DEF ValueGood, PlainKeys, MapKeys
  <2>8. \A key \in StringKeys \cup NumberKeys \cup {"status"} : ValueGood(key, v[key])
    BY DEF ValueGood, PlainKeys, MapKeys
  <2>9. NodeGood(kind, v) <=>
           /\ IdReads(v.trace_id) /\ IdReads(v.span_id) /\ IdReads(v.parent_span_id)
           /\ KeysFit(v.attributes)
           /\ Len(w) <= MaxArray /\ \A i \in 1..Len(w) : EventReads(w[i])
           /\ Len(x) <= MaxArray /\ \A i \in 1..Len(x) : LinkReads(x[i])
    BY <1>4, <2>2, <2>3 DEF NodeGood, SpanGood, SpanReads, SpanFits
  <2>10. \A key \in Range(Entries[kind]) :
            \/ key \in StringKeys \cup NumberKeys \cup {"status"}
            \/ key \in IdKeys \/ key \in {"attributes", "events", "links"}
    BY <2>1 DEF StringKeys, NumberKeys, IdKeys
  <2>11. IdKeys \cup {"attributes", "events", "links"} \subseteq Range(Entries[kind])
         /\ IdKeys = {"trace_id", "span_id", "parent_span_id"}
    BY <2>1 DEF IdKeys
  <2>12. (\A key \in Range(Entries[kind]) : ValueGood(key, v[key])) <=>
            /\ \A key \in IdKeys : IdReads(v[key])
            /\ KeysFit(v.attributes) /\ ValueGood("events", w) /\ ValueGood("links", x)
    BY <2>2, <2>6, <2>7, <2>8, <2>10, <2>11
  <2> QED BY <2>4, <2>5, <2>9, <2>11, <2>12
<1>5. CASE kind \in {"resource", "scope", "event"}
  <2>1. "attributes" \in Range(Entries[kind])
        /\ \A key \in Range(Entries[kind]) : key = "attributes" \/ key \in StringKeys \cup NumberKeys
    BY <1>5, KeysAre DEF StringKeys, NumberKeys
  <2>2. \A key \in StringKeys \cup NumberKeys : ValueGood(key, v[key])
    BY DEF ValueGood, PlainKeys, MapKeys
  <2>3. ValueGood("attributes", v.attributes) <=> KeysFit(v.attributes)
    BY DEF ValueGood, PlainKeys, MapKeys
  <2>4. NodeGood(kind, v) <=> KeysFit(v.attributes)
    BY <1>5 DEF NodeGood, EventReads
  <2> QED BY <2>1, <2>2, <2>3, <2>4
<1>6. CASE kind = "status"
  <2>1. Range(Entries[kind]) = {"code", "message"}
    BY <1>6, KeysAre
  <2>2. \A key \in {"code", "message"} : ValueGood(key, v[key])
    BY DEF ValueGood, StringKeys, NumberKeys, IdKeys
  <2>3. NodeGood(kind, v)
    BY <1>6 DEF NodeGood
  <2> QED BY <2>1, <2>2, <2>3
<1>7. CASE kind = "link"
  <2>1. Range(Entries[kind]) = {"trace_id", "span_id", "trace_state", "attributes",
                                "dropped_attributes_count"}
    BY <1>7, KeysAre
  <2>2. ValueGood("trace_state", v.trace_state)
        /\ ValueGood("dropped_attributes_count", v.dropped_attributes_count)
    BY DEF ValueGood, StringKeys, NumberKeys, IdKeys
  <2>3. ValueGood("attributes", v.attributes) <=> KeysFit(v.attributes)
    BY DEF ValueGood, PlainKeys, MapKeys
  <2>4. /\ ValueGood("trace_id", v.trace_id) <=> IdReads(v.trace_id)
        /\ ValueGood("span_id", v.span_id) <=> IdReads(v.span_id)
    BY DEF ValueGood, PlainKeys, MapKeys, IdKeys
  <2>5. NodeGood(kind, v) <=> IdReads(v.trace_id) /\ IdReads(v.span_id) /\ KeysFit(v.attributes)
    BY <1>7 DEF NodeGood, LinkReads
  <2> QED BY <2>1, <2>2, <2>3, <2>4, <2>5
<1> QED BY <1>1, <1>2, <1>3, <1>4, <1>5, <1>6, <1>7 DEF Kinds, MapLevel

\* ... and a message that is good is not refused.
LEMMA GoodIsExpected ==
    ASSUME NEW m \in MsgpackMessage(Int)
    PROVE  /\ Good(m) => Expected(m) = [i \in DOMAIN m |-> unpack_resource_span(m[i])]
           /\ ~Good(m) => Expected(m) = NULL
<1>1. \A p : SpanGood(p) <=> SpanReads(p) /\ SpanFits(p)
  BY DEF SpanGood
<1>2. \A s : ScopeSpanGood(s) <=> ScopeSpanReads(s) /\ ScopeSpanFits(s)
  BY <1>1 DEF ScopeSpanGood, ScopeSpanReads, ScopeSpanFits
<1>3. \A r : ResourceSpanGood(r) <=>
                /\ ResourceSpanReads(r)
                /\ Len(r.scope_spans) <= MaxArray
                /\ \A j \in DOMAIN r.scope_spans : ScopeSpanFits(r.scope_spans[j])
  BY <1>2 DEF ResourceSpanGood, ResourceSpanReads
<1>4. Good(m) <=> Fits(m) /\ \A i \in DOMAIN m : ResourceSpanReads(m[i])
  BY <1>3 DEF Good, Fits
<1> QED BY <1>4 DEF Expected, MsgpackDecode

\* The structure o holds the values of the first `done` keys of v, and nothing
\* else from the key `next` on.
HoldsMap(hungry, kind, v, o, done, next, order) ==
    /\ o = [x \in Fields(kind) |-> o[x]]
    /\ "flags" \in Fields(kind) => o.flags = 0
    /\ \A i \in 1..done :
          /\ AlikeValue(hungry, kind, order[kind][i], o[FieldFor(order[kind][i])],
                        UnValue(kind, order[kind][i], v[order[kind][i]]))
          /\ ValueGood(order[kind][i], v[order[kind][i]])
    /\ \A i \in next..EntryCount[kind] :
          \/ kind = "event" /\ order[kind][i] = "attributes"
          \/ o[FieldFor(order[kind][i])] = Blank(kind)[FieldFor(order[kind][i])]

\* The list o has `begun` elements, the first `done` of them those of v.
HoldsArray(hungry, kind, v, o, done, begun) ==
    /\ IsList(o) /\ Len(o) = begun
    /\ \A i \in 1..done : AlikeNode(hungry, kind, o[i], UnNode(kind, v[i])) /\ NodeGood(kind, v[i])

LEMMA ErasedIs ==
    ASSUME NEW kind, NEW o
    PROVE  /\ kind = "context" => Erased(kind, o) = [resourceSpans |-> NoIds(o.resourceSpans)]
           /\ kind = "resource_span" => Erased(kind, o) = NoIdsBelow(o)
           /\ kind = "scope_span" => Erased(kind, o) = NoIdsInScope(o)
           /\ kind = "span" => Erased(kind, o) = NoIdsInSpan(o)
           /\ kind \in FlatKinds => Erased(kind, o) = o
<1>1. kind = "context" => Erased(kind, o) = [resourceSpans |-> NoIds(o.resourceSpans)]
  BY Zenon DEF Erased
<1>2. kind = "resource_span" => Erased(kind, o) = NoIdsBelow(o)
  BY Zenon DEF Erased
<1>3. kind = "scope_span" => Erased(kind, o) = NoIdsInScope(o)
  BY Zenon DEF Erased
<1>4. kind = "span" => Erased(kind, o) = NoIdsInSpan(o)
  BY Zenon DEF Erased
<1>5. kind \in FlatKinds => Erased(kind, o) = o
  <2>1. kind \in FlatKinds => kind # "context" /\ kind # "resource_span" /\ kind # "scope_span" /\ kind # "span"
    BY DEF FlatKinds
  <2> QED BY <2>1, Zenon DEF Erased
<1> QED BY <1>1, <1>2, <1>3, <1>4, <1>5

LEMMA FlatAlike ==
    ASSUME NEW hungry, NEW kind \in FlatKinds, NEW a, NEW e
    PROVE  AlikeNode(hungry, kind, a, e) <=> a = e
BY ErasedIs DEF AlikeNode


LEMMA ListIs ==
    ASSUME NEW a, IsList(a)
    PROVE  a = [i \in 1..Len(a) |-> a[i]] /\ DOMAIN a = 1..Len(a)
BY DEF IsList

\* A structure whose fields have all come is the one that is expected.
LEMMA HeldIsAlike ==
    ASSUME NEW hungry \in BOOLEAN, NEW order \in Orders, NEW kind \in Kinds, NEW v, IsNode(kind, v), NEW o,
           NEW next, HoldsMap(hungry, kind, v, o, EntryCount[kind], next, order)
    PROVE  AlikeNode(hungry, kind, o, UnNode(kind, v)) /\ NodeGood(kind, v)
<1> PICK e : e = UnNode(kind, v)
  OBVIOUS
<1>1. \A key \in Range(Entries[kind]) :
         /\ AlikeValue(hungry, kind, key, o[FieldFor(key)], e[FieldFor(key)])
         /\ ValueGood(key, v[key])
  <2> TAKE key \in Range(Entries[kind])
  <2>1. PICK i \in 1..EntryCount[kind] : order[kind][i] = key
    BY OrderIs
  <2>2. AlikeValue(hungry, kind, key, o[FieldFor(key)], UnValue(kind, key, v[key])) /\ ValueGood(key, v[key])
    BY <2>1 DEF HoldsMap
  <2> QED BY <2>2, UnFields
<1>2. NodeGood(kind, v)
  BY <1>1, GoodByKeys
<1>3. /\ o = [x \in Fields(kind) |-> o[x]] /\ e = [x \in Fields(kind) |-> e[x]]
      /\ "flags" \in Fields(kind) => o.flags = e.flags
  BY UnFields DEF HoldsMap
<1>4. \A key \in ArrayKeys \cap Range(Entries[kind]) :
         /\ IsList(e[FieldFor(key)]) /\ IsList(o[FieldFor(key)])
         /\ Len(o[FieldFor(key)]) = Len(e[FieldFor(key)])
         /\ \A i \in 1..Len(e[FieldFor(key)]) :
               AlikeNode(hungry, Element[key], o[FieldFor(key)][i], e[FieldFor(key)][i])
  <2> TAKE key \in ArrayKeys \cap Range(Entries[kind])
  <2>1. AlikeValue(hungry, kind, key, o[FieldFor(key)], e[FieldFor(key)])
    BY <1>1
  <2>2. IsList(e[FieldFor(key)])
    <3>1. AreNodes(Element[key], v[key])
      BY NodeFields DEF IsValue
    <3>2. e[FieldFor(key)] = [i \in DOMAIN v[key] |-> UnNode(Element[key], v[key][i])]
      BY UnFields, UnValueIs
    <3>3. PICK n, w, k : n = Len(v[key]) /\ w = v[key] /\ k = Element[key]
      OBVIOUS
    <3>4. n \in Nat /\ DOMAIN w = 1..n
      BY <3>1, <3>3, ListFacts DEF AreNodes
    <3>5. PICK S : S = {UnNode(k, w[i]) : i \in 1..n}
      OBVIOUS
    <3>6. [i \in 1..n |-> UnNode(k, w[i])] \in [1..n -> S]
      BY <3>5
    <3>7. [i \in 1..n |-> UnNode(k, w[i])] \in Seq(S)
      BY <3>4, <3>6
    <3> QED BY <3>2, <3>3, <3>4, <3>7 DEF IsList
  <2> QED BY <2>1, <2>2 DEF AlikeValue
<1>5. \A key \in Range(Entries[kind]) \ ArrayKeys : ~(key \in IdKeys /\ kind = "span") =>
         o[FieldFor(key)] = e[FieldFor(key)]
  BY <1>1 DEF AlikeValue
<1>6. ASSUME ~hungry PROVE o = e
  <2>1. \A key \in Range(Entries[kind]) : o[FieldFor(key)] = e[FieldFor(key)]
    <3> TAKE key \in Range(Entries[kind])
    <3>1. CASE key \in ArrayKeys
      <4>1. PICK a, b : a = o[FieldFor(key)] /\ b = e[FieldFor(key)]
        OBVIOUS
      <4>2. IsList(a) /\ IsList(b) /\ Len(a) = Len(b) /\ \A i \in 1..Len(b) : a[i] = b[i]
        BY <1>4, <1>6, <3>1, <4>1 DEF AlikeNode
      <4>3. a = b
        BY <4>2, ListIs
      <4> QED BY <4>1, <4>3
    <3>2. CASE key \notin ArrayKeys
      BY <1>1, <1>6, <3>2 DEF AlikeValue
    <3> QED BY <3>1, <3>2
  <2>2. \A x \in Fields(kind) : o[x] = e[x]
    BY <1>3, <2>1, FieldOfKey
  <2> QED BY <1>3, <2>2
<1>7. Erased(kind, o) = Erased(kind, e)
  <2>1. CASE kind \in FlatKinds
    <3>1. \A key \in Range(Entries[kind]) : key \notin ArrayKeys /\ kind # "span"
      BY <2>1, KeysAre, KeysDiffer DEF FlatKinds
    <3>2. \A x \in Fields(kind) : o[x] = e[x]
      BY <1>3, <1>5, <3>1, FieldOfKey
    <3> QED BY <1>3, <3>2
  <2>2. CASE kind = "span"
    <3>1. \A key \in ArrayKeys \cap Range(Entries[kind]) : o[FieldFor(key)] = e[FieldFor(key)]
      <4> TAKE key \in ArrayKeys \cap Range(Entries[kind])
      <4>1. Element[key] \in FlatKinds
        BY <2>2, KeysAre, KeysDiffer DEF FlatKinds
      <4>2. PICK a, b : a = o[FieldFor(key)] /\ b = e[FieldFor(key)]
        OBVIOUS
      <4>3. IsList(a) /\ IsList(b) /\ Len(a) = Len(b) /\ \A i \in 1..Len(b) : a[i] = b[i]
        BY <1>4, <4>1, <4>2, FlatAlike
      <4>4. a = b
        BY <4>3, ListIs
      <4> QED BY <4>2, <4>4
    <3>2. \A key \in Range(Entries[kind]) \ IdKeys : o[FieldFor(key)] = e[FieldFor(key)]
      BY <1>5, <3>1
    <3>3. \A x \in Fields(kind) \ IdKeys : o[x] = e[x]
      <4> TAKE x \in Fields(kind) \ IdKeys
      <4>1. CASE x = "flags"
        BY <1>3, <4>1
      <4>2. CASE x # "flags"
        <5>1. PICK key \in Range(Entries[kind]) : x = FieldFor(key)
          BY <4>2, FieldOfKey
        <5>2. key \notin IdKeys
          BY <5>1, FieldForIs DEF IdKeys
        <5> QED BY <3>2, <5>1, <5>2
      <4> QED BY <4>1, <4>2
    <3>4. NoIdsInSpan(o) = NoIdsInSpan(e)
      <4>1. PICK D : D = Fields(kind)
        OBVIOUS
      <4>2. o = [x \in D |-> o[x]] /\ e = [x \in D |-> e[x]]
        BY <1>3, <4>1
      <4>3. \A x \in D : x \in IdKeys \/ o[x] = e[x]
        BY <3>3, <4>1
      <4>4. /\ NoIdsInSpan(o) = [x \in D |-> IF x \in IdKeys THEN NULL ELSE o[x]]
            /\ NoIdsInSpan(e) = [x \in D |-> IF x \in IdKeys THEN NULL ELSE e[x]]
        BY <4>2 DEF NoIdsInSpan, IdKeys
      <4> QED BY <4>3, <4>4
    <3> QED BY <2>2, <3>4, ErasedIs
  <2>3. CASE kind = "scope_span"
    <3>1. /\ o = [x \in {"instrumentation_scope", "schema_url", "spans"} |-> o[x]]
          /\ e = [x \in {"instrumentation_scope", "schema_url", "spans"} |-> e[x]]
      BY <1>3, <2>3, FieldsAre
    <3>2. o.instrumentation_scope = e.instrumentation_scope /\ o.schema_url = e.schema_url
      <4>1. {"scope", "schema_url"} \subseteq Range(Entries[kind]) \ ArrayKeys
        BY <2>3, KeysAre, KeysDiffer
      <4> QED BY <1>5, <2>3, <4>1, FieldForIs
    <3>3. PICK a, b : a = o.spans /\ b = e.spans
      OBVIOUS
    <3>4. /\ IsList(a) /\ IsList(b) /\ Len(a) = Len(b)
          /\ \A i \in 1..Len(b) : NoIdsInSpan(a[i]) = NoIdsInSpan(b[i])
      <4>1. "spans" \in ArrayKeys \cap Range(Entries[kind]) /\ FieldFor("spans") = "spans"
            /\ Element["spans"] = "span"
        BY <2>3, KeysAre, KeysDiffer, FieldForIs
      <4>2. /\ IsList(a) /\ IsList(b) /\ Len(a) = Len(b)
            /\ \A i \in 1..Len(b) : AlikeNode(hungry, "span", a[i], b[i])
        BY <1>4, <3>3, <4>1
      <4> QED BY <4>2, ErasedIs DEF AlikeNode
    <3>5. [i \in DOMAIN a |-> NoIdsInSpan(a[i])] = [i \in DOMAIN b |-> NoIdsInSpan(b[i])]
      BY <3>4, ListIs
    <3>6. NoIdsInScope(o) = NoIdsInScope(e)
      BY <3>1, <3>2, <3>3, <3>5 DEF NoIdsInScope
    <3> QED BY <2>3, <3>6, ErasedIs
  <2>4. CASE kind = "resource_span"
    <3>1. /\ o = [x \in {"resource", "schema_url", "scope_spans"} |-> o[x]]
          /\ e = [x \in {"resource", "schema_url", "scope_spans"} |-> e[x]]
      BY <1>3, <2>4, FieldsAre
    <3>2. o.resource = e.resource /\ o.schema_url = e.schema_url
      <4>1. {"resource", "schema_url"} \subseteq Range(Entries[kind]) \ ArrayKeys
        BY <2>4, KeysAre, KeysDiffer
      <4> QED BY <1>5, <2>4, <4>1, FieldForIs
    <3>3. PICK a, b : a = o.scope_spans /\ b = e.scope_spans
      OBVIOUS
    <3>4. /\ IsList(a) /\ IsList(b) /\ Len(a) = Len(b)
          /\ \A i \in 1..Len(b) : NoIdsInScope(a[i]) = NoIdsInScope(b[i])
      <4>1. "scope_spans" \in ArrayKeys \cap Range(Entries[kind]) /\ FieldFor("scope_spans") = "scope_spans"
            /\ Element["scope_spans"] = "scope_span"
        BY <2>4, KeysAre, KeysDiffer, FieldForIs
      <4>2. /\ IsList(a) /\ IsList(b) /\ Len(a) = Len(b)
            /\ \A i \in 1..Len(b) : AlikeNode(hungry, "scope_span", a[i], b[i])
        BY <1>4, <3>3, <4>1
      <4> QED BY <4>2, ErasedIs DEF AlikeNode
    <3>5. [i \in DOMAIN a |-> NoIdsInScope(a[i])] = [i \in DOMAIN b |-> NoIdsInScope(b[i])]
      BY <3>4, ListIs
    <3>6. NoIdsBelow(o) = NoIdsBelow(e)
      BY <3>1, <3>2, <3>3, <3>5 DEF NoIdsBelow
    <3> QED BY <2>4, <3>6, ErasedIs
  <2>5. CASE kind = "context"
    <3>3. PICK a, b : a = o.resourceSpans /\ b = e.resourceSpans
      OBVIOUS
    <3>4. /\ IsList(a) /\ IsList(b) /\ Len(a) = Len(b)
          /\ \A i \in 1..Len(b) : NoIdsBelow(a[i]) = NoIdsBelow(b[i])
      <4>1. /\ "resourceSpans" \in ArrayKeys \cap Range(Entries[kind])
            /\ FieldFor("resourceSpans") = "resourceSpans"
            /\ Element["resourceSpans"] = "resource_span"
        BY <2>5, KeysAre, KeysDiffer, FieldForIs
      <4>2. /\ IsList(a) /\ IsList(b) /\ Len(a) = Len(b)
            /\ \A i \in 1..Len(b) : AlikeNode(hungry, "resource_span", a[i], b[i])
        BY <1>4, <3>3, <4>1
      <4> QED BY <4>2, ErasedIs DEF AlikeNode
    <3>5. NoIds(a) = NoIds(b)
      BY <3>4, ListIs DEF NoIds
    <3> QED BY <2>5, <3>3, <3>5, ErasedIs
  <2> QED BY <2>1, <2>2, <2>3, <2>4, <2>5 DEF Kinds, MapLevel, FlatKinds
<1> QED BY <1>2, <1>6, <1>7 DEF AlikeNode

-----------------------------------------------------------------------------
(* Where in the context a frame is read to.                                *)

Slot == [resource_span |-> "resourceSpans", scope_span |-> "scope_spans", span |-> "spans",
         event |-> "events", link |-> "links"]

\* The key under which a frame is found in the map around it.
SlotKey(g) == IF g.what = "array" THEN Slot[g.kind] ELSE g.kind

Loc(ctx, f) ==
    IF f.what = "array" THEN List(ctx, f.kind)
    ELSE IF f.kind = "context" THEN [resourceSpans |-> ctx]
    ELSE Object(ctx, f.kind)

\* The frames are those of a path of the grammar.
Lineage(s) ==
    /\ IsList(s) /\ s # <<>>
    /\ \A i \in 1..Len(s) :
          /\ \/ s[i].what = "map" /\ s[i].kind \in Kinds
             \/ s[i].what = "array" /\ s[i].kind \in DOMAIN ArrayLevel
          /\ Level(s[i]) = i
    /\ \A i \in 1..(Len(s) - 1) :
          /\ s[i].what = "array" => s[i + 1].what = "map" /\ s[i + 1].kind = s[i].kind
          /\ s[i].what = "map" => SlotKey(s[i + 1]) \in Range(Entries[s[i].kind])

IsAt(s, i, what, kind) == s[i].what = what /\ s[i].kind = kind

LEMMA ByLevel ==
    ASSUME NEW f, \/ f.what = "map" /\ f.kind \in Kinds
                  \/ f.what = "array" /\ f.kind \in DOMAIN ArrayLevel
    PROVE  /\ Level(f) \in 1..9
           /\ Level(f) = 1 => f.what = "map" /\ f.kind = "context"
           /\ Level(f) = 2 => f.what = "array" /\ f.kind = "resource_span"
           /\ Level(f) = 3 => f.what = "map" /\ f.kind = "resource_span"
           /\ Level(f) = 4 => \/ f.what = "map" /\ f.kind = "resource"
                              \/ f.what = "array" /\ f.kind = "scope_span"
           /\ Level(f) = 5 => f.what = "map" /\ f.kind = "scope_span"
           /\ Level(f) = 6 => \/ f.what = "map" /\ f.kind = "scope"
                              \/ f.what = "array" /\ f.kind = "span"
           /\ Level(f) = 7 => f.what = "map" /\ f.kind = "span"
           /\ Level(f) = 8 => \/ f.what = "map" /\ f.kind = "status"
                              \/ f.what = "array" /\ f.kind \in {"event", "link"}
           /\ Level(f) = 9 => f.what = "map" /\ f.kind \in {"event", "link"}
<1>1. CASE f.what = "map" /\ f.kind \in Kinds
    BY <1>1 DEF Level, Kinds, MapLevel
<1>2. CASE f.what = "array" /\ f.kind \in DOMAIN ArrayLevel
    BY <1>2 DEF Level, ArrayLevel
<1>3. QED
    BY <1>1, <1>2

\* All that a depth leaves open is what its innermost frame is.
LEMMA LineageIs ==
    ASSUME NEW s, Lineage(s)
    PROVE  /\ Len(s) \in 1..9 /\ IsAt(s, 1, "map", "context")
           /\ Len(s) >= 2 => IsAt(s, 2, "array", "resource_span")
           /\ Len(s) >= 3 => IsAt(s, 3, "map", "resource_span")
           /\ Len(s) >= 5 => IsAt(s, 4, "array", "scope_span") /\ IsAt(s, 5, "map", "scope_span")
           /\ Len(s) >= 7 => IsAt(s, 6, "array", "span") /\ IsAt(s, 7, "map", "span")
           /\ Len(s) >= 9 => IsAt(s, 8, "array", s[9].kind) /\ IsAt(s, 9, "map", s[9].kind)
           /\ Len(s) >= 9 => s[9].kind \in {"event", "link"}
<1>0. PICK n : n = Len(s)
    OBVIOUS
<1>1. n \in Nat /\ n >= 1
    BY <1>0, ListFacts DEF Lineage
<1>2. \A i \in 1..n : /\ \/ s[i].what = "map" /\ s[i].kind \in Kinds
                         \/ s[i].what = "array" /\ s[i].kind \in DOMAIN ArrayLevel
                      /\ Level(s[i]) = i
    BY <1>0 DEF Lineage
<1>3. \A i \in 1..(n - 1) :
          /\ s[i].what = "array" => s[i + 1].what = "map" /\ s[i + 1].kind = s[i].kind
          /\ s[i].what = "map" => SlotKey(s[i + 1]) \in Range(Entries[s[i].kind])
    BY <1>0 DEF Lineage
<1>4. n \in 1..9
  <2>1. n \in 1..n
      BY <1>1
  <2>2. Level(s[n]) \in 1..9 /\ Level(s[n]) = n
      BY <2>1, <1>2, ByLevel
  <2>3. QED
      BY <2>2
<1>5. /\ \A i \in 1..9 : i <= n => i \in 1..n
      /\ \A i \in 1..9 : i < n => i \in 1..(n - 1)
    BY <1>1
<1>6. IsAt(s, 1, "map", "context") /\ (n >= 2 => IsAt(s, 2, "array", "resource_span"))
    BY <1>1, <1>2, <1>5, ByLevel DEF IsAt
<1>7. /\ n >= 3 => IsAt(s, 3, "map", "resource_span")
      /\ n >= 5 => IsAt(s, 5, "map", "scope_span")
      /\ n >= 7 => IsAt(s, 7, "map", "span")
      /\ n >= 9 => IsAt(s, 9, "map", s[9].kind) /\ s[9].kind \in {"event", "link"}
    BY <1>1, <1>2, <1>5, ByLevel DEF IsAt
<1>8. n >= 5 => IsAt(s, 4, "array", "scope_span")
  <2>1. SUFFICES ASSUME n >= 5
                 PROVE  s[4].what # "map"
      BY <1>1, <1>2, <1>5, ByLevel DEF IsAt
  <2>2. SUFFICES ASSUME s[4].what = "map"
                 PROVE  FALSE
      OBVIOUS
  <2>3. 4 \in 1..n /\ 4 \in 1..(n - 1) /\ 4 + 1 = 5
      BY <2>1, <1>5, <1>1
  <2>4. s[4].kind = "resource" /\ SlotKey(s[5]) = "scope_span"
      BY <1>2, <1>7, <2>1, <2>2, <2>3, ByLevel DEF IsAt, SlotKey
  <2>5. QED
      BY <1>3, <2>2, <2>3, <2>4, KeysAre DEF Kinds, MapLevel
<1>9. n >= 7 => IsAt(s, 6, "array", "span")
  <2>1. SUFFICES ASSUME n >= 7
                 PROVE  s[6].what # "map"
      BY <1>1, <1>2, <1>5, ByLevel DEF IsAt
  <2>2. SUFFICES ASSUME s[6].what = "map"
                 PROVE  FALSE
      OBVIOUS
  <2>3. 6 \in 1..n /\ 6 \in 1..(n - 1) /\ 6 + 1 = 7
      BY <2>1, <1>5, <1>1
  <2>4. s[6].kind = "scope" /\ SlotKey(s[7]) = "span"
      BY <1>2, <1>7, <2>1, <2>2, <2>3, ByLevel DEF IsAt, SlotKey
  <2>5. QED
      BY <1>3, <2>2, <2>3, <2>4, KeysAre DEF Kinds, MapLevel
<1>10. n >= 9 => IsAt(s, 8, "array", s[9].kind)
  <2>1. SUFFICES ASSUME n >= 9
                 PROVE  IsAt(s, 8, "array", s[9].kind)
      OBVIOUS
  <2>2. 8 \in 1..n /\ 8 \in 1..(n - 1) /\ 8 + 1 = 9
      BY <2>1, <1>5, <1>1
  <2>3. CASE s[8].what = "map"
    <3>1. s[8].kind = "status" /\ SlotKey(s[9]) \in {"event", "link"}
        BY <1>2, <1>7, <2>1, <2>2, <2>3, ByLevel DEF IsAt, SlotKey
    <3>2. QED
        BY <1>3, <2>2, <2>3, <3>1, KeysAre DEF Kinds, MapLevel
  <2>4. CASE s[8].what = "array"
      BY <2>4, <1>3, <2>2 DEF IsAt
  <2>5. QED
      BY <2>3, <2>4, <2>2, <1>2
<1>11. QED
    BY <1>0, <1>4, <1>6, <1>7, <1>8, <1>9, <1>10

-----------------------------------------------------------------------------
(* What a write leaves as it is: on the way down to the structure that is  *)
(* replaced, everything but that way.                                      *)

SameButLast(l, m) ==
    /\ IsList(l) /\ l # <<>> /\ IsList(m) /\ Len(m) = Len(l)
    /\ \A i \in 1..(Len(l) - 1) : m[i] = l[i]

SameBut(o, p, x) == p = [o EXCEPT ![x] = p[x]]

Beside(f, g, o, p) ==
    IF f.what = "array" THEN SameButLast(o, p) ELSE SameBut(o, p, FieldFor(SlotKey(g)))

LEMMA LastStays ==
    ASSUME NEW l, IsList(l), l # <<>>, NEW x
    PROVE  SameButLast(l, WithLast(l, x)) /\ Last(WithLast(l, x)) = x
<1>1. IsList(WithLast(l, x)) /\ Last(WithLast(l, x)) = x
    BY LastReplaced
<1>0. PICK n : n = Len(l)
    OBVIOUS
<1>2. DOMAIN l = 1..n /\ n \in Nat
    BY <1>0, ListFacts
<1>2a. \A i \in 1..(n - 1) : i \in 1..n /\ i # n
    BY <1>2
<1>3. DOMAIN WithLast(l, x) = DOMAIN l /\ \A i \in 1..(n - 1) : WithLast(l, x)[i] = l[i]
    BY <1>0, <1>2, <1>2a DEF WithLast
<1>4. Len(WithLast(l, x)) = Len(l)
  <2>1. PICK m, k : m = WithLast(l, x) /\ k = Len(m)
      OBVIOUS
  <2>2. k \in Nat /\ DOMAIN m = 1..k
      BY <1>1, <2>1, ListFacts
  <2>3. 1..k = 1..n
      BY <1>2, <1>3, <2>1, <2>2
  <2>4. QED
      BY <1>0, <1>2, <2>1, <2>2, <2>3
<1>5. QED
    BY <1>0, <1>1, <1>3, <1>4 DEF SameButLast

LEMMA FieldStays ==
    ASSUME NEW o, NEW x, x \in DOMAIN o, NEW v
    PROVE  SameBut(o, [o EXCEPT ![x] = v], x) /\ [o EXCEPT ![x] = v][x] = v
BY DEF SameBut

\* Down to a resource span, a scope span, a span, and an event or a link.
Around3(ctx, t) == SameButLast(ctx, t)

Around5(ctx, t) ==
    /\ Around3(ctx, t)
    /\ SameBut(Last(ctx), Last(t), "scope_spans")
    /\ SameButLast(Last(ctx).scope_spans, Last(t).scope_spans)

Around7(ctx, t) ==
    /\ Around5(ctx, t)
    /\ SameBut(Last(Last(ctx).scope_spans), Last(Last(t).scope_spans), "spans")
    /\ SameButLast(Last(Last(ctx).scope_spans).spans, Last(Last(t).scope_spans).spans)

Around9(ctx, t, field) ==
    /\ Around7(ctx, t)
    /\ SameBut(TheSpan(ctx), TheSpan(t), field)
    /\ SameButLast(TheSpan(ctx)[field], TheSpan(t)[field])

LEMMA Resource3 ==
    ASSUME NEW ctx, Open(3, ctx), NEW r
    PROVE  Around3(ctx, WithLast(ctx, r)) /\ Last(WithLast(ctx, r)) = r
BY LastStays DEF Open, Around3

LEMMA Scope5 ==
    ASSUME NEW ctx, Open(5, ctx), NEW s
    PROVE  LET t == WithScopeSpan(ctx, s)
           IN  Around5(ctx, t) /\ Last(Last(t).scope_spans) = s
<1>1. PICK r : r = Last(ctx)
    OBVIOUS
<1>2. PICK l : l = WithLast(r.scope_spans, s)
    OBVIOUS
<1>3. "scope_spans" \in DOMAIN r /\ IsList(r.scope_spans) /\ r.scope_spans # <<>> /\ Open(3, ctx)
    BY <1>1 DEF Open
<1>4. SameButLast(r.scope_spans, l) /\ Last(l) = s
    BY <1>2, <1>3, LastStays
<1>5. PICK q : q = [r EXCEPT !["scope_spans"] = l]
    OBVIOUS
<1>6. SameBut(r, q, "scope_spans") /\ q["scope_spans"] = l
    BY <1>3, <1>5, FieldStays
<1>7. WithScopeSpan(ctx, s) = WithLast(ctx, q)
    BY <1>1, <1>2, <1>5, ObjectIs DEF WithScopeSpan
<1>8. Around3(ctx, WithLast(ctx, q)) /\ Last(WithLast(ctx, q)) = q
    BY <1>3, Resource3
<1>9. QED
    BY <1>1, <1>4, <1>6, <1>7, <1>8 DEF Around5

LEMMA Span7 ==
    ASSUME NEW ctx, Open(7, ctx), NEW p
    PROVE  LET t == WithSpan(ctx, p)
           IN  Around7(ctx, t) /\ TheSpan(t) = p
<1>1. PICK r : r = Last(Last(ctx).scope_spans)
    OBVIOUS
<1>2. PICK l : l = WithLast(r.spans, p)
    OBVIOUS
<1>3. "spans" \in DOMAIN r /\ IsList(r.spans) /\ r.spans # <<>> /\ Open(5, ctx)
    BY <1>1 DEF Open
<1>4. SameButLast(r.spans, l) /\ Last(l) = p
    BY <1>2, <1>3, LastStays
<1>5. PICK q : q = [r EXCEPT !["spans"] = l]
    OBVIOUS
<1>6. SameBut(r, q, "spans") /\ q["spans"] = l
    BY <1>3, <1>5, FieldStays
<1>7. WithSpan(ctx, p) = WithScopeSpan(ctx, q)
    BY <1>1, <1>2, <1>5, ObjectIs DEF WithSpan
<1>8. /\ Around5(ctx, WithScopeSpan(ctx, q))
      /\ Last(Last(WithScopeSpan(ctx, q)).scope_spans) = q
    BY <1>3, Scope5
<1>9. QED
    BY <1>1, <1>4, <1>6, <1>7, <1>8 DEF Around7, TheSpan

LEMMA Part9 ==
    ASSUME NEW ctx, Open(7, ctx), NEW field \in {"events", "links"}, TheSpan(ctx)[field] # <<>>, NEW x,
           NEW t, t = WithSpan(ctx, [TheSpan(ctx) EXCEPT ![field] = WithLast(TheSpan(ctx)[field], x)])
    PROVE  Around9(ctx, t, field) /\ Last(TheSpan(t)[field]) = x
<1>1. PICK r : r = TheSpan(ctx)
    OBVIOUS
<1>2. PICK l : l = WithLast(r[field], x)
    OBVIOUS
<1>3. field \in DOMAIN r /\ IsList(r[field]) /\ r[field] # <<>>
    BY <1>1 DEF Open
<1>4. SameButLast(r[field], l) /\ Last(l) = x
    BY <1>2, <1>3, LastStays
<1>5. PICK q : q = [r EXCEPT ![field] = l]
    OBVIOUS
<1>6. SameBut(r, q, field) /\ q[field] = l
    BY <1>3, <1>5, FieldStays
<1>6a. t = WithSpan(ctx, q)
    BY <1>1, <1>2, <1>5, Zenon
<1>7. Around7(ctx, t) /\ TheSpan(t) = q
    BY <1>6a, Span7
<1>8. QED
    BY <1>1, <1>4, <1>6, <1>7 DEF Around9

\* The structure of a map replaced.
Replaced(ctx, kind, new, t) ==
    /\ Object(t, kind) = new
    /\ Around3(ctx, t)
    /\ kind = "resource" => SameBut(Last(ctx), Last(t), "resource")
    /\ kind \in {"scope_span", "scope", "span", "status", "event", "link"} => Around5(ctx, t)
    /\ kind = "scope" => SameBut(Last(Last(ctx).scope_spans), Last(Last(t).scope_spans),
                                 "instrumentation_scope")
    /\ kind \in {"span", "status", "event", "link"} => Around7(ctx, t)
    /\ kind = "status" => SameBut(TheSpan(ctx), TheSpan(t), "status")
    /\ kind = "event" => Around9(ctx, t, "events")
    /\ kind = "link" => Around9(ctx, t, "links")

LEMMA OpenDown ==
    ASSUME NEW ctx, NEW kind \in Kinds \ {"context"}, Open(MapLevel[kind], ctx)
    PROVE  /\ Open(3, ctx)
           /\ kind \in {"scope_span", "scope", "span", "status", "event", "link"} => Open(5, ctx)
           /\ kind \in {"span", "status", "event", "link"} => Open(7, ctx)
<1>1. PICK d : d = MapLevel[kind]
    OBVIOUS
<1>2. /\ d \in 3..9
      /\ kind \in {"scope_span", "scope", "span", "status", "event", "link"} => d >= 5
      /\ kind \in {"span", "status", "event", "link"} => d >= 7
    BY <1>1 DEF Kinds, MapLevel
<1>3. QED
    BY <1>1, <1>2 DEF Open

LEMMA StructureReplaced ==
    ASSUME NEW ctx, NEW kind \in Kinds \ {"context"}, Open(MapLevel[kind], ctx),
           kind = "event" => TheSpan(ctx).events # <<>>,
           kind = "link" => TheSpan(ctx).links # <<>>, NEW new, NEW t, t = With(ctx, kind, new)
    PROVE  Replaced(ctx, kind, new, t)
<1>0. /\ Open(3, ctx)
      /\ kind \in {"scope_span", "scope", "span", "status", "event", "link"} => Open(5, ctx)
      /\ kind \in {"span", "status", "event", "link"} => Open(7, ctx)
    BY OpenDown
<1>1. CASE kind = "resource_span"
  <2>0. With(ctx, "resource_span", new) = WithLast(ctx, new)
      BY WithIs, Zenon
  <2>1. t = WithLast(ctx, new)
      BY <1>1, <2>0, Zenon
  <2>2. Around3(ctx, t) /\ Last(t) = new
      BY <1>0, <2>1, Resource3
  <2>3. QED
      BY <1>1, <2>2, ObjectIs DEF Replaced
<1>2. CASE kind = "resource"
  <2>1. PICK r, q : r = Last(ctx) /\ q = [r EXCEPT !["resource"] = new]
      OBVIOUS
  <2>2. "resource" \in DOMAIN r
      BY <1>0, <2>1 DEF Open
  <2>3. SameBut(r, q, "resource") /\ q["resource"] = new
      BY <2>1, <2>2, FieldStays
  <2>4. With(ctx, "resource", new) = WithLast(ctx, [Last(ctx) EXCEPT !["resource"] = new])
      BY WithIs, Zenon
  <2>5. t = WithLast(ctx, q)
      BY <1>2, <2>1, <2>4, Zenon
  <2>6. Around3(ctx, t) /\ Last(t) = q
      BY <1>0, <2>5, Resource3
  <2>7. Object(t, kind) = new
      BY <1>2, <2>3, <2>6, ObjectIs
  <2>8. QED
      BY <1>2, <2>1, <2>3, <2>6, <2>7 DEF Replaced
<1>3. CASE kind = "scope_span"
  <2>0. With(ctx, "scope_span", new) = WithScopeSpan(ctx, new)
      BY WithIs, Zenon
  <2>1. t = WithScopeSpan(ctx, new)
      BY <1>3, <2>0, Zenon
  <2>2. Around5(ctx, t) /\ Last(Last(t).scope_spans) = new
      BY <1>0, <1>3, <2>1, Scope5
  <2>3. Around3(ctx, t) /\ Object(t, kind) = new
      BY <1>3, <2>2, ObjectIs DEF Around5
  <2>4. QED
      BY <1>3, <2>2, <2>3 DEF Replaced
<1>4. CASE kind = "scope"
  <2>1. PICK r, q : r = Last(Last(ctx).scope_spans) /\ q = [r EXCEPT !["instrumentation_scope"] = new]
      OBVIOUS
  <2>2. "instrumentation_scope" \in DOMAIN r /\ Open(5, ctx)
      BY <1>0, <1>4, <2>1 DEF Open
  <2>3. SameBut(r, q, "instrumentation_scope") /\ q["instrumentation_scope"] = new
      BY <2>1, <2>2, FieldStays
  <2>4. With(ctx, "scope", new)
          = WithScopeSpan(ctx, [Last(Last(ctx).scope_spans) EXCEPT !["instrumentation_scope"] = new])
      BY WithIs, Zenon
  <2>5. t = WithScopeSpan(ctx, q)
      BY <1>4, <2>1, <2>4, Zenon
  <2>6. Around5(ctx, t) /\ Last(Last(t).scope_spans) = q
      BY <2>2, <2>5, Scope5
  <2>7. Around3(ctx, t) /\ Object(t, kind) = new
      BY <1>4, <2>3, <2>6, ObjectIs DEF Around5
  <2>8. QED
      BY <1>4, <2>1, <2>3, <2>6, <2>7 DEF Replaced
<1>5. CASE kind = "span"
  <2>0. With(ctx, "span", new) = WithSpan(ctx, new)
      BY WithIs, Zenon
  <2>1. t = WithSpan(ctx, new)
      BY <1>5, <2>0, Zenon
  <2>2. Around7(ctx, t) /\ TheSpan(t) = new
      BY <1>0, <1>5, <2>1, Span7
  <2>3. Around3(ctx, t) /\ Around5(ctx, t) /\ Object(t, kind) = new
      BY <1>5, <2>2, ObjectIs DEF Around5, Around7
  <2>4. QED
      BY <1>5, <2>2, <2>3 DEF Replaced
<1>6. CASE kind = "status"
  <2>1. PICK r, q : r = TheSpan(ctx) /\ q = [r EXCEPT !["status"] = new]
      OBVIOUS
  <2>2. "status" \in DOMAIN r /\ Open(7, ctx)
      BY <1>0, <1>6, <2>1 DEF Open
  <2>3. SameBut(r, q, "status") /\ q["status"] = new
      BY <2>1, <2>2, FieldStays
  <2>4. With(ctx, "status", new) = WithSpan(ctx, [TheSpan(ctx) EXCEPT !["status"] = new])
      BY WithIs, Zenon
  <2>5. t = WithSpan(ctx, q)
      BY <1>6, <2>1, <2>4, Zenon
  <2>6. Around7(ctx, t) /\ TheSpan(t) = q
      BY <2>2, <2>5, Span7
  <2>7. Around3(ctx, t) /\ Around5(ctx, t) /\ Object(t, kind) = new
      BY <1>6, <2>3, <2>6, ObjectIs DEF Around5, Around7
  <2>8. QED
      BY <1>6, <2>1, <2>3, <2>6, <2>7 DEF Replaced
<1>7. ASSUME NEW field \in {"events", "links"}, TheSpan(ctx)[field] # <<>>, Open(7, ctx),
             t = WithSpan(ctx, [TheSpan(ctx) EXCEPT ![field] = WithLast(TheSpan(ctx)[field], new)])
      PROVE  /\ Around9(ctx, t, field) /\ Around7(ctx, t) /\ Around5(ctx, t) /\ Around3(ctx, t)
             /\ Last(TheSpan(t)[field]) = new
  <2>1. Around9(ctx, t, field) /\ Last(TheSpan(t)[field]) = new
      BY <1>7, Part9, Zenon
  <2>2. QED
      BY <2>1 DEF Around9, Around7, Around5
<1>8. CASE kind = "event"
  <2>1. t = WithSpan(ctx, [TheSpan(ctx) EXCEPT !["events"] = WithLast(TheSpan(ctx)["events"], new)])
      BY <1>8, WithIs, Zenon
  <2>2. TheSpan(ctx)["events"] # <<>> /\ Open(7, ctx)
      BY <1>0, <1>8
  <2>3. /\ Around9(ctx, t, "events") /\ Around7(ctx, t) /\ Around5(ctx, t) /\ Around3(ctx, t)
        /\ Last(TheSpan(t)["events"]) = new
      BY <1>7, <2>1, <2>2
  <2>4. Object(t, kind) = new
      BY <1>8, <2>3, ObjectIs
  <2>5. QED
      BY <1>8, <2>3, <2>4 DEF Replaced
<1>9. CASE kind = "link"
  <2>1. t = WithSpan(ctx, [TheSpan(ctx) EXCEPT !["links"] = WithLast(TheSpan(ctx)["links"], new)])
      BY <1>9, WithIs, Zenon
  <2>2. TheSpan(ctx)["links"] # <<>> /\ Open(7, ctx)
      BY <1>0, <1>9
  <2>3. /\ Around9(ctx, t, "links") /\ Around7(ctx, t) /\ Around5(ctx, t) /\ Around3(ctx, t)
        /\ Last(TheSpan(t)["links"]) = new
      BY <1>7, <2>1, <2>2
  <2>4. Object(t, kind) = new
      BY <1>9, <2>3, ObjectIs
  <2>5. QED
      BY <1>9, <2>3, <2>4 DEF Replaced
<1>10. QED
    BY <1>1, <1>2, <1>3, <1>4, <1>5, <1>6, <1>8, <1>9 DEF Kinds, MapLevel

LEMMA SlotIs ==
    ASSUME NEW g
    PROVE  /\ g.what = "array" /\ g.kind = "resource_span" => FieldFor(SlotKey(g)) = "resourceSpans"
           /\ g.what = "array" /\ g.kind = "scope_span" => FieldFor(SlotKey(g)) = "scope_spans"
           /\ g.what = "array" /\ g.kind = "span" => FieldFor(SlotKey(g)) = "spans"
           /\ g.what = "array" /\ g.kind = "event" => FieldFor(SlotKey(g)) = "events"
           /\ g.what = "array" /\ g.kind = "link" => FieldFor(SlotKey(g)) = "links"
           /\ g.what = "map" /\ g.kind = "resource" => FieldFor(SlotKey(g)) = "resource"
           /\ g.what = "map" /\ g.kind = "scope" => FieldFor(SlotKey(g)) = "instrumentation_scope"
           /\ g.what = "map" /\ g.kind = "status" => FieldFor(SlotKey(g)) = "status"
BY FieldForIs DEF SlotKey, Slot

LEMMA LocIs ==
    ASSUME NEW ctx, NEW f
    PROVE  /\ f.what = "map" /\ f.kind = "context" => Loc(ctx, f) = [resourceSpans |-> ctx]
           /\ f.what = "map" /\ f.kind = "resource_span" => Loc(ctx, f) = Last(ctx)
           /\ f.what = "map" /\ f.kind = "resource" => Loc(ctx, f) = Last(ctx).resource
           /\ f.what = "map" /\ f.kind = "scope_span" => Loc(ctx, f) = Last(Last(ctx).scope_spans)
           /\ f.what = "map" /\ f.kind = "scope" =>
                 Loc(ctx, f) = Last(Last(ctx).scope_spans).instrumentation_scope
           /\ f.what = "map" /\ f.kind = "span" => Loc(ctx, f) = TheSpan(ctx)
           /\ f.what = "map" /\ f.kind = "status" => Loc(ctx, f) = TheSpan(ctx).status
           /\ f.what = "map" /\ f.kind = "event" => Loc(ctx, f) = Last(TheSpan(ctx).events)
           /\ f.what = "map" /\ f.kind = "link" => Loc(ctx, f) = Last(TheSpan(ctx).links)
           /\ f.what = "map" /\ f.kind # "context" => Loc(ctx, f) = Object(ctx, f.kind)
           /\ f.what = "array" /\ f.kind = "resource_span" => Loc(ctx, f) = ctx
           /\ f.what = "array" /\ f.kind = "scope_span" => Loc(ctx, f) = Last(ctx).scope_spans
           /\ f.what = "array" /\ f.kind = "span" => Loc(ctx, f) = Last(Last(ctx).scope_spans).spans
           /\ f.what = "array" /\ f.kind = "event" => Loc(ctx, f) = TheSpan(ctx).events
           /\ f.what = "array" /\ f.kind = "link" => Loc(ctx, f) = TheSpan(ctx).links
<1>1. f.what = "map" /\ f.kind = "context" => Loc(ctx, f) = [resourceSpans |-> ctx]
    BY DEF Loc
<1>2. f.what = "map" /\ f.kind # "context" => Loc(ctx, f) = Object(ctx, f.kind)
    BY DEF Loc
<1>3. f.what = "array" => Loc(ctx, f) = List(ctx, f.kind)
    BY DEF Loc
<1>4. /\ List(ctx, "resource_span") = ctx
      /\ List(ctx, "scope_span") = Last(ctx).scope_spans
      /\ List(ctx, "span") = Last(Last(ctx).scope_spans).spans
      /\ List(ctx, "event") = TheSpan(ctx).events
      /\ List(ctx, "link") = TheSpan(ctx).links
    BY ObjectIs DEF List, Container
<1>5. QED
    BY <1>1, <1>2, <1>3, <1>4, ObjectIs

LEMMA DownToMap ==
    ASSUME NEW s, Lineage(s), NEW n \in 2..Len(s), s[n].what = "map", NEW ctx, NEW t, NEW new,
           Replaced(ctx, s[n].kind, new, t), NEW i \in 1..(n - 1)
    PROVE  Beside(s[i], s[i + 1], Loc(ctx, s[i]), Loc(t, s[i]))
<1>0. PICK m : m = Len(s)
    OBVIOUS
<1>1. /\ m \in 1..9 /\ IsAt(s, 1, "map", "context")
      /\ m >= 2 => IsAt(s, 2, "array", "resource_span")
      /\ m >= 3 => IsAt(s, 3, "map", "resource_span")
      /\ m >= 5 => IsAt(s, 4, "array", "scope_span") /\ IsAt(s, 5, "map", "scope_span")
      /\ m >= 7 => IsAt(s, 6, "array", "span") /\ IsAt(s, 7, "map", "span")
      /\ m >= 9 => IsAt(s, 8, "array", s[9].kind) /\ IsAt(s, 9, "map", s[9].kind)
      /\ m >= 9 => s[9].kind \in {"event", "link"}
    BY <1>0, LineageIs
<1>2a. m \in 1..9
    BY <1>1
<1>2. n \in 2..m /\ i \in 1..8 /\ i < n /\ n \in 2..9 /\ n <= m
    BY <1>0, <1>2a
<1>3. /\ \/ s[n].what = "map" /\ s[n].kind \in Kinds
         \/ s[n].what = "array" /\ s[n].kind \in DOMAIN ArrayLevel
      /\ Level(s[n]) = n
    BY <1>0, <1>2 DEF Lineage
<1>4. /\ n # 2
      /\ n = 4 => s[n].kind = "resource"
      /\ n = 6 => s[n].kind = "scope"
      /\ n = 8 => s[n].kind = "status"
      /\ n = 5 => s[n].kind = "scope_span"
      /\ n = 7 => s[n].kind = "span"
      /\ n = 9 => s[n].kind \in {"event", "link"}
    BY <1>3, ByLevel
<1>5a. /\ n >= 5 => s[n].kind \in {"scope_span", "scope", "span", "status", "event", "link"}
       /\ n >= 7 => s[n].kind \in {"span", "status", "event", "link"}
  <2>1. /\ n >= 5 => n = 5 \/ n = 6 \/ n = 7 \/ n = 8 \/ n = 9
        /\ n >= 7 => n = 7 \/ n = 8 \/ n = 9
      BY <1>2
  <2>2. QED
      BY <2>1, <1>4
<1>5. Around3(ctx, t) /\ (n >= 5 => Around5(ctx, t)) /\ (n >= 7 => Around7(ctx, t))
    BY <1>5a DEF Replaced
<1>6. CASE i = 1
  <2>1. Loc(ctx, s[1]) = [resourceSpans |-> ctx] /\ Loc(t, s[1]) = [resourceSpans |-> t]
      BY <1>1, LocIs DEF IsAt
  <2>2. FieldFor(SlotKey(s[2])) = "resourceSpans" /\ s[1].what # "array"
      BY <1>1, <1>2, <1>6, SlotIs DEF IsAt
  <2>3. QED
      BY <1>6, <2>1, <2>2 DEF Beside, SameBut
<1>7. CASE i = 2
    BY <1>1, <1>2, <1>5, <1>7, LocIs DEF IsAt, Beside, Around3
<1>8. CASE i = 3
  <2>1. Loc(ctx, s[3]) = Last(ctx) /\ Loc(t, s[3]) = Last(t) /\ s[3].what # "array"
      BY <1>1, <1>2, <1>8, LocIs DEF IsAt
  <2>2. CASE n = 4
    <3>1. FieldFor(SlotKey(s[4])) = "resource" /\ SameBut(Last(ctx), Last(t), "resource")
        BY <2>2, <1>4, SlotIs DEF Replaced
    <3>2. QED
        BY <1>8, <2>1, <3>1 DEF Beside
  <2>3. CASE n >= 5
    <3>1. FieldFor(SlotKey(s[4])) = "scope_spans" /\ SameBut(Last(ctx), Last(t), "scope_spans")
        BY <2>3, <1>1, <1>2, <1>5, SlotIs DEF Around5, IsAt
    <3>2. QED
        BY <1>8, <2>1, <3>1 DEF Beside
  <2>4. QED
      BY <2>2, <2>3, <1>2, <1>8
<1>9. CASE i = 4
  <2>1. n >= 5 /\ m >= 5
      BY <1>2, <1>2a, <1>9
  <2>2. QED
      BY <1>1, <1>5, <1>9, <2>1, LocIs DEF IsAt, Beside, Around5
<1>10. CASE i = 5
  <2>1. /\ Loc(ctx, s[5]) = Last(Last(ctx).scope_spans) /\ Loc(t, s[5]) = Last(Last(t).scope_spans)
        /\ s[5].what # "array"
      BY <1>1, <1>2, <1>10, LocIs DEF IsAt
  <2>2. CASE n = 6
    <3>1. /\ FieldFor(SlotKey(s[6])) = "instrumentation_scope"
          /\ SameBut(Last(Last(ctx).scope_spans), Last(Last(t).scope_spans), "instrumentation_scope")
        BY <2>2, <1>4, SlotIs DEF Replaced
    <3>2. QED
        BY <1>10, <2>1, <3>1 DEF Beside
  <2>3. CASE n >= 7
    <3>1. /\ FieldFor(SlotKey(s[6])) = "spans"
          /\ SameBut(Last(Last(ctx).scope_spans), Last(Last(t).scope_spans), "spans")
        BY <2>3, <1>1, <1>2, <1>5, SlotIs DEF Around7, IsAt
    <3>2. QED
        BY <1>10, <2>1, <3>1 DEF Beside
  <2>4. QED
      BY <2>2, <2>3, <1>2, <1>10
<1>11. CASE i = 6
  <2>1. n >= 7 /\ m >= 7
      BY <1>2, <1>2a, <1>11
  <2>2. QED
      BY <1>1, <1>5, <1>11, <2>1, LocIs DEF IsAt, Beside, Around7
<1>12. CASE i = 7
  <2>1. Loc(ctx, s[7]) = TheSpan(ctx) /\ Loc(t, s[7]) = TheSpan(t) /\ s[7].what # "array"
      BY <1>1, <1>2, <1>12, LocIs DEF IsAt
  <2>2. CASE n = 8
    <3>1. FieldFor(SlotKey(s[8])) = "status" /\ SameBut(TheSpan(ctx), TheSpan(t), "status")
        BY <2>2, <1>4, SlotIs DEF Replaced
    <3>2. QED
        BY <1>12, <2>1, <3>1 DEF Beside
  <2>3. CASE n = 9
    <3>1. m >= 9
        BY <1>2, <2>3
    <3>2. CASE s[9].kind = "event"
        BY <1>1, <1>12, <2>1, <2>3, <3>1, <3>2, SlotIs DEF IsAt, Beside, Replaced, Around9
    <3>3. CASE s[9].kind = "link"
        BY <1>1, <1>12, <2>1, <2>3, <3>1, <3>3, SlotIs DEF IsAt, Beside, Replaced, Around9
    <3>4. QED
        BY <3>2, <3>3, <2>3, <1>4
  <2>4. QED
      BY <2>2, <2>3, <1>2, <1>12
<1>13. CASE i = 8
  <2>1. n = 9 /\ m >= 9
      BY <1>2, <1>13
  <2>2. CASE s[9].kind = "event"
      BY <1>1, <1>13, <2>1, <2>2, LocIs DEF IsAt, Beside, Replaced, Around9
  <2>3. CASE s[9].kind = "link"
      BY <1>1, <1>13, <2>1, <2>3, LocIs DEF IsAt, Beside, Replaced, Around9
  <2>4. QED
      BY <2>1, <2>2, <2>3, <1>4
<1>14. QED
    BY <1>2, <1>6, <1>7, <1>8, <1>9, <1>10, <1>11, <1>12, <1>13

\* Each structure is in the one around it, where its frame says.
LEMMA Nested ==
    ASSUME NEW s, Lineage(s), NEW ctx, NEW i \in 1..(Len(s) - 1)
    PROVE  /\ s[i].what = "array" => Loc(ctx, s[i + 1]) = Last(Loc(ctx, s[i]))
           /\ s[i].what = "map" => Loc(ctx, s[i + 1]) = Loc(ctx, s[i])[FieldFor(SlotKey(s[i + 1]))]
<1>0. PICK m : m = Len(s)
    OBVIOUS
<1>1. /\ m \in 1..9 /\ IsAt(s, 1, "map", "context")
      /\ m >= 2 => IsAt(s, 2, "array", "resource_span")
      /\ m >= 3 => IsAt(s, 3, "map", "resource_span")
      /\ m >= 5 => IsAt(s, 4, "array", "scope_span") /\ IsAt(s, 5, "map", "scope_span")
      /\ m >= 7 => IsAt(s, 6, "array", "span") /\ IsAt(s, 7, "map", "span")
      /\ m >= 9 => IsAt(s, 8, "array", s[9].kind) /\ IsAt(s, 9, "map", s[9].kind)
      /\ m >= 9 => s[9].kind \in {"event", "link"}
    BY <1>0, LineageIs
<1>2. m \in 1..9
    BY <1>1
<1>3. i \in 1..8 /\ i < m /\ i + 1 \in 1..m /\ i + 1 <= m
    BY <1>0, <1>2
<1>4. /\ \/ s[i + 1].what = "map" /\ s[i + 1].kind \in Kinds
         \/ s[i + 1].what = "array" /\ s[i + 1].kind \in DOMAIN ArrayLevel
      /\ Level(s[i + 1]) = i + 1
    BY <1>0, <1>3 DEF Lineage
<1>5. CASE i = 1
    BY <1>1, <1>3, <1>5, LocIs, SlotIs DEF IsAt
<1>6. CASE i = 2
    BY <1>1, <1>3, <1>6, LocIs DEF IsAt
<1>7. CASE i = 3
  <2>1. \/ s[4].what = "map" /\ s[4].kind = "resource"
        \/ s[4].what = "array" /\ s[4].kind = "scope_span"
      BY <1>4, <1>7, ByLevel
  <2>2. s[3].what = "map" /\ Loc(ctx, s[3]) = Last(ctx)
      BY <1>1, <1>3, <1>7, LocIs DEF IsAt
  <2>3. QED
      BY <1>7, <2>1, <2>2, LocIs, SlotIs
<1>8. CASE i = 4
    BY <1>1, <1>3, <1>8, LocIs DEF IsAt
<1>9. CASE i = 5
  <2>1. \/ s[6].what = "map" /\ s[6].kind = "scope"
        \/ s[6].what = "array" /\ s[6].kind = "span"
      BY <1>4, <1>9, ByLevel
  <2>2. s[5].what = "map" /\ Loc(ctx, s[5]) = Last(Last(ctx).scope_spans)
      BY <1>1, <1>3, <1>9, LocIs DEF IsAt
  <2>3. QED
      BY <1>9, <2>1, <2>2, LocIs, SlotIs
<1>10. CASE i = 6
  <2>1. m >= 7
      BY <1>2, <1>3, <1>10
  <2>2. s[6].what = "array" /\ Loc(ctx, s[6]) = Last(Last(ctx).scope_spans).spans
      BY <1>1, <2>1, LocIs DEF IsAt
  <2>3. Loc(ctx, s[7]) = Last(Last(Last(ctx).scope_spans).spans)
      BY <1>1, <2>1, LocIs DEF IsAt, TheSpan
  <2>4. QED
      BY <1>10, <2>2, <2>3
<1>11. CASE i = 7
  <2>1. \/ s[8].what = "map" /\ s[8].kind = "status"
        \/ s[8].what = "array" /\ s[8].kind \in {"event", "link"}
      BY <1>4, <1>11, ByLevel
  <2>2. s[7].what = "map" /\ Loc(ctx, s[7]) = TheSpan(ctx)
      BY <1>1, <1>3, <1>11, LocIs DEF IsAt
  <2>3. QED
      BY <1>11, <2>1, <2>2, LocIs, SlotIs
<1>12. CASE i = 8
  <2>1. m >= 9
      BY <1>2, <1>3, <1>12
  <2>2. s[8].what = "array" /\ s[8].kind = s[9].kind /\ s[9].what = "map" /\ s[9].kind \in {"event", "link"}
      BY <1>1, <2>1 DEF IsAt
  <2>3. QED
      BY <1>12, <2>2, LocIs
<1>13. QED
    BY <1>3, <1>5, <1>6, <1>7, <1>8, <1>9, <1>10, <1>11, <1>12

AllBeside(s, n, ctx, t) ==
    \A i \in 1..(n - 1) : Beside(s[i], s[i + 1], Loc(ctx, s[i]), Loc(t, s[i]))

\* The list of an array replaced.
Relisted(s, n, ctx, list, t) ==
    /\ Lineage(s) /\ n \in 2..Len(s) /\ s[n].what = "array" /\ Open(n, ctx)
    /\ t = WithList(ctx, s[n].kind, list)

LEMMA DownToArray ==
    ASSUME NEW s, NEW n, NEW ctx, NEW list, NEW t, Relisted(s, n, ctx, list, t)
    PROVE  Loc(t, s[n]) = list /\ AllBeside(s, n, ctx, t)
<1> /\ Lineage(s) /\ n \in 2..Len(s) /\ s[n].what = "array" /\ Open(n, ctx)
    /\ t = WithList(ctx, s[n].kind, list)
    BY DEF Relisted
<1> USE DEF AllBeside
<1>0. PICK m : m = Len(s)
    OBVIOUS
<1>1. m \in 1..9
    BY <1>0, LineageIs
<1>2. n \in 1..m /\ n \in 2..9 /\ n - 1 \in 1..m /\ n - 1 \in 1..(m - 1) /\ (n - 1) + 1 = n
    BY <1>0, <1>1
<1>3. s[n].kind \in DOMAIN ArrayLevel /\ Level(s[n]) = n
    BY <1>0, <1>2 DEF Lineage
<1>4. CASE s[n].kind = "resource_span"
  <2>1. n = 2
      BY <1>3, <1>4 DEF Level, ArrayLevel
  <2>2. t = list /\ Loc(t, s[2]) = t
      BY <1>4, <2>1, LocIs DEF WithList
  <2>3. s[1].what = "map" /\ s[1].kind = "context"
      BY LineageIs DEF IsAt
  <2>4. Loc(ctx, s[1]) = [resourceSpans |-> ctx] /\ Loc(t, s[1]) = [resourceSpans |-> t]
      BY <2>3, LocIs
  <2>5. FieldFor(SlotKey(s[2])) = "resourceSpans"
      BY <1>4, <2>1, SlotIs
  <2>6. Beside(s[1], s[2], Loc(ctx, s[1]), Loc(t, s[1]))
      BY <2>3, <2>4, <2>5 DEF Beside, SameBut
  <2>7. QED
      BY <2>1, <2>2, <2>6
<1>5. CASE s[n].kind # "resource_span"
  <2>1. PICK k, field : k = Container[s[n].kind][1] /\ field = Container[s[n].kind][2]
      OBVIOUS
  <2>2. PICK o, q : o = Object(ctx, k) /\ q = [o EXCEPT ![field] = list]
      OBVIOUS
  <2>3. t = With(ctx, k, q)
      BY <1>5, <2>1, <2>2 DEF WithList
  <2>4. /\ s[n].kind = "scope_span" => n = 4 /\ k = "resource_span" /\ field = "scope_spans"
        /\ s[n].kind = "span" => n = 6 /\ k = "scope_span" /\ field = "spans"
        /\ s[n].kind = "event" => n = 8 /\ k = "span" /\ field = "events"
        /\ s[n].kind = "link" => n = 8 /\ k = "span" /\ field = "links"
      BY <1>3, <2>1 DEF Level, ArrayLevel, Container
  <2>5. s[n].kind \in {"scope_span", "span", "event", "link"}
      BY <1>3, <1>5 DEF ArrayLevel
  <2>6. /\ n - 1 \in 2..m
        /\ k \in Kinds \ {"context"} /\ k # "event" /\ k # "link" /\ MapLevel[k] = n - 1
      BY <1>2, <2>4, <2>5 DEF Kinds, MapLevel
  <2>7. Open(n - 1, ctx) /\ field \in DOMAIN o
    <3>1. CASE n = 4
      <4>1. k = "resource_span" /\ field = "scope_spans"
          BY <3>1, <2>4, <2>5
      <4>2. QED
          BY <3>1, <4>1, <2>2, ObjectIs DEF Open
    <3>2. CASE n = 6
      <4>1. k = "scope_span" /\ field = "spans"
          BY <3>2, <2>4, <2>5
      <4>2. QED
          BY <3>2, <4>1, <2>2, ObjectIs DEF Open
    <3>3. CASE n = 8
      <4>1. k = "span" /\ field \in {"events", "links"} /\ n - 1 = 7
          BY <3>3, <2>4, <2>5
      <4>2. Open(7, ctx) /\ {"events", "links"} \subseteq DOMAIN TheSpan(ctx)
          BY <3>3 DEF Open
      <4>3. o = TheSpan(ctx)
          BY <4>1, <2>2, ObjectIs
      <4>4. QED
          BY <4>1, <4>2, <4>3
    <3>4. QED
        BY <3>1, <3>2, <3>3, <2>4, <2>5
  <2>8. Replaced(ctx, k, q, t)
      BY <2>3, <2>6, <2>7, StructureReplaced
  <2>9. s[n - 1].what = "map" /\ s[n - 1].kind = k
    <3>1. /\ \/ s[n - 1].what = "map" /\ s[n - 1].kind \in Kinds
             \/ s[n - 1].what = "array" /\ s[n - 1].kind \in DOMAIN ArrayLevel
          /\ Level(s[n - 1]) = n - 1
        BY <1>0, <1>2 DEF Lineage
    <3>2. CASE n = 4
        BY <3>1, <3>2, <2>4, <2>5, ByLevel
    <3>3. CASE n = 6
        BY <3>1, <3>3, <2>4, <2>5, ByLevel
    <3>4. CASE n = 8
        BY <3>1, <3>4, <2>4, <2>5, ByLevel
    <3>5. QED
        BY <3>2, <3>3, <3>4, <2>4, <2>5
  <2>10. Object(t, k) = q /\ SameBut(o, q, field) /\ q[field] = list
    <3>1. Object(t, k) = q
        BY <2>8 DEF Replaced
    <3>2. SameBut(o, q, field) /\ q[field] = list
        BY <2>2, <2>7, FieldStays
    <3>3. QED
        BY <3>1, <3>2
  <2>11. FieldFor(SlotKey(s[n])) = field
      BY <2>4, <2>5, SlotIs
  <2>12. Loc(ctx, s[n - 1]) = o /\ Loc(t, s[n - 1]) = q
      BY <2>2, <2>6, <2>9, <2>10, LocIs
  <2>13. Loc(t, s[n]) = list
    <3>1. PICK i : i = n - 1
        OBVIOUS
    <3>2. i \in 1..(Len(s) - 1) /\ i + 1 = n
        BY <3>1, <1>0, <1>2
    <3>3. Loc(t, s[i + 1]) = Loc(t, s[i])[FieldFor(SlotKey(s[i + 1]))]
        BY <3>1, <3>2, <2>9, Nested
    <3>4. QED
        BY <3>1, <3>2, <3>3, <2>10, <2>11, <2>12
  <2>14. ASSUME NEW i \in 1..(n - 1)
         PROVE  Beside(s[i], s[i + 1], Loc(ctx, s[i]), Loc(t, s[i]))
    <3>1. CASE i = n - 1
      <4>1. s[i].what # "array" /\ s[i + 1] = s[n]
          BY <3>1, <2>9, <1>2
      <4>2. QED
          BY <3>1, <4>1, <2>10, <2>11, <2>12 DEF Beside
    <3>2. CASE i # n - 1
      <4>1. PICK j : j = n - 1
          OBVIOUS
      <4>2. j \in 2..Len(s) /\ i \in 1..(j - 1)
          BY <1>0, <1>2, <2>6, <3>2, <4>1
      <4>3. s[j].what = "map" /\ Replaced(ctx, s[j].kind, q, t)
          BY <2>8, <2>9, <4>1
      <4>4. QED
          BY <4>2, <4>3, DownToMap
    <3>3. QED
        BY <3>1, <3>2
  <2>15. QED
      BY <2>13, <2>14
<1>6. QED
    BY <1>4, <1>5


-----------------------------------------------------------------------------
(* What the structures hold that frames are read to.                       *)

\* The frame g is that of the value or element of f that is being read.
Linked(f, g, v, w, order) ==
    /\ f.left # Unopened /\ f.key = "" /\ Begun(f, v) \in 1..Size(f, v)
    /\ f.what = "array" => g.what = "map" /\ g.kind = f.kind /\ w = v[Begun(f, v)]
    /\ f.what = "map" => /\ order[f.kind][Begun(f, v)] = SlotKey(g) /\ w = v[SlotKey(g)]
                         /\ g.kind = "scope" => w # NULL

FrameGood(f, v) ==
    /\ f.what = "map" => NodeGood(f.kind, v)
    /\ f.what = "array" => AllGood(f.kind, v)

Holds(hungry, f, v, o, done, order) ==
    /\ f.what = "map" => HoldsMap(hungry, f.kind, v, o, done, Begun(f, v) + 1, order)
    /\ f.what = "array" => /\ HoldsArray(hungry, f.kind, v, o, done, Begun(f, v))
                           /\ f.left # Unopened => Len(v) <= MaxArray

LEMMA AlikeStill ==
    ASSUME NEW hungry \in BOOLEAN, NEW more \in BOOLEAN, hungry => more
    PROVE  /\ \A kind, a, e : AlikeNode(hungry, kind, a, e) => AlikeNode(more, kind, a, e)
           /\ \A kind, key, a, e : AlikeValue(hungry, kind, key, a, e) => AlikeValue(more, kind, key, a, e)
<1>1. \A kind, a, e : AlikeNode(hungry, kind, a, e) => AlikeNode(more, kind, a, e)
    BY DEF AlikeNode
<1>2. ASSUME NEW kind, NEW key, NEW a, NEW e, AlikeValue(hungry, kind, key, a, e)
      PROVE  AlikeValue(more, kind, key, a, e)
    BY <1>1, <1>2 DEF AlikeValue
<1>3. QED
    BY <1>1, <1>2

\* One field written: those of the other keys stay.
LEMMA FieldOnly ==
    ASSUME NEW kind \in Kinds, NEW o, o = [x \in Fields(kind) |-> o[x]],
           NEW key \in Range(Entries[kind]), NEW p, SameBut(o, p, FieldFor(key)) \/ p = o
    PROVE  /\ p = [x \in Fields(kind) |-> p[x]]
           /\ "flags" \in Fields(kind) => p.flags = o.flags
           /\ \A other \in Range(Entries[kind]) : other # key => p[FieldFor(other)] = o[FieldFor(other)]
<1>1. CASE p = o
    BY <1>1, Zenon
<1>2. CASE SameBut(o, p, FieldFor(key))
  <2>1. PICK F, y : F = Fields(kind) /\ y = FieldFor(key)
      OBVIOUS
  <2>2. y \in F /\ y # "flags"
      BY <2>1, FieldOfKey
  <2>3. o = [x \in F |-> o[x]] /\ p = [o EXCEPT ![y] = p[y]]
      BY <2>1, <1>2 DEF SameBut
  <2>4. p = [x \in F |-> p[x]] /\ \A x \in F : x # y => p[x] = o[x]
      BY <2>2, <2>3
  <2>5. ASSUME NEW other \in Range(Entries[kind]), other # key
        PROVE  p[FieldFor(other)] = o[FieldFor(other)]
    <3>1. FieldFor(other) \in F /\ FieldFor(other) # y
        BY <2>1, <2>5, FieldOfKey
    <3>2. QED
        BY <3>1, <2>4
  <2>6. QED
      BY <2>1, <2>2, <2>4, <2>5
<1>3. QED
    BY <1>1, <1>2

\* A frame below: what hangs off it changes, what was read before stays.
LEMMA BesideKeeps ==
    ASSUME NEW order \in Orders, NEW hungry \in BOOLEAN, NEW more \in BOOLEAN, hungry => more,
           NEW f, NEW v, Reads(f, v, order), NEW g, NEW w, Linked(f, g, v, w, order),
           NEW o, NEW p, Beside(f, g, o, p) \/ p = o,
           Holds(hungry, f, v, o, Begun(f, v) - 1, order)
    PROVE  Holds(more, f, v, p, Begun(f, v) - 1, order)
<1>0. (f.what = "map" /\ f.kind \in Kinds) \/ f.what = "array"
    BY Zenon DEF Reads
<1>1. PICK b : b = Begun(f, v)
    OBVIOUS
<1>2. CASE f.what = "map"
  <2>1. PICK kind, key : kind = f.kind /\ key = SlotKey(g)
      OBVIOUS
  <2>2. kind \in Kinds /\ b \in 1..EntryCount[kind]
    <3>1. f.kind \in Kinds
        BY <1>0, <1>2
    <3>2. Size(f, v) = EntryCount[f.kind]
        BY <1>2 DEF Size
    <3>3. Begun(f, v) \in 1..Size(f, v)
        BY Zenon DEF Linked
    <3>4. QED
        BY <1>1, <2>1, <3>1, <3>2, <3>3
  <2>3. order[kind][b] = key
    <3>1. order[f.kind][Begun(f, v)] = SlotKey(g)
        BY <1>2, Zenon DEF Linked
    <3>2. QED
        BY <1>1, <2>1, <3>1
  <2>4. PICK n : n = EntryCount[kind]
      OBVIOUS
  <2>5. /\ n \in Nat /\ b \in 1..n
        /\ \A i \in 1..n : order[kind][i] \in Range(Entries[kind])
        /\ \A i, j \in 1..n : order[kind][i] = order[kind][j] => i = j
      BY <2>2, <2>4, OrderIs
  <2>6. key \in Range(Entries[kind])
      BY <2>3, <2>5
  <2>7. HoldsMap(hungry, kind, v, o, b - 1, b + 1, order)
      BY <1>1, <1>2, <2>1 DEF Holds
  <2>8. SameBut(o, p, FieldFor(key)) \/ p = o
      BY <1>2, <2>1 DEF Beside
  <2>9. /\ p = [x \in Fields(kind) |-> p[x]]
        /\ "flags" \in Fields(kind) => p.flags = o.flags
        /\ \A other \in Range(Entries[kind]) : other # key => p[FieldFor(other)] = o[FieldFor(other)]
      BY <2>2, <2>6, <2>7, <2>8, FieldOnly DEF HoldsMap
  <2>10. \A i \in 1..n : i # b => p[FieldFor(order[kind][i])] = o[FieldFor(order[kind][i])]
      BY <2>3, <2>5, <2>9
  <2>11. /\ \A i \in 1..(b - 1) : i \in 1..n /\ i # b
         /\ \A i \in (b + 1)..n : i \in 1..n /\ i # b
      BY <2>5
  <2>12. ASSUME NEW i \in 1..(b - 1)
         PROVE  /\ AlikeValue(more, kind, order[kind][i], p[FieldFor(order[kind][i])],
                              UnValue(kind, order[kind][i], v[order[kind][i]]))
                /\ ValueGood(order[kind][i], v[order[kind][i]])
      BY <2>7, <2>10, <2>11, AlikeStill DEF HoldsMap
  <2>13. ASSUME NEW i \in (b + 1)..EntryCount[kind]
         PROVE  \/ kind = "event" /\ order[kind][i] = "attributes"
                \/ p[FieldFor(order[kind][i])] = Blank(kind)[FieldFor(order[kind][i])]
      BY <2>4, <2>7, <2>10, <2>11 DEF HoldsMap
  <2>14. HoldsMap(more, kind, v, p, b - 1, b + 1, order)
      BY <2>7, <2>9, <2>12, <2>13 DEF HoldsMap
  <2>15. QED
      BY <1>1, <1>2, <2>1, <2>14 DEF Holds
<1>3. CASE f.what = "array"
  <2>1. /\ IsList(o) /\ Len(o) = b
        /\ \A i \in 1..(b - 1) : AlikeNode(hungry, f.kind, o[i], UnNode(f.kind, v[i])) /\ NodeGood(f.kind, v[i])
      BY <1>1, <1>3 DEF Holds, HoldsArray
  <2>2. IsList(p) /\ Len(p) = b /\ \A i \in 1..(b - 1) : p[i] = o[i]
    <3>1. SameButLast(o, p) \/ p = o
        BY <1>3 DEF Beside
    <3>2. QED
        BY <2>1, <3>1 DEF SameButLast
  <2>3. HoldsArray(more, f.kind, v, p, b - 1, b)
      BY <2>1, <2>2, AlikeStill DEF HoldsArray
  <2>4. QED
      BY <1>1, <1>3, <2>3 DEF Holds
<1>4. QED
    BY <1>0, <1>2, <1>3

\* The value under the next key of a map has come.
LEMMA ValueCame ==
    ASSUME NEW order \in Orders, NEW hungry \in BOOLEAN, NEW more \in BOOLEAN, hungry => more,
           NEW kind \in Kinds, NEW v, NEW o, NEW b, b + 1 \in 1..EntryCount[kind], b \in Nat,
           HoldsMap(hungry, kind, v, o, b, b + 1, order),
           NEW key, key = order[kind][b + 1],
           NEW p, SameBut(o, p, FieldFor(key)) \/ p = o,
           AlikeValue(more, kind, key, p[FieldFor(key)], UnValue(kind, key, v[key])),
           ValueGood(key, v[key])
    PROVE  HoldsMap(more, kind, v, p, b + 1, b + 1 + 1, order)
<1>1. PICK n : n = EntryCount[kind]
    OBVIOUS
<1>2. /\ n \in Nat /\ b + 1 \in 1..n
      /\ \A i \in 1..n : order[kind][i] \in Range(Entries[kind])
      /\ \A i, j \in 1..n : order[kind][i] = order[kind][j] => i = j
    BY <1>1, OrderIs
<1>3. key \in Range(Entries[kind])
    BY <1>2
<1>4. /\ p = [x \in Fields(kind) |-> p[x]]
      /\ "flags" \in Fields(kind) => p.flags = o.flags
      /\ \A other \in Range(Entries[kind]) : other # key => p[FieldFor(other)] = o[FieldFor(other)]
    BY <1>3, FieldOnly DEF HoldsMap
<1>5. \A i \in 1..n : i # b + 1 => p[FieldFor(order[kind][i])] = o[FieldFor(order[kind][i])]
    BY <1>2, <1>4
<1>6. /\ \A i \in 1..(b + 1) : i = b + 1 \/ (i \in 1..b /\ i \in 1..n /\ i # b + 1)
      /\ \A i \in (b + 1 + 1)..n : i \in 1..n /\ i # b + 1 /\ i \in (b + 1)..n
    BY <1>2
<1>7. ASSUME NEW i \in 1..(b + 1)
      PROVE  /\ AlikeValue(more, kind, order[kind][i], p[FieldFor(order[kind][i])],
                           UnValue(kind, order[kind][i], v[order[kind][i]]))
             /\ ValueGood(order[kind][i], v[order[kind][i]])
  <2>1. CASE i = b + 1
      BY <2>1
  <2>2. CASE i \in 1..b /\ i \in 1..n /\ i # b + 1
      BY <2>2, <1>5, AlikeStill DEF HoldsMap
  <2>3. QED
      BY <2>1, <2>2, <1>6
<1>8. ASSUME NEW i \in (b + 1 + 1)..EntryCount[kind]
      PROVE  \/ kind = "event" /\ order[kind][i] = "attributes"
             \/ p[FieldFor(order[kind][i])] = Blank(kind)[FieldFor(order[kind][i])]
    BY <1>1, <1>5, <1>6 DEF HoldsMap
<1>9. QED
    BY <1>4, <1>7, <1>8 DEF HoldsMap

-----------------------------------------------------------------------------
(* The stack, as what is left to read of a message m of this library: node *)
(* has the nodes of its frames, due what comes of each and of those below. *)

Places(s, m, order, node, due, rest) ==
    /\ IsList(s) /\ s # <<>>
    /\ node[1] = [resourceSpans |-> m] /\ due[0] = rest /\ rest \in Seq(TokenSet)
    /\ \A i \in 1..Len(s) :
          /\ Level(s[i]) = i
          /\ Reads(s[i], node[i], order)
          /\ Good(m) => FrameGood(s[i], node[i])
          /\ due[i] = Due(s[i], node[i], order) \o due[i - 1]
          /\ due[i] \in Seq(TokenSet)
    /\ \A i \in 1..(Len(s) - 1) : Linked(s[i], s[i + 1], node[i], node[i + 1], order)

\* What the frames hold of their nodes; but for the innermost one they wait
\* for the value that is being read.
Content(hungry, s, ctx, order, node) ==
    \A i \in 1..Len(s) :
        Holds(hungry, s[i], node[i], Loc(ctx, s[i]),
              IF i = Len(s) THEN Begun(s[i], node[i]) ELSE Begun(s[i], node[i]) - 1, order)

\* How a step changes the stack, and the structures of the frames below the top.
TopSwapped(s, t, n, g) ==
    IsList(t) /\ Len(t) = n /\ (\A i \in 1..(n - 1) : t[i] = s[i]) /\ t[n] = g

TopPushed(s, t, n, g, h) ==
    IsList(t) /\ Len(t) = n + 1 /\ (\A i \in 1..(n - 1) : t[i] = s[i]) /\ t[n] = g /\ t[n + 1] = h

Widened(more, node, n, w) == more[n + 1] = w /\ \A i \in 1..n : more[i] = node[i]

Off(s, n, ctx, c) ==
    \A i \in 1..(n - 1) : \/ Beside(s[i], s[i + 1], Loc(ctx, s[i]), Loc(c, s[i]))
                          \/ Loc(c, s[i]) = Loc(ctx, s[i])

LEMMA ReadsWhat ==
    ASSUME NEW f, NEW v, NEW order, Reads(f, v, order)
    PROVE  \/ f.what = "map" /\ f.kind \in Kinds /\ IsNode(f.kind, v)
           \/ f.what = "array" /\ f.kind \in DOMAIN ArrayLevel /\ AreNodes(f.kind, v)
BY Zenon DEF Reads

LEMMA PlacesAre ==
    ASSUME NEW order \in Orders, NEW s, NEW m, NEW node, NEW due, NEW rest,
           Places(s, m, order, node, due, rest)
    PROVE  /\ Lineage(s)
           /\ Len(s) \in 1..9 /\ s # <<>> /\ Last(s) = s[Len(s)]
           /\ Reads(s[Len(s)], node[Len(s)], order)
           /\ Good(m) => FrameGood(s[Len(s)], node[Len(s)])
           /\ IsJoined(due[Len(s)], Due(s[Len(s)], node[Len(s)], order), due[Len(s) - 1])
           /\ due[Len(s) - 1] \in Seq(TokenSet)
<1>0. PICK n : n = Len(s)
    OBVIOUS
<1>1. IsList(s) /\ s # <<>> /\ n \in Nat /\ n >= 1 /\ Last(s) = s[n]
  <2>1. IsList(s) /\ s # <<>>
      BY DEF Places
  <2>2. Len(s) \in Nat /\ Len(s) > 0 /\ Last(s) = s[Len(s)]
      BY <2>1, ListFacts
  <2>3. QED
      BY <1>0, <2>1, <2>2
<1>2. /\ n \in 1..n /\ (n - 1 = 0 \/ n - 1 \in 1..n)
      /\ \A i \in 1..(n - 1) : i \in 1..n
    BY <1>1
<1>3. \A i \in 1..n :
          /\ Level(s[i]) = i
          /\ Reads(s[i], node[i], order)
          /\ Good(m) => FrameGood(s[i], node[i])
          /\ due[i] = Due(s[i], node[i], order) \o due[i - 1]
          /\ due[i] \in Seq(TokenSet)
    BY <1>0 DEF Places
<1>4. \A i \in 1..n : \/ s[i].what = "map" /\ s[i].kind \in Kinds
                      \/ s[i].what = "array" /\ s[i].kind \in DOMAIN ArrayLevel
    BY <1>3, ReadsWhat
<1>5. ASSUME NEW i \in 1..(n - 1)
      PROVE  /\ s[i].what = "array" => s[i + 1].what = "map" /\ s[i + 1].kind = s[i].kind
             /\ s[i].what = "map" => SlotKey(s[i + 1]) \in Range(Entries[s[i].kind])
  <2>1. PICK f, g, v, w : f = s[i] /\ g = s[i + 1] /\ v = node[i] /\ w = node[i + 1]
      OBVIOUS
  <2>2. Linked(f, g, v, w, order)
      BY <1>0, <2>1 DEF Places
  <2>3. f.what = "array" => g.what = "map" /\ g.kind = f.kind
      BY <2>2, Zenon DEF Linked
  <2>4. ASSUME f.what = "map"
        PROVE  SlotKey(g) \in Range(Entries[f.kind])
    <3>1. f.kind \in Kinds
        BY <1>2, <1>4, <2>1, <2>4
    <3>2. Size(f, v) = EntryCount[f.kind]
        BY <2>4 DEF Size
    <3>3. Begun(f, v) \in 1..Size(f, v) /\ order[f.kind][Begun(f, v)] = SlotKey(g)
        BY <2>2, <2>4, Zenon DEF Linked
    <3>4. QED
        BY <3>1, <3>2, <3>3, OrderIs
  <2>5. QED
      BY <2>1, <2>3, <2>4
<1>6. Lineage(s)
    BY <1>0, <1>1, <1>3, <1>4, <1>5 DEF Lineage
<1>7. Len(s) \in 1..9
    BY <1>6, LineageIs
<1>8. due[n - 1] \in Seq(TokenSet)
  <2>1. CASE n - 1 = 0
      BY <2>1 DEF Places
  <2>2. CASE n - 1 \in 1..n
      BY <2>2, <1>3
  <2>3. QED
      BY <2>1, <2>2, <1>2
<1>9. QED
    BY <1>0, <1>1, <1>2, <1>3, <1>6, <1>7, <1>8 DEF IsJoined

LEMMA SameLevel ==
    ASSUME NEW f, NEW g, g.what = f.what, g.kind = f.kind
    PROVE  Level(g) = Level(f) /\ \A v : FrameGood(f, v) => FrameGood(g, v)
BY DEF Level, FrameGood

LEMMA LinkedStill ==
    ASSUME NEW f, NEW g, NEW h, NEW v, NEW w, NEW order, Linked(f, g, v, w, order),
           h.what = g.what, h.kind = g.kind
    PROVE  Linked(f, h, v, w, order)
<1>1. SlotKey(h) = SlotKey(g)
    BY DEF SlotKey
<1>2. QED
    BY <1>1, Zenon DEF Linked

\* The innermost frame reads on: x is what it has read.
LEMMA PlacesSwap ==
    ASSUME NEW order \in Orders, NEW s, NEW m, NEW node, NEW due, NEW rest,
           Places(s, m, order, node, due, rest), NEW n, n = Len(s),
           NEW g, g.what = s[n].what, g.kind = s[n].kind, Reads(g, node[n], order),
           NEW t, TopSwapped(s, t, n, g),
           NEW x \in Seq(TokenSet), IsJoined(Due(s[n], node[n], order), x, Due(g, node[n], order))
    PROVE  \E next : Places(t, m, order, node, next, rest) /\ IsJoined(due[n], x, next[n])
<1> USE DEF TopSwapped
<1>0. /\ Len(s) \in 1..9
      /\ IsJoined(due[Len(s)], Due(s[Len(s)], node[Len(s)], order), due[Len(s) - 1])
      /\ due[Len(s) - 1] \in Seq(TokenSet)
    BY PlacesAre
<1>1. n \in Nat /\ n >= 1
    BY <1>0
<1>2. PICK y : y = Due(g, node[n], order)
    OBVIOUS
<1>3. y \in Seq(TokenSet)
    BY <1>2, DueType
<1>4. due[n] = (x \o y) \o due[n - 1] /\ due[n - 1] \in Seq(TokenSet)
    BY <1>0, <1>2 DEF IsJoined
<1>5. due[n] = x \o (y \o due[n - 1]) /\ y \o due[n - 1] \in Seq(TokenSet)
    BY <1>3, <1>4, Regroup
<1>6. PICK next : next = [i \in 0..n |-> IF i = n THEN y \o due[n - 1] ELSE due[i]]
    OBVIOUS
<1>7. /\ next[n] = y \o due[n - 1]
      /\ \A i \in 0..(n - 1) : next[i] = due[i]
    BY <1>1, <1>6
<1>8. /\ \A i \in 1..n : i \in 1..(n - 1) \/ i = n
      /\ \A i \in 1..(n - 1) : i \in 0..(n - 1) /\ i - 1 \in 0..(n - 1) /\ i \in 1..n /\ i # n
      /\ 0 \in 0..(n - 1) /\ n - 1 \in 0..(n - 1) /\ n \in 1..n
    BY <1>1
<1>9. ASSUME NEW i \in 1..n
      PROVE  /\ Level(t[i]) = i
             /\ Reads(t[i], node[i], order)
             /\ Good(m) => FrameGood(t[i], node[i])
             /\ next[i] = Due(t[i], node[i], order) \o next[i - 1]
             /\ next[i] \in Seq(TokenSet)
  <2>1. CASE i \in 1..(n - 1)
    <3>1. t[i] = s[i] /\ next[i] = due[i] /\ next[i - 1] = due[i - 1] /\ i \in 1..Len(s)
        BY <2>1, <1>7, <1>8
    <3>2. QED
        BY <3>1 DEF Places
  <2>2. CASE i = n
    <3>1. Level(s[n]) = n /\ (Good(m) => FrameGood(s[n], node[n]))
        BY <1>8 DEF Places
    <3>2. Level(t[n]) = n /\ (Good(m) => FrameGood(t[n], node[n]))
        BY <3>1, SameLevel
    <3>3. next[n] = Due(t[n], node[n], order) \o next[n - 1]
        BY <1>2, <1>7, <1>8
    <3>4. QED
        BY <2>2, <3>2, <3>3, <1>5, <1>7
  <2>3. QED
      BY <2>1, <2>2, <1>8
<1>10. ASSUME NEW i \in 1..(n - 1)
       PROVE  Linked(t[i], t[i + 1], node[i], node[i + 1], order)
  <2>1. Linked(s[i], s[i + 1], node[i], node[i + 1], order)
      BY DEF Places
  <2>2. t[i] = s[i]
      BY <1>8
  <2>3. t[i + 1].what = s[i + 1].what /\ t[i + 1].kind = s[i + 1].kind
    <3>1. i + 1 \in 1..(n - 1) \/ i + 1 = n
        BY <1>1
    <3>2. QED
        BY <3>1
  <2>4. QED
      BY <2>1, <2>2, <2>3, LinkedStill
<1>11. t # <<>>
    BY <1>1, ListFacts
<1>12. node[1] = [resourceSpans |-> m] /\ next[0] = rest /\ rest \in Seq(TokenSet)
    BY <1>7, <1>8 DEF Places
<1>13. Places(t, m, order, node, next, rest)
    BY <1>9, <1>10, <1>11, <1>12 DEF Places
<1>14. QED
    BY <1>5, <1>7, <1>13 DEF IsJoined

\* A frame is put on top; before and after it the frame below reads on.
LEMMA PlacesPush ==
    ASSUME NEW order \in Orders, NEW s, NEW m, NEW node, NEW due, NEW rest,
           Places(s, m, order, node, due, rest), NEW n, n = Len(s),
           NEW g, g.what = s[n].what, g.kind = s[n].kind, Reads(g, node[n], order),
           NEW h, NEW w, Linked(g, h, node[n], w, order), Level(h) = n + 1, Reads(h, w, order),
           Good(m) => FrameGood(h, w),
           NEW t, TopPushed(s, t, n, g, h),
           NEW x \in Seq(TokenSet), NEW u, IsJoined(u, Due(h, w, order), Due(g, node[n], order)),
           IsJoined(Due(s[n], node[n], order), x, u)
    PROVE  \E more, next :
              /\ Places(t, m, order, more, next, rest) /\ IsJoined(due[n], x, next[n + 1])
              /\ Widened(more, node, n, w)
<1> USE DEF TopPushed, Widened
<1>0. /\ Len(s) \in 1..9
      /\ IsJoined(due[Len(s)], Due(s[Len(s)], node[Len(s)], order), due[Len(s) - 1])
      /\ due[Len(s) - 1] \in Seq(TokenSet)
    BY PlacesAre
<1>1. n \in Nat /\ n >= 1
    BY <1>0
<1>2. PICK y, z, d : y = Due(g, node[n], order) /\ z = Due(h, w, order) /\ d = due[n - 1]
    OBVIOUS
<1>3. y \in Seq(TokenSet) /\ z \in Seq(TokenSet) /\ d \in Seq(TokenSet)
    BY <1>0, <1>2, DueType
<1>4. due[n] = (x \o (z \o y)) \o d
    BY <1>0, <1>2 DEF IsJoined
<1>5. /\ due[n] = x \o (z \o (y \o d))
      /\ y \o d \in Seq(TokenSet) /\ z \o (y \o d) \in Seq(TokenSet)
  <2>1. z \o y \in Seq(TokenSet) /\ y \o d \in Seq(TokenSet) /\ z \o (y \o d) \in Seq(TokenSet)
      BY <1>3, Regroup
  <2>2. (x \o (z \o y)) \o d = x \o ((z \o y) \o d)
      BY <1>3, <2>1, Regroup
  <2>3. (z \o y) \o d = z \o (y \o d)
      BY ONLY <1>3, Regroup
  <2>4. QED
      BY <1>4, <2>1, <2>2, <2>3
<1>6. PICK next : next = [i \in 0..(n + 1) |-> IF i = n + 1 THEN z \o (y \o d)
                                              ELSE IF i = n THEN y \o d ELSE due[i]]
    OBVIOUS
<1>7. PICK more : more = [i \in 1..(n + 1) |-> IF i = n + 1 THEN w ELSE node[i]]
    OBVIOUS
<1>8. /\ \A i \in 1..(n + 1) : i \in 1..(n - 1) \/ i = n \/ i = n + 1
      /\ \A i \in 1..n : i \in 1..(n - 1) \/ i = n
      /\ \A i \in 1..(n - 1) : i \in 0..(n - 1) /\ i - 1 \in 0..(n - 1) /\ i \in 1..n /\ i # n
      /\ 0 \in 0..(n - 1) /\ n - 1 \in 0..(n - 1) /\ n \in 1..n /\ 1 \in 1..n
      /\ \A i \in 1..n : i \in 1..(n + 1) /\ i # n + 1
      /\ \A i \in 0..(n - 1) : i \in 0..(n + 1) /\ i # n /\ i # n + 1
      /\ n \in 0..(n + 1) /\ n + 1 \in 0..(n + 1) /\ n # n + 1 /\ n + 1 \in 1..(n + 1)
      /\ (n + 1) - 1 = n
    BY <1>1
<1>9. /\ next[n + 1] = z \o (y \o d) /\ next[n] = y \o d
      /\ \A i \in 0..(n - 1) : next[i] = due[i]
    BY <1>6, <1>8
<1>10. more[n + 1] = w /\ \A i \in 1..n : more[i] = node[i]
    BY <1>7, <1>8
<1>11. ASSUME NEW i \in 1..(n + 1)
       PROVE  /\ Level(t[i]) = i
              /\ Reads(t[i], more[i], order)
              /\ Good(m) => FrameGood(t[i], more[i])
              /\ next[i] = Due(t[i], more[i], order) \o next[i - 1]
              /\ next[i] \in Seq(TokenSet)
  <2>1. CASE i \in 1..(n - 1)
    <3>1. t[i] = s[i] /\ next[i] = due[i] /\ next[i - 1] = due[i - 1] /\ i \in 1..Len(s)
        BY <2>1, <1>8, <1>9
    <3>2. more[i] = node[i]
        BY <2>1, <1>8, <1>10
    <3>3. QED
        BY <3>1, <3>2 DEF Places
  <2>2. CASE i = n
    <3>1. Level(s[n]) = n /\ (Good(m) => FrameGood(s[n], node[n]))
        BY <1>8 DEF Places
    <3>2. Level(t[n]) = n /\ (Good(m) => FrameGood(t[n], node[n]))
        BY <3>1, SameLevel
    <3>3. more[n] = node[n]
        BY <1>8, <1>10
    <3>4. next[n] = Due(t[n], more[n], order) \o next[n - 1]
        BY <1>2, <1>8, <1>9, <3>3
    <3>5. QED
        BY <2>2, <3>2, <3>3, <3>4, <1>5, <1>9
  <2>3. CASE i = n + 1
    <3>1. next[n + 1] = Due(t[n + 1], more[n + 1], order) \o next[n]
        BY <1>2, <1>9, <1>10
    <3>2. QED
        BY <2>3, <3>1, <1>5, <1>8, <1>9, <1>10
  <2>4. QED
      BY <2>1, <2>2, <2>3, <1>8
<1>12. ASSUME NEW i \in 1..n
       PROVE  Linked(t[i], t[i + 1], more[i], more[i + 1], order)
  <2>1. CASE i = n
      BY <2>1, <1>8, <1>10
  <2>2. CASE i \in 1..(n - 1)
    <3>1. Linked(s[i], s[i + 1], node[i], node[i + 1], order)
        BY <2>2 DEF Places
    <3>2. t[i] = s[i] /\ i + 1 \in 1..n
        BY <2>2, <1>1
    <3>3. t[i + 1].what = s[i + 1].what /\ t[i + 1].kind = s[i + 1].kind
      <4>1. i + 1 \in 1..(n - 1) \/ i + 1 = n
          BY <2>2, <1>1
      <4>2. QED
          BY <4>1
    <3>4. more[i] = node[i] /\ more[i + 1] = node[i + 1]
        BY <2>2, <3>2, <1>8, <1>10
    <3>5. QED
        BY <3>1, <3>2, <3>3, <3>4, LinkedStill
  <2>3. QED
      BY <2>1, <2>2, <1>8
<1>13. t # <<>>
  <2>1. PICK k : k = Len(t)
      OBVIOUS
  <2>2. k > 0
      BY <2>1, <1>1
  <2>3. QED
      BY <2>1, <2>2, ListFacts
<1>14. more[1] = [resourceSpans |-> m] /\ next[0] = rest /\ rest \in Seq(TokenSet)
    BY <1>8, <1>9, <1>10 DEF Places
<1>15. Places(t, m, order, more, next, rest)
  <2>1. (n + 1) - 1 = n
      BY <1>1
  <2>2. QED
      BY <1>11, <1>12, <1>13, <1>14, <2>1 DEF Places
<1>16. QED
    BY <1>5, <1>9, <1>10, <1>15 DEF IsJoined

\* The innermost frame is done.
LEMMA PlacesClose ==
    ASSUME NEW order \in Orders, NEW s, NEW m, NEW node, NEW due, NEW rest,
           Places(s, m, order, node, due, rest), NEW n, n = Len(s), s[n].left = 0,
           NEW t, IsList(t), Len(t) = n - 1, \A i \in 1..(n - 1) : t[i] = s[i]
    PROVE  /\ due[n] = due[n - 1]
           /\ n # 1 => Places(t, m, order, node, due, rest)
           /\ n = 1 => due[n] = rest
<1>0. /\ Len(s) \in 1..9
      /\ IsJoined(due[Len(s)], Due(s[Len(s)], node[Len(s)], order), due[Len(s) - 1])
      /\ due[Len(s) - 1] \in Seq(TokenSet)
      /\ Reads(s[Len(s)], node[Len(s)], order)
    BY PlacesAre
<1>1. n \in Nat /\ n >= 1
    BY <1>0
<1>2. Due(s[n], node[n], order) = <<>>
    BY <1>0, DueEnds, Zenon
<1>3. due[n] = due[n - 1]
  <2>1. PICK d : d = due[n - 1]
      OBVIOUS
  <2>2. due[n] = <<>> \o d /\ d \in Seq(TokenSet)
      BY <1>0, <1>2, <2>1 DEF IsJoined
  <2>3. QED
      BY <2>1, <2>2
<1>4. ASSUME n # 1
      PROVE  Places(t, m, order, node, due, rest)
  <2>1. /\ \A i \in 1..(n - 1) : i \in 1..n
        /\ \A i \in 1..((n - 1) - 1) : i \in 1..(n - 1) /\ i + 1 \in 1..(n - 1)
        /\ n - 1 > 0
      BY <1>1, <1>4
  <2>2. t # <<>>
    <3>1. PICK k : k = Len(t)
        OBVIOUS
    <3>2. k > 0
        BY <3>1, <2>1
    <3>3. QED
        BY <3>1, <3>2, ListFacts
  <2>3. \A i \in 1..(n - 1) :
          /\ Level(t[i]) = i
          /\ Reads(t[i], node[i], order)
          /\ Good(m) => FrameGood(t[i], node[i])
          /\ due[i] = Due(t[i], node[i], order) \o due[i - 1]
          /\ due[i] \in Seq(TokenSet)
      BY <2>1 DEF Places
  <2>4. \A i \in 1..((n - 1) - 1) : Linked(t[i], t[i + 1], node[i], node[i + 1], order)
      BY <2>1 DEF Places
  <2>5. QED
      BY <2>2, <2>3, <2>4 DEF Places
<1>5. n = 1 => due[n] = rest
  <2>1. n = 1 => n - 1 = 0
      OBVIOUS
  <2>2. QED
      BY <1>3, <2>1 DEF Places
<1>6. QED
    BY <1>3, <1>4, <1>5

\* What the frames below hold.
LEMMA BelowHolds ==
    ASSUME NEW order \in Orders, NEW s, NEW m, NEW node, NEW due, NEW rest,
           Places(s, m, order, node, due, rest), NEW n, n = Len(s),
           NEW hungry \in BOOLEAN, NEW more \in BOOLEAN, hungry => more,
           NEW ctx, Content(hungry, s, ctx, order, node), NEW c, NEW i \in 1..(n - 1),
           \/ Beside(s[i], s[i + 1], Loc(ctx, s[i]), Loc(c, s[i]))
           \/ Loc(c, s[i]) = Loc(ctx, s[i])
    PROVE  Holds(more, s[i], node[i], Loc(c, s[i]), Begun(s[i], node[i]) - 1, order)
<1>0. Len(s) \in 1..9
    BY PlacesAre
<1>1. i \in 1..Len(s) /\ i # Len(s) /\ i \in 1..(Len(s) - 1)
    BY <1>0
<1>2. PICK f, g, v, w, o, p : /\ f = s[i] /\ g = s[i + 1] /\ v = node[i] /\ w = node[i + 1]
                              /\ o = Loc(ctx, s[i]) /\ p = Loc(c, s[i])
    OBVIOUS
<1>3. Reads(f, v, order) /\ Linked(f, g, v, w, order)
    BY <1>1, <1>2 DEF Places
<1>4. Holds(hungry, f, v, o, Begun(f, v) - 1, order)
    BY <1>1, <1>2 DEF Content
<1>5. Beside(f, g, o, p) \/ p = o
    BY <1>2
<1>6. Holds(more, f, v, p, Begun(f, v) - 1, order)
    BY <1>3, <1>4, <1>5, BesideKeeps
<1>7. QED
    BY <1>2, <1>6

LEMMA ContentSwap ==
    ASSUME NEW order \in Orders, NEW s, NEW m, NEW node, NEW due, NEW rest,
           Places(s, m, order, node, due, rest), NEW n, n = Len(s),
           NEW hungry \in BOOLEAN, NEW more \in BOOLEAN, hungry => more,
           NEW ctx, Content(hungry, s, ctx, order, node), NEW c,
           Off(s, n, ctx, c),
           NEW g, Holds(more, g, node[n], Loc(c, g), Begun(g, node[n]), order),
           NEW t, TopSwapped(s, t, n, g)
    PROVE  Content(more, t, c, order, node)
<1> USE DEF TopSwapped, Off
<1>0. Len(s) \in 1..9
    BY PlacesAre
<1>1. \A i \in 1..n : i \in 1..(n - 1) \/ i = n
    BY <1>0
<1>2. \A i \in 1..(n - 1) : i # n
    BY <1>0
<1>3. ASSUME NEW i \in 1..n
      PROVE  Holds(more, t[i], node[i], Loc(c, t[i]),
                   IF i = n THEN Begun(t[i], node[i]) ELSE Begun(t[i], node[i]) - 1, order)
  <2>1. CASE i = n
      BY <2>1
  <2>2. CASE i \in 1..(n - 1)
    <3>1. Holds(more, s[i], node[i], Loc(c, s[i]), Begun(s[i], node[i]) - 1, order)
        BY <2>2, BelowHolds
    <3>2. QED
        BY <2>2, <3>1, <1>2
  <2>3. QED
      BY <2>1, <2>2, <1>1
<1>4. QED
    BY <1>3 DEF Content

LEMMA ContentPush ==
    ASSUME NEW order \in Orders, NEW s, NEW m, NEW node, NEW due, NEW rest,
           Places(s, m, order, node, due, rest), NEW n, n = Len(s),
           NEW hungry \in BOOLEAN, NEW more \in BOOLEAN, hungry => more,
           NEW ctx, Content(hungry, s, ctx, order, node), NEW c,
           Off(s, n, ctx, c),
           NEW g, Holds(more, g, node[n], Loc(c, g), Begun(g, node[n]) - 1, order),
           NEW h, NEW w, Holds(more, h, w, Loc(c, h), Begun(h, w), order),
           NEW t, TopPushed(s, t, n, g, h),
           NEW wider, Widened(wider, node, n, w)
    PROVE  Content(more, t, c, order, wider)
<1> USE DEF TopPushed, Off, Widened
<1>0. Len(s) \in 1..9
    BY PlacesAre
<1>1. \A i \in 1..(n + 1) : i \in 1..(n - 1) \/ i = n \/ i = n + 1
    BY <1>0
<1>2. /\ \A i \in 1..(n - 1) : i # n /\ i # n + 1 /\ i \in 1..n
      /\ n # n + 1 /\ n \in 1..n
    BY <1>0
<1>3. ASSUME NEW i \in 1..(n + 1)
      PROVE  Holds(more, t[i], wider[i], Loc(c, t[i]),
                   IF i = n + 1 THEN Begun(t[i], wider[i]) ELSE Begun(t[i], wider[i]) - 1, order)
  <2>1. CASE i = n + 1
      BY <2>1
  <2>2. CASE i = n
      BY <2>2, <1>2
  <2>3. CASE i \in 1..(n - 1)
    <3>1. Holds(more, s[i], node[i], Loc(c, s[i]), Begun(s[i], node[i]) - 1, order)
        BY <2>3, BelowHolds
    <3>2. QED
        BY <2>3, <3>1, <1>2
  <2>4. QED
      BY <2>1, <2>2, <2>3, <1>1
<1>4. QED
    BY <1>3 DEF Content

\* A frame is done: what it was read to is what its node is unpacked to.
LEMMA FrameDone ==
    ASSUME NEW order \in Orders, NEW hungry \in BOOLEAN, NEW g, NEW w, Reads(g, w, order), g.left = 0,
           NEW o, Holds(hungry, g, w, o, Begun(g, w), order)
    PROVE  /\ g.what = "map" => AlikeNode(hungry, g.kind, o, UnNode(g.kind, w)) /\ NodeGood(g.kind, w)
           /\ g.what = "array" =>
                 /\ IsList(o) /\ IsList(w) /\ Len(o) = Len(w) /\ AllGood(g.kind, w)
                 /\ \A i \in 1..Len(w) : AlikeNode(hungry, g.kind, o[i], UnNode(g.kind, w[i]))
<1>1. Begun(g, w) = Size(g, w)
    BY DueEnds, Zenon
<1>2. CASE g.what = "map"
  <2>1. g.kind \in Kinds /\ IsNode(g.kind, w)
      BY <1>2, ReadsWhat
  <2>2. Size(g, w) = EntryCount[g.kind]
      BY <1>2 DEF Size
  <2>3. PICK next : HoldsMap(hungry, g.kind, w, o, EntryCount[g.kind], next, order)
      BY <1>1, <1>2, <2>2 DEF Holds
  <2>4. AlikeNode(hungry, g.kind, o, UnNode(g.kind, w)) /\ NodeGood(g.kind, w)
      BY <2>1, <2>3, HeldIsAlike
  <2>5. QED
      BY <1>2, <2>4
<1>3. CASE g.what = "array"
  <2>1. IsList(w)
      BY <1>3, ReadsWhat DEF AreNodes
  <2>2. Size(g, w) = Len(w) /\ g.left # Unopened
      BY <1>3 DEF Size, Unopened
  <2>3. HoldsArray(hungry, g.kind, w, o, Len(w), Len(w)) /\ Len(w) <= MaxArray
      BY <1>1, <1>3, <2>2 DEF Holds
  <2>4. QED
      BY <1>3, <2>1, <2>3 DEF HoldsArray, AllGood
<1>4. QED
    BY <1>2, <1>3, ReadsWhat

LEMMA UnListIs ==
    ASSUME NEW w, IsList(w), NEW kind
    PROVE  LET e == [i \in DOMAIN w |-> UnNode(kind, w[i])]
           IN  /\ Len(e) = Len(w) /\ \A i \in 1..Len(w) : e[i] = UnNode(kind, w[i])
<1>1. PICK n : n = Len(w)
    OBVIOUS
<1>2. n \in Nat /\ DOMAIN w = 1..n
    BY <1>1, ListFacts
<1>3. PICK S : S = {UnNode(kind, w[i]) : i \in 1..n}
    OBVIOUS
<1>4. PICK e : e = [i \in 1..n |-> UnNode(kind, w[i])]
    OBVIOUS
<1>5. e \in [1..n -> S]
    BY <1>3, <1>4
<1>6. e \in Seq(S) /\ Len(e) = n
    BY <1>2, <1>5
<1>7. QED
    BY <1>1, <1>2, <1>4, <1>6

LEMMA SlotOf ==
    ASSUME NEW kind \in Kinds, NEW g, SlotKey(g) \in Range(Entries[kind]),
           \/ g.what = "map" /\ g.kind \in Kinds
           \/ g.what = "array" /\ g.kind \in DOMAIN ArrayLevel
    PROVE  /\ g.what = "map" => SlotKey(g) = g.kind /\ g.kind \in {"resource", "scope", "status"}
           /\ g.what = "array" => SlotKey(g) \in ArrayKeys /\ Element[SlotKey(g)] = g.kind
<1>1. CASE g.what = "map" /\ g.kind \in Kinds
  <2>1. SlotKey(g) = g.kind
      BY <1>1 DEF SlotKey
  <2>2. g.kind \in PlainKeys \cup ArrayKeys \cup MapKeys
      BY <2>1, AnyKeys
  <2>3. QED
      BY <1>1, <2>1, <2>2, KeysAre DEF Kinds, MapLevel
<1>2. CASE g.what = "array" /\ g.kind \in DOMAIN ArrayLevel
  <2>1. SlotKey(g) = Slot[g.kind]
      BY <1>2 DEF SlotKey
  <2>2. QED
      BY <1>2, <2>1, KeysDiffer DEF Slot, ArrayLevel
<1>3. QED
    BY <1>1, <1>2

\* What the innermost frame was read to is the value that the one below waits for.
LEMMA ChildValue ==
    ASSUME NEW order \in Orders, NEW hungry \in BOOLEAN, NEW kind \in Kinds,
           NEW g, NEW w, Reads(g, w, order), g.left = 0, SlotKey(g) \in Range(Entries[kind]),
           g.kind = "scope" => w # NULL,
           NEW q, Holds(hungry, g, w, q, Begun(g, w), order)
    PROVE  /\ AlikeValue(hungry, kind, SlotKey(g), q, UnValue(kind, SlotKey(g), w))
           /\ ValueGood(SlotKey(g), w)
<1>1. PICK key : key = SlotKey(g)
    OBVIOUS
<1>2. \/ g.what = "map" /\ g.kind \in Kinds
      \/ g.what = "array" /\ g.kind \in DOMAIN ArrayLevel
    BY ReadsWhat
<1>3. /\ g.what = "map" => key = g.kind /\ g.kind \in {"resource", "scope", "status"}
      /\ g.what = "array" => key \in ArrayKeys /\ Element[key] = g.kind
    BY <1>1, <1>2, SlotOf
<1>4. CASE g.what = "map"
  <2>1. key \in {"resource", "scope", "status"} /\ key = g.kind
      BY <1>3, <1>4
  <2>2. AlikeNode(hungry, key, q, UnNode(key, w)) /\ NodeGood(key, w)
      BY <1>4, <2>1, FrameDone
  <2>3. q = UnNode(key, w)
      BY <2>1, <2>2, FlatAlike DEF FlatKinds
  <2>4. UnValue(kind, key, w) = UnNode(key, w)
    <3>1. CASE key \in {"resource", "status"}
        BY <3>1, UnValueIs
    <3>2. CASE key = "scope"
      <4>1. w # NULL
          BY <2>1, <3>2
      <4>2. UnValue(kind, "scope", w) = unpack_instrumentation_scope(w)
          BY UnValueIs
      <4>3. UnNode("scope", w) = [name |-> w.name, version |-> w.version, attr |-> w.attributes,
                                  dropped_attr_count |-> w.dropped_attributes_count]
          BY UnNodeIs
      <4>4. unpack_instrumentation_scope(w) =
                 [name |-> w.name, version |-> w.version, attr |-> w.attributes,
                  dropped_attr_count |-> w.dropped_attributes_count]
          BY <4>1 DEF unpack_instrumentation_scope
      <4>5. QED
          BY <3>2, <4>2, <4>3, <4>4
    <3>3. QED
        BY <2>1, <3>1, <3>2
  <2>5. AlikeValue(hungry, kind, key, q, UnValue(kind, key, w))
      BY <2>1, <2>3, <2>4, KeysDiffer DEF AlikeValue, MapKeys, IdKeys
  <2>6. ValueGood(key, w)
      BY <2>1, <2>2, KeysDiffer DEF ValueGood, MapKeys, IdKeys
  <2>7. QED
      BY <1>1, <2>5, <2>6
<1>5. CASE g.what = "array"
  <2>1. key \in ArrayKeys /\ Element[key] = g.kind
      BY <1>3, <1>5
  <2>2. /\ IsList(q) /\ IsList(w) /\ Len(q) = Len(w) /\ AllGood(g.kind, w)
        /\ \A i \in 1..Len(w) : AlikeNode(hungry, g.kind, q[i], UnNode(g.kind, w[i]))
      BY <1>5, FrameDone
  <2>3. PICK e : e = UnValue(kind, key, w)
      OBVIOUS
  <2>4. e = [i \in DOMAIN w |-> UnNode(g.kind, w[i])]
      BY <2>1, <2>3, UnValueIs
  <2>5. Len(e) = Len(w) /\ \A i \in 1..Len(w) : e[i] = UnNode(g.kind, w[i])
      BY <2>2, <2>4, UnListIs
  <2>6. AlikeValue(hungry, kind, key, q, e)
    <3>1. key \notin IdKeys
        BY <2>1, KeysDiffer DEF IdKeys
    <3>2. QED
        BY <2>1, <2>2, <2>5, <3>1 DEF AlikeValue
  <2>7. ValueGood(key, w)
    <3>1. key # "attributes" /\ key \notin IdKeys /\ key # "resource" /\ key # "scope"
        BY <2>1, KeysDiffer DEF IdKeys
    <3>2. QED
        BY <2>1, <2>2, <3>1 DEF ValueGood
  <2>8. QED
      BY <1>1, <2>3, <2>6, <2>7
<1>6. QED
    BY <1>2, <1>4, <1>5

LEMMA ChildDone ==
    ASSUME NEW order \in Orders, NEW hungry \in BOOLEAN,
           NEW f, NEW v, Reads(f, v, order), NEW g, NEW w, Reads(g, w, order), g.left = 0,
           Linked(f, g, v, w, order), NEW o, NEW q,
           Holds(hungry, f, v, o, Begun(f, v) - 1, order), Holds(hungry, g, w, q, Begun(g, w), order),
           f.what = "array" => q = Last(o), f.what = "map" => q = o[FieldFor(SlotKey(g))]
    PROVE  Holds(hungry, f, v, o, Begun(f, v), order)
<1>1. PICK b : b = Begun(f, v)
    OBVIOUS
<1>2. b \in 1..Size(f, v) /\ Size(f, v) \in Nat
  <2>1. Size(f, v) \in Nat
      BY PartsAre
  <2>2. Begun(f, v) \in 1..Size(f, v)
      BY Zenon DEF Linked
  <2>3. QED
      BY <1>1, <2>1, <2>2
<1>3. \A i \in 1..b : i \in 1..(b - 1) \/ i = b
    BY <1>2
<1>4. CASE f.what = "map"
  <2>1. PICK kind, key : kind = f.kind /\ key = SlotKey(g)
      OBVIOUS
  <2>2. kind \in Kinds
      BY <1>4, <2>1, ReadsWhat
  <2>3. order[f.kind][Begun(f, v)] = SlotKey(g) /\ w = v[SlotKey(g)] /\ (g.kind = "scope" => w # NULL)
      BY <1>4, Zenon DEF Linked
  <2>4. order[kind][b] = key /\ w = v[key]
      BY <1>1, <2>1, <2>3
  <2>5. key \in Range(Entries[kind])
    <3>1. Size(f, v) = EntryCount[kind]
        BY <1>4, <2>1 DEF Size
    <3>2. QED
        BY <1>2, <2>2, <2>4, <3>1, OrderIs
  <2>6. AlikeValue(hungry, kind, key, q, UnValue(kind, key, v[key])) /\ ValueGood(key, v[key])
      BY <2>1, <2>2, <2>3, <2>4, <2>5, ChildValue
  <2>7. q = o[FieldFor(key)]
      BY <1>4, <2>1
  <2>8. HoldsMap(hungry, kind, v, o, b - 1, b + 1, order)
      BY <1>1, <1>4, <2>1 DEF Holds
  <2>9. ASSUME NEW i \in 1..b
        PROVE  /\ AlikeValue(hungry, kind, order[kind][i], o[FieldFor(order[kind][i])],
                             UnValue(kind, order[kind][i], v[order[kind][i]]))
               /\ ValueGood(order[kind][i], v[order[kind][i]])
    <3>1. CASE i = b
        BY <3>1, <2>4, <2>6, <2>7
    <3>2. CASE i \in 1..(b - 1)
        BY <3>2, <2>8 DEF HoldsMap
    <3>3. QED
        BY <3>1, <3>2, <1>3
  <2>10. HoldsMap(hungry, kind, v, o, b, b + 1, order)
      BY <2>8, <2>9 DEF HoldsMap
  <2>11. QED
      BY <1>1, <1>4, <2>1, <2>10 DEF Holds
<1>5. CASE f.what = "array"
  <2>1. g.what = "map" /\ g.kind = f.kind /\ w = v[Begun(f, v)]
      BY <1>5, Zenon DEF Linked
  <2>2. HoldsArray(hungry, f.kind, v, o, b - 1, b) /\ (f.left # Unopened => Len(v) <= MaxArray)
      BY <1>1, <1>5 DEF Holds
  <2>3. IsList(o) /\ Len(o) = b
      BY <2>2 DEF HoldsArray
  <2>4. q = o[b]
    <3>1. o # <<>>
        BY <1>2, <2>3, ListFacts
    <3>2. QED
        BY <1>5, <2>3, <3>1, ListFacts
  <2>5. AlikeNode(hungry, f.kind, q, UnNode(f.kind, w)) /\ NodeGood(f.kind, w)
      BY <2>1, FrameDone
  <2>6. ASSUME NEW i \in 1..b
        PROVE  AlikeNode(hungry, f.kind, o[i], UnNode(f.kind, v[i])) /\ NodeGood(f.kind, v[i])
    <3>1. CASE i = b
        BY <3>1, <1>1, <2>1, <2>4, <2>5
    <3>2. CASE i \in 1..(b - 1)
        BY <3>2, <2>2 DEF HoldsArray
    <3>3. QED
        BY <3>1, <3>2, <1>3
  <2>7. HoldsArray(hungry, f.kind, v, o, b, b)
      BY <2>2, <2>6 DEF HoldsArray
  <2>8. QED
      BY <1>1, <1>5, <2>2, <2>7 DEF Holds
<1>6. QED
    BY <1>4, <1>5, ReadsWhat

LEMMA ContentClose ==
    ASSUME NEW order \in Orders, NEW s, NEW m, NEW node, NEW due, NEW rest,
           Places(s, m, order, node, due, rest), NEW n, n = Len(s), n # 1, s[n].left = 0,
           NEW hungry \in BOOLEAN, NEW ctx, Content(hungry, s, ctx, order, node),
           NEW t, IsList(t), Len(t) = n - 1, \A i \in 1..(n - 1) : t[i] = s[i]
    PROVE  Content(hungry, t, ctx, order, node)
<1>0. Len(s) \in 1..9 /\ Lineage(s)
    BY PlacesAre
<1>1. PICK k : k = n - 1
    OBVIOUS
<1>2. k \in 1..Len(s) /\ k \in 1..(Len(s) - 1) /\ k # Len(s) /\ k + 1 = n /\ n \in 1..Len(s)
    BY <1>0, <1>1
<1>3. PICK f, g, v, w, o, q : /\ f = s[k] /\ g = s[n] /\ v = node[k] /\ w = node[n]
                              /\ o = Loc(ctx, s[k]) /\ q = Loc(ctx, s[n])
    OBVIOUS
<1>4. Reads(f, v, order) /\ Reads(g, w, order) /\ Linked(f, g, v, w, order)
  <2>1. Reads(s[k], node[k], order) /\ Reads(s[n], node[n], order)
      BY <1>2 DEF Places
  <2>2. Linked(s[k], s[k + 1], node[k], node[k + 1], order)
      BY <1>2 DEF Places
  <2>3. QED
      BY <1>2, <1>3, <2>1, <2>2
<1>5. Holds(hungry, f, v, o, Begun(f, v) - 1, order) /\ Holds(hungry, g, w, q, Begun(g, w), order)
  <2>1. Holds(hungry, s[k], node[k], Loc(ctx, s[k]), Begun(s[k], node[k]) - 1, order)
      BY <1>2 DEF Content
  <2>2. Holds(hungry, s[n], node[n], Loc(ctx, s[n]), Begun(s[n], node[n]), order)
      BY <1>2 DEF Content
  <2>3. QED
      BY <1>3, <2>1, <2>2
<1>6. /\ f.what = "array" => q = Last(o)
      /\ f.what = "map" => q = o[FieldFor(SlotKey(g))]
  <2>0. PICK i : i = k
      OBVIOUS
  <2>1. s[i].what = "array" => Loc(ctx, s[i + 1]) = Last(Loc(ctx, s[i]))
      BY ONLY <1>0, <1>2, <2>0, Nested
  <2>2. s[i].what = "map" => Loc(ctx, s[i + 1]) = Loc(ctx, s[i])[FieldFor(SlotKey(s[i + 1]))]
      BY ONLY <1>0, <1>2, <2>0, Nested
  <2>3. i = k /\ i + 1 = n
      BY <1>2, <2>0
  <2>4. QED
      BY <1>3, <2>1, <2>2, <2>3
<1>7. g.left = 0
    BY <1>3
<1>8. Holds(hungry, f, v, o, Begun(f, v), order)
    BY <1>4, <1>5, <1>6, <1>7, ChildDone
<1>9. \A i \in 1..k : i \in 1..(k - 1) \/ i = k
    BY <1>2
<1>10. \A i \in 1..k : i \in 1..Len(s) /\ i # Len(s) /\ i \in 1..(n - 1)
    BY <1>0, <1>1
<1>11. ASSUME NEW i \in 1..k
       PROVE  Holds(hungry, t[i], node[i], Loc(ctx, t[i]),
                    IF i = k THEN Begun(t[i], node[i]) ELSE Begun(t[i], node[i]) - 1, order)
  <2>1. t[i] = s[i]
      BY <1>10
  <2>2. CASE i = k
      BY <2>1, <2>2, <1>3, <1>8
  <2>3. CASE i # k
      BY <2>1, <2>3, <1>10 DEF Content
  <2>4. QED
      BY <2>2, <2>3
<1>12. QED
    BY <1>1, <1>11 DEF Content

\* The whole message has been read.
Complete(hungry, m, ctx) ==
    /\ Good(m)
    /\ AlikeNode(hungry, "context", [resourceSpans |-> ctx],
                 UnNode("context", [resourceSpans |-> m]))

LEMMA LastCloses ==
    ASSUME NEW order \in Orders, NEW s, NEW m, NEW node, NEW due, NEW rest,
           Places(s, m, order, node, due, rest), Len(s) = 1, s[1].left = 0,
           NEW hungry \in BOOLEAN, NEW ctx, Content(hungry, s, ctx, order, node)
    PROVE  Complete(hungry, m, ctx)
<1>0. Lineage(s)
    BY PlacesAre
<1>1. s[1].what = "map" /\ s[1].kind = "context"
    BY <1>0, LineageIs DEF IsAt
<1>2. PICK g, w : g = s[1] /\ w = node[1]
    OBVIOUS
<1>3. Reads(g, w, order) /\ w = [resourceSpans |-> m] /\ g.left = 0
    BY <1>2 DEF Places
<1>4. Holds(hungry, g, w, Loc(ctx, g), Begun(g, w), order)
    BY <1>2 DEF Content
<1>5. Loc(ctx, g) = [resourceSpans |-> ctx]
    BY <1>1, <1>2, LocIs
<1>6. AlikeNode(hungry, "context", [resourceSpans |-> ctx], UnNode("context", w)) /\ NodeGood("context", w)
    BY <1>1, <1>2, <1>3, <1>4, <1>5, FrameDone
<1>7. Good(m)
    BY <1>3, <1>6 DEF NodeGood
<1>8. QED
    BY <1>3, <1>6, <1>7 DEF Complete

-----------------------------------------------------------------------------
(* Where a call is, reading a message of this library.                     *)

\* What a message that is refused may be refused for.
Excused(m) == err \/ starved # {} \/ ~Good(m)

AtWork(m, order, rest) ==
    \E node, due :
        /\ Places(stack, m, order, node, due, rest)
        /\ Content(starved # {}, stack, trace, order, node)
        /\ RestAt(buffer.tokens, pos) = due[Len(stack)]

Underway(m, order, rest) ==
    /\ result = "ok" /\ stack # <<>> => AtWork(m, order, rest)
    /\ result = "ok" /\ stack = <<>> =>
          Complete(starved # {}, m, trace) /\ RestAt(buffer.tokens, pos) = rest
    /\ result # "ok" => Excused(m)

\* A refusal that is excused.
LEMMA Refused ==
    ASSUME NEW why, why # "ok", Fail(why), NEW m, Excused(m)', NEW order, NEW rest
    PROVE  Underway(m, order, rest)'
BY DEF Fail, Underway

LEMMA EndExcused ==
    ASSUME NEW why, why # "ok", EndAt(why), NEW m, NEW order, NEW rest
    PROVE  Underway(m, order, rest)'
<1>1. Excused(m)'
    BY DEF EndAt, Excused
<1>2. QED
    BY <1>1, Refused DEF EndAt

LEMMA StarvedExcused ==
    ASSUME NEW why, why # "ok", Fail(why), NEW what, what \in starved', NEW m, NEW order, NEW rest
    PROVE  Underway(m, order, rest)'
<1>1. Excused(m)'
    BY DEF Excused
<1>2. QED
    BY <1>1, Refused

\* The token that comes is the one that is due.
LEMMA TokenDue ==
    ASSUME IInv, free = 0, buffer.tokens \in Seq(TokenSet),
           NEW x, NEW r \in Seq(TokenSet), IsJoined(RestAt(buffer.tokens, pos), <<x>>, r),
           NEW t, OnScript(t) \/ (Take(t) /\ free' = 0)
    PROVE  t = x /\ OnScript(t) /\ (Take(t) => buffer' = buffer /\ RestAt(buffer.tokens, pos)' = r)
<1>1. PICK tokens, p : tokens = buffer.tokens /\ p = pos
    OBVIOUS
<1>2. p \in Nat /\ tokens \in Seq(TokenSet)
    BY <1>1 DEF IInv, Typed
<1>3. IsJoined(RestAt(tokens, p), <<x>>, r)
    BY <1>1
<1>4. p < Len(tokens) /\ tokens[p + 1] = x /\ RestAt(tokens, p + 1) = r
    BY <1>2, <1>3, RestNext
<1>5. OnScript(t)
  <2>1. Take(t) /\ ~OnScript(t) => free' = 1
      BY DEF Take
  <2>2. QED
      BY <2>1
<1>6. t = x
    BY <1>1, <1>4, <1>5 DEF OnScript
<1>7. Take(t) => pos' = p + 1 /\ buffer' = buffer
    BY <1>1, <1>5 DEF Take
<1>8. Take(t) => RestAt(buffer.tokens, pos)' = r
    BY <1>1, <1>4, <1>7 DEF RestAt
<1>9. QED
    BY <1>5, <1>6, <1>7, <1>8

\* No other type than that of the token that is due.
LEMMA NotWrong ==
    ASSUME IInv, free = 0, free' = 0, buffer.tokens \in Seq(TokenSet),
           NEW x, NEW r \in Seq(TokenSet), IsJoined(RestAt(buffer.tokens, pos), <<x>>, r),
           NEW type, NEW peeked, WrongType(type, peeked), TypeOf(x) \in type
    PROVE  FALSE
<1>1. PICK t \in Upcoming :
          TypeOf(t) \notin type /\ (OnScript(t) \/ (Take(t) /\ free' = 0))
    BY DEF WrongType
<1>2. t = x
    BY <1>1, TokenDue
<1>3. QED
    BY <1>1, <1>2

\* What was due is read: x is nothing, or the one token that came.
Consumed(x) ==
    \A r \in Seq(TokenSet) :
        RestAt(buffer.tokens, pos) = x \o r => RestAt(buffer.tokens, pos)' = r

LEMMA NothingConsumed ==
    ASSUME UNCHANGED <<buffer, pos>>
    PROVE  Consumed(<<>>)
<1>1. PICK q : q = RestAt(buffer.tokens, pos)
    OBVIOUS
<1>2. RestAt(buffer.tokens, pos)' = q
    BY <1>1 DEF RestAt
<1>3. \A r \in Seq(TokenSet) : <<>> \o r = r
    OBVIOUS
<1>4. QED
    BY <1>1, <1>2, <1>3 DEF Consumed

LEMMA TokenConsumed ==
    ASSUME IInv, free = 0, free' = 0, buffer.tokens \in Seq(TokenSet), NEW x, NEW t, Take(t)
    PROVE  Consumed(<<x>>)
BY TokenDue DEF Consumed, IsJoined

-----------------------------------------------------------------------------
(* A step that goes on.                                                    *)

\* The stack, the context and the tokens fit, with these nodes.
Follows(m, order, rest, node, due) ==
    /\ Places(stack, m, order, node, due, rest)
    /\ Content(starved # {}, stack, trace, order, node)
    /\ RestAt(buffer.tokens, pos) = due[Len(stack)]

LEMMA FollowsIs ==
    ASSUME NEW m, NEW order, NEW rest
    PROVE  /\ AtWork(m, order, rest) => \E node, due : Follows(m, order, rest, node, due)
           /\ \A node, due : Follows(m, order, rest, node, due)' => AtWork(m, order, rest)'
BY DEF AtWork, Follows

LEMMA AsJoined == \A x, a, b : x = a \o b <=> IsJoined(x, a, b)
BY DEF IsJoined

LEMMA StackIs ==
    ASSUME NEW m, NEW order \in Orders, NEW rest, NEW node, NEW due, Follows(m, order, rest, node, due)
    PROVE  /\ IsList(stack) /\ stack # <<>> /\ Len(stack) \in 1..9 /\ Top = stack[Len(stack)]
           /\ Reads(Top, node[Len(stack)], order)
           /\ Good(m) => FrameGood(Top, node[Len(stack)])
           /\ IsJoined(RestAt(buffer.tokens, pos), Due(Top, node[Len(stack)], order), due[Len(stack) - 1])
           /\ due[Len(stack) - 1] \in Seq(TokenSet)
           /\ Holds(starved # {}, Top, node[Len(stack)], Loc(trace, Top),
                    Begun(Top, node[Len(stack)]), order)
<1>1. Places(stack, m, order, node, due, rest) /\ RestAt(buffer.tokens, pos) = due[Len(stack)]
    BY DEF Follows
<1>2. IsList(stack)
    BY <1>1 DEF Places
<1>3. /\ Len(stack) \in 1..9 /\ stack # <<>> /\ Last(stack) = stack[Len(stack)]
      /\ Reads(stack[Len(stack)], node[Len(stack)], order)
      /\ Good(m) => FrameGood(stack[Len(stack)], node[Len(stack)])
      /\ IsJoined(due[Len(stack)], Due(stack[Len(stack)], node[Len(stack)], order), due[Len(stack) - 1])
      /\ due[Len(stack) - 1] \in Seq(TokenSet)
    BY <1>1, PlacesAre
<1>4. PICK n : n = Len(stack)
    OBVIOUS
<1>5. n \in 1..Len(stack)
    BY <1>3, <1>4
<1>6. Holds(starved # {}, stack[n], node[n], Loc(trace, stack[n]), Begun(stack[n], node[n]), order)
    BY <1>4, <1>5 DEF Follows, Content
<1>7. QED
    BY <1>1, <1>2, <1>3, <1>4, <1>6 DEF Top

LEMMA MoreStarved ==
    ASSUME starved \subseteq starved'
    PROVE  (starved # {}) \in BOOLEAN /\ (starved' # {}) \in BOOLEAN /\ (starved # {} => starved' # {})
OBVIOUS

LEMMA SwapFits ==
    ASSUME NEW m, NEW order \in Orders, NEW rest, NEW node, NEW due, Follows(m, order, rest, node, due),
           starved \subseteq starved', Off(stack, Len(stack), trace, trace'),
           NEW g, g.what = Top.what, g.kind = Top.kind, Reads(g, node[Len(stack)], order),
           stack' = Append(Below, g),
           NEW x \in Seq(TokenSet),
           IsJoined(Due(Top, node[Len(stack)], order), x, Due(g, node[Len(stack)], order)),
           Consumed(x),
           Holds(starved' # {}, g, node[Len(stack)], Loc(trace', g), Begun(g, node[Len(stack)]), order)
    PROVE  AtWork(m, order, rest)'
<1>1. /\ Places(stack, m, order, node, due, rest) /\ RestAt(buffer.tokens, pos) = due[Len(stack)]
      /\ Content(starved # {}, stack, trace, order, node)
    BY DEF Follows
<1>2. IsList(stack) /\ stack # <<>> /\ Len(stack) \in 1..9 /\ Top = stack[Len(stack)]
    BY StackIs
<1>3. PICK n, s, t, c, k, l : /\ n = Len(stack) /\ s = stack /\ t = stack' /\ c = trace'
                              /\ k = (starved # {}) /\ l = (starved' # {})
    OBVIOUS
<1>4. TopSwapped(s, t, n, g)
    BY <1>2, <1>3, SwapFacts DEF TopSwapped
<1>5. k \in BOOLEAN /\ l \in BOOLEAN /\ (k => l)
    BY <1>3, MoreStarved
<1>6. /\ Places(s, m, order, node, due, rest) /\ n = Len(s)
      /\ g.what = s[n].what /\ g.kind = s[n].kind /\ Reads(g, node[n], order)
      /\ IsJoined(Due(s[n], node[n], order), x, Due(g, node[n], order))
    BY <1>1, <1>2, <1>3
<1>7. PICK next : Places(t, m, order, node, next, rest) /\ IsJoined(due[n], x, next[n])
    BY <1>4, <1>6, PlacesSwap
<1>8. Content(l, t, c, order, node)
  <2>1. Content(k, s, trace, order, node)
      BY <1>1, <1>3
  <2>2. Off(s, n, trace, c)
      BY <1>3
  <2>3. Holds(l, g, node[n], Loc(c, g), Begun(g, node[n]), order)
      BY <1>3
  <2>4. QED
      BY <1>4, <1>5, <1>6, <2>1, <2>2, <2>3, ContentSwap
<1>9. next[n] \in Seq(TokenSet)
  <2>1. n \in 1..Len(t)
      BY <1>2, <1>3, <1>4 DEF TopSwapped
  <2>2. QED
      BY <1>7, <2>1 DEF Places
<1>10. RestAt(buffer.tokens, pos)' = next[n]
    BY <1>1, <1>3, <1>7, <1>9 DEF Consumed, IsJoined
<1>11. Follows(m, order, rest, node, next)'
    BY <1>3, <1>4, <1>7, <1>8, <1>10 DEF Follows, TopSwapped
<1>12. QED
    BY <1>11, FollowsIs

LEMMA PushFits ==
    ASSUME NEW m, NEW order \in Orders, NEW rest, NEW node, NEW due, Follows(m, order, rest, node, due),
           starved \subseteq starved', Off(stack, Len(stack), trace, trace'),
           NEW g, g.what = Top.what, g.kind = Top.kind, Reads(g, node[Len(stack)], order),
           NEW h, NEW w, Linked(g, h, node[Len(stack)], w, order), Level(h) = Len(stack) + 1,
           Reads(h, w, order), Good(m) => FrameGood(h, w),
           stack' = Push(g, h),
           NEW x \in Seq(TokenSet),
           NEW u, IsJoined(u, Due(h, w, order), Due(g, node[Len(stack)], order)),
           IsJoined(Due(Top, node[Len(stack)], order), x, u),
           Consumed(x),
           Holds(starved' # {}, g, node[Len(stack)], Loc(trace', g),
                 Begun(g, node[Len(stack)]) - 1, order),
           Lineage(stack') => Holds(starved' # {}, h, w, Loc(trace', h), Begun(h, w), order)
    PROVE  AtWork(m, order, rest)'
<1>1. /\ Places(stack, m, order, node, due, rest) /\ RestAt(buffer.tokens, pos) = due[Len(stack)]
      /\ Content(starved # {}, stack, trace, order, node)
    BY DEF Follows
<1>2. IsList(stack) /\ stack # <<>> /\ Len(stack) \in 1..9 /\ Top = stack[Len(stack)]
    BY StackIs
<1>3. PICK n, s, t, c, k, l : /\ n = Len(stack) /\ s = stack /\ t = stack' /\ c = trace'
                              /\ k = (starved # {}) /\ l = (starved' # {})
    OBVIOUS
<1>4. TopPushed(s, t, n, g, h)
    BY <1>2, <1>3, PushFacts DEF TopPushed
<1>5. k \in BOOLEAN /\ l \in BOOLEAN /\ (k => l)
    BY <1>3, MoreStarved
<1>6. /\ Places(s, m, order, node, due, rest) /\ n = Len(s)
      /\ g.what = s[n].what /\ g.kind = s[n].kind /\ Reads(g, node[n], order)
      /\ Linked(g, h, node[n], w, order) /\ Level(h) = n + 1
      /\ IsJoined(Due(s[n], node[n], order), x, u)
      /\ IsJoined(u, Due(h, w, order), Due(g, node[n], order))
    BY <1>1, <1>2, <1>3
<1>7. PICK more, next :
          /\ Places(t, m, order, more, next, rest) /\ IsJoined(due[n], x, next[n + 1])
          /\ Widened(more, node, n, w)
  <2>1. Reads(h, w, order) /\ (Good(m) => FrameGood(h, w)) /\ x \in Seq(TokenSet) /\ order \in Orders
      OBVIOUS
  <2>2. QED
      BY ONLY <2>1, <1>4, <1>6, PlacesPush
<1>8. Content(l, t, c, order, more)
  <2>1. Content(k, s, trace, order, node)
      BY <1>1, <1>3
  <2>2. Off(s, n, trace, c)
      BY <1>3
  <2>3. Holds(l, g, node[n], Loc(c, g), Begun(g, node[n]) - 1, order)
      BY <1>3
  <2>4. Lineage(t)
      BY <1>7, PlacesAre
  <2>5. Holds(l, h, w, Loc(c, h), Begun(h, w), order)
      BY <1>3, <2>4
  <2>6. QED
      BY <1>4, <1>5, <1>6, <1>7, <2>1, <2>2, <2>3, <2>5, ContentPush
<1>9. next[n + 1] \in Seq(TokenSet)
  <2>1. n + 1 \in 1..Len(t)
      BY <1>2, <1>3, <1>4 DEF TopPushed
  <2>2. QED
      BY <1>7, <2>1 DEF Places
<1>10. RestAt(buffer.tokens, pos)' = next[n + 1]
    BY <1>1, <1>3, <1>7, <1>9 DEF Consumed, IsJoined
<1>11. Follows(m, order, rest, more, next)'
    BY <1>3, <1>4, <1>7, <1>8, <1>10 DEF Follows, TopPushed
<1>12. QED
    BY <1>11, FollowsIs

-----------------------------------------------------------------------------
(* A value is read.                                                        *)

\* Before and after a handler, of a value w under the key at hand.
LEMMA KeyAtHand ==
    ASSUME IInv, NEW m, NEW order \in Orders, NEW rest, NEW node, NEW due,
           Follows(m, order, rest, node, due), ~Keyless(Top),
           NEW v, v = node[Len(stack)], NEW w, w = v[Top.key]
    PROVE  /\ Reads(Top, v, order)
           /\ HandledFrame.what = Top.what /\ HandledFrame.kind = Top.kind
           /\ Keyless(HandledFrame) /\ HandledFrame.left = Top.left - 1
           /\ Top.what = "map" /\ Top.kind \in Kinds /\ Top.key \in Range(Entries[Top.kind])
           /\ IsJoined(Due(Top, v, order), WireValue(Top.key, w, order), Due(HandledFrame, v, order))
           /\ Reads(HandledFrame, v, order) /\ Begun(HandledFrame, v) = Begun(Top, v) + 1
           /\ Begun(HandledFrame, v) \in 1..EntryCount[Top.kind] /\ Begun(Top, v) \in Nat
           /\ Size(HandledFrame, v) = EntryCount[Top.kind]
           /\ Top.key = order[Top.kind][Begun(HandledFrame, v)]
           /\ IsNode(Top.kind, v) /\ IsValue(Top.kind, Top.key, w)
           /\ WireValue(Top.key, w, order) \in Seq(TokenSet)
           /\ HoldsMap(starved # {}, Top.kind, v, Loc(trace, Top), Begun(Top, v), Begun(Top, v) + 1, order)
<1>1. Reads(Top, v, order) /\ Holds(starved # {}, Top, v, Loc(trace, Top), Begun(Top, v), order)
    BY StackIs
<1>2. IsFrame(Top)
  <2>1. stack # <<>>
      BY StackIs
  <2>2. QED
      BY <2>1, TopFacts
<1>3. /\ HandledFrame.what = Top.what /\ HandledFrame.kind = Top.kind
      /\ Keyless(HandledFrame) /\ HandledFrame.left = Top.left - 1
  <2>1. HandledFrame.left = Top.left - 1
      BY <1>2, Zenon DEF HandledFrame, IsFrame
  <2>2. QED
      BY <1>2, <2>1, HandledFrameIs, Zenon DEF Keyless
<1>4. PICK f, g : f = Top /\ g = HandledFrame
    OBVIOUS
<1>5. /\ IsJoined(Due(f, v, order), WireValue(f.key, v[f.key], order), Due(g, v, order))
      /\ Reads(g, v, order) /\ Begun(g, v) = Begun(f, v) + 1 /\ Size(g, v) = Size(f, v)
      /\ Begun(g, v) \in 1..Size(f, v) /\ f.key = order[f.kind][Begun(g, v)]
      /\ f.what = "map" /\ f.kind \in Kinds
      /\ f.key \in Range(Entries[f.kind]) /\ IsValue(f.kind, f.key, v[f.key])
      /\ WireValue(f.key, v[f.key], order) \in Seq(TokenSet)
    BY <1>1, <1>3, <1>4, DueValue
<1>6. Size(f, v) = EntryCount[f.kind]
    BY <1>5 DEF Size
<1>7. Begun(f, v) \in Nat
  <2>1. Begun(f, v) \in 0..Size(f, v) /\ Size(f, v) \in Nat
      BY <1>1, <1>4, PartsAre
  <2>2. PICK b, n : b = Begun(f, v) /\ n = Size(f, v)
      OBVIOUS
  <2>3. b \in Nat
      BY <2>1, <2>2
  <2>4. QED
      BY <2>2, <2>3
<1>8. IsNode(f.kind, v)
    BY <1>1, <1>4, <1>5, ReadsWhat
<1>9. HoldsMap(starved # {}, f.kind, v, Loc(trace, f), Begun(f, v), Begun(f, v) + 1, order)
    BY <1>1, <1>4, <1>5, Zenon DEF Holds
<1>10. QED
    BY <1>1, <1>3, <1>4, <1>5, <1>6, <1>7, <1>8, <1>9

LEMMA SameLoc ==
    ASSUME NEW f, NEW g, g.what = f.what, g.kind = f.kind
    PROVE  \A ctx : Loc(ctx, g) = Loc(ctx, f)
BY DEF Loc

LEMMA ValueFits ==
    ASSUME IInv, NEW m, NEW order \in Orders, NEW rest, NEW node, NEW due,
           Follows(m, order, rest, node, due), ~Keyless(Top),
           NEW v, v = node[Len(stack)], NEW w, w = v[Top.key],
           starved \subseteq starved', Off(stack, Len(stack), trace, trace'),
           stack' = Append(Below, HandledFrame), Consumed(WireValue(Top.key, w, order)),
           NEW o, o = Loc(trace, Top), NEW p, p = Loc(trace', Top),
           SameBut(o, p, FieldFor(Top.key)) \/ p = o,
           AlikeValue(starved' # {}, Top.kind, Top.key, p[FieldFor(Top.key)],
                      UnValue(Top.kind, Top.key, w)),
           ValueGood(Top.key, w)
    PROVE  AtWork(m, order, rest)'
<1>1. PICK f, g, b, k, l : /\ f = Top /\ g = HandledFrame /\ b = Begun(Top, v)
                           /\ k = (starved # {}) /\ l = (starved' # {})
    OBVIOUS
<1>2. /\ g.what = f.what /\ g.kind = f.kind /\ f.what = "map" /\ f.kind \in Kinds
      /\ IsJoined(Due(f, v, order), WireValue(f.key, w, order), Due(g, v, order))
      /\ Reads(g, v, order) /\ Begun(g, v) = b + 1 /\ b + 1 \in 1..EntryCount[f.kind] /\ b \in Nat
      /\ f.key = order[f.kind][b + 1]
      /\ WireValue(f.key, w, order) \in Seq(TokenSet)
      /\ HoldsMap(k, f.kind, v, o, b, b + 1, order)
    BY <1>1, KeyAtHand
<1>3. k \in BOOLEAN /\ l \in BOOLEAN /\ (k => l)
    BY <1>1, MoreStarved
<1>4. HoldsMap(l, f.kind, v, p, b + 1, b + 1 + 1, order)
  <2>1. PICK kind, key : kind = f.kind /\ key = f.key
      OBVIOUS
  <2>2. /\ SameBut(o, p, FieldFor(key)) \/ p = o
        /\ AlikeValue(l, kind, key, p[FieldFor(key)], UnValue(kind, key, v[key]))
        /\ ValueGood(key, v[key]) /\ key = order[kind][b + 1]
        /\ kind \in Kinds /\ b + 1 \in 1..EntryCount[kind]
        /\ HoldsMap(k, kind, v, o, b, b + 1, order)
      BY <1>1, <1>2, <2>1
  <2>3. HoldsMap(l, kind, v, p, b + 1, b + 1 + 1, order)
      BY <1>2, <1>3, <2>2, ValueCame
  <2>4. QED
      BY <2>1, <2>3
<1>5. Loc(trace', g) = p
    BY <1>1, <1>2, SameLoc
<1>6. Holds(l, g, v, Loc(trace', g), Begun(g, v), order)
    BY <1>2, <1>4, <1>5 DEF Holds
<1>7. QED
    BY <1>1, <1>2, <1>6, SwapFits

LEMMA LevelsOf ==
    /\ \A kind \in {"event", "link"} : MapLevel[kind] = 9
    /\ \A kind \in Kinds : kind # "context" => MapLevel[kind] # 1
BY DEF Kinds, MapLevel

\* What a handler writes is a field of the structure at hand.
LEMMA StructureThere ==
    ASSUME IInv, Reading, NEW m, NEW order \in Orders, NEW rest, NEW node, NEW due,
           Follows(m, order, rest, node, due), ~Keyless(Top), Top.key \in PlainKeys
    PROVE  /\ Top.kind \in Kinds \ {"context"} /\ Open(MapLevel[Top.kind], trace)
           /\ Top.kind = "event" => TheSpan(trace).events # <<>>
           /\ Top.kind = "link" => TheSpan(trace).links # <<>>
           /\ Len(stack) \in 2..9
<1>1. Top.kind \in Kinds /\ Top.key \in Range(Entries[Top.kind]) /\ Top.what = "map"
    BY KeyAtHand
<1>2. Top.kind # "context"
  <2>1. Top.kind \in DOMAIN Entries
      BY <1>1 DEF Kinds, MapLevel, Entries
  <2>2. QED
      BY <1>1, <2>1, KeyPlace
<1>3. Running /\ stack # <<>>
    BY ReadingIs
<1>4. Len(stack) \in 1..9 /\ Top = stack[Len(stack)]
    BY StackIs
<1>5. Level(Top) = Len(stack)
    BY <1>3, TopFacts
<1>6. MapLevel[Top.kind] = Len(stack)
    BY <1>1, <1>5 DEF Level
<1>7. Open(Len(stack), trace) /\ EventIsThere /\ LinkIsFresh
    BY <1>3 DEF IInv, Fresh
<1>8. ASSUME Top.kind \in {"event", "link"}
      PROVE  IsOpen(9, Top.kind)
  <2>1. Len(stack) = 9
      BY <1>6, <1>8, LevelsOf
  <2>2. QED
      BY <1>1, <1>4, <2>1 DEF IsOpen
<1>9. Top.kind = "event" => TheSpan(trace).events # <<>>
    BY <1>7, <1>8, ObjectIs DEF EventIsThere
<1>10. Top.kind = "link" => TheSpan(trace).links # <<>>
    BY <1>7, <1>8, ObjectIs DEF LinkIsFresh
<1>11. Len(stack) # 1
    BY <1>1, <1>2, <1>6, LevelsOf
<1>12. Len(stack) \in 2..9
    BY <1>4, <1>11
<1>13. QED
    BY <1>1, <1>2, <1>6, <1>7, <1>9, <1>10, <1>12

LEMMA FieldForPlain ==
    ASSUME NEW key \in PlainKeys
    PROVE  FieldFor(key) = Field(key)
BY DEF FieldFor, PlainKeys, StringKeys, IdKeys, NumberKeys

LEMMA SetWrites ==
    ASSUME IInv, Reading, NEW m, NEW order \in Orders, NEW rest, NEW node, NEW due,
           Follows(m, order, rest, node, due), ~Keyless(Top), Top.key \in PlainKeys,
           NEW x, Set(Top.kind, Top.key, x)
    PROVE  /\ Off(stack, Len(stack), trace, trace')
           /\ SameBut(Loc(trace, Top), Loc(trace', Top), FieldFor(Top.key))
           /\ Loc(trace', Top)[FieldFor(Top.key)] = x
<1>1. PICK n, s, c, f, kind, y : /\ n = Len(stack) /\ s = stack /\ c = trace' /\ f = Top
                                 /\ kind = Top.kind /\ y = FieldFor(Top.key)
    OBVIOUS
<1>2. /\ kind \in Kinds \ {"context"} /\ Open(MapLevel[kind], trace)
      /\ kind = "event" => TheSpan(trace).events # <<>>
      /\ kind = "link" => TheSpan(trace).links # <<>>
      /\ n \in 2..9
    BY <1>1, StructureThere
<1>3. PICK new : new = [Object(trace, kind) EXCEPT ![y] = x]
    OBVIOUS
<1>4. c = With(trace, kind, new)
    BY <1>1, <1>3, FieldForPlain DEF Set
<1>5. Replaced(trace, kind, new, c)
    BY <1>2, <1>4, StructureReplaced
<1>6. f.what = "map" /\ f.kind = kind /\ f = s[n] /\ Lineage(s) /\ n = Len(s)
  <2>1. Top.what = "map"
      BY KeyAtHand
  <2>2. Places(s, m, order, node, due, rest)
      BY <1>1 DEF Follows
  <2>3. Lineage(s)
      BY <2>2, PlacesAre
  <2>4. Top = stack[Len(stack)]
      BY StackIs
  <2>5. QED
      BY <1>1, <2>1, <2>3, <2>4
<1>7. Off(s, n, trace, c)
  <2>1. n \in 2..Len(s) /\ s[n].what = "map" /\ Replaced(trace, s[n].kind, new, c)
      BY <1>2, <1>5, <1>6
  <2>2. ASSUME NEW i \in 1..(n - 1)
        PROVE  Beside(s[i], s[i + 1], Loc(trace, s[i]), Loc(c, s[i]))
      BY <1>6, <2>1, DownToMap
  <2>3. QED
      BY <2>2 DEF Off
<1>8. Loc(c, f) = new /\ Loc(trace, f) = Object(trace, kind)
  <2>1. Object(c, kind) = new
      BY <1>5 DEF Replaced
  <2>2. kind # "context"
      BY <1>2
  <2>3. Loc(c, f) = Object(c, kind) /\ Loc(trace, f) = Object(trace, kind)
      BY <1>6, <2>2 DEF Loc
  <2>4. QED
      BY <2>1, <2>3
<1>9. y \in DOMAIN Object(trace, kind)
  <2>1. /\ HoldsMap(starved # {}, f.kind, node[n], Loc(trace, f), Begun(f, node[n]), Begun(f, node[n]) + 1, order)
        /\ Top.key \in Range(Entries[kind])
      BY <1>1, KeyAtHand
  <2>2. DOMAIN Loc(trace, f) = Fields(kind)
      BY <1>6, <2>1 DEF HoldsMap
  <2>3. y \in Fields(kind)
      BY <1>1, <1>2, <2>1, FieldOfKey
  <2>4. QED
      BY <1>8, <2>2, <2>3
<1>10. PICK o : o = Object(trace, kind)
    OBVIOUS
<1>11. SameBut(o, new, y) /\ new[y] = x
    BY <1>3, <1>9, <1>10, FieldStays
<1>12. QED
    BY <1>1, <1>7, <1>8, <1>10, <1>11

\* A value is written.
LEMMA SetFits ==
    ASSUME IInv, Reading, NEW m, NEW order \in Orders, NEW rest, NEW node, NEW due,
           Follows(m, order, rest, node, due), ~Keyless(Top), Top.key \in PlainKeys,
           NEW v, v = node[Len(stack)], NEW w, w = v[Top.key],
           starved \subseteq starved', Handled, Consumed(WireValue(Top.key, w, order)),
           NEW x, Set(Top.kind, Top.key, x),
           AlikeValue(starved' # {}, Top.kind, Top.key, x, UnValue(Top.kind, Top.key, w)),
           ValueGood(Top.key, w)
    PROVE  AtWork(m, order, rest)'
<1>1. /\ Off(stack, Len(stack), trace, trace')
      /\ SameBut(Loc(trace, Top), Loc(trace', Top), FieldFor(Top.key))
      /\ Loc(trace', Top)[FieldFor(Top.key)] = x
    BY SetWrites
<1>2. PICK o, p : o = Loc(trace, Top) /\ p = Loc(trace', Top)
    OBVIOUS
<1>3. SameBut(o, p, FieldFor(Top.key)) /\ p[FieldFor(Top.key)] = x
    BY <1>1, <1>2
<1>4. AlikeValue(starved' # {}, Top.kind, Top.key, p[FieldFor(Top.key)],
                 UnValue(Top.kind, Top.key, w))
    BY <1>3
<1>5. stack' = Append(Below, HandledFrame)
    BY DEF Handled
<1>6. QED
    BY <1>1, <1>2, <1>3, <1>4, <1>5, ValueFits

\* Nothing is written where the value is what the structure holds anyway.
LEMMA KeptFits ==
    ASSUME IInv, NEW m, NEW order \in Orders, NEW rest, NEW node, NEW due,
           Follows(m, order, rest, node, due), ~Keyless(Top),
           NEW v, v = node[Len(stack)], NEW w, w = v[Top.key],
           starved \subseteq starved', Handled, UNCHANGED trace,
           Consumed(WireValue(Top.key, w, order)),
           ~(Top.kind = "event" /\ Top.key = "attributes"),
           AlikeValue(starved' # {}, Top.kind, Top.key, Blank(Top.kind)[FieldFor(Top.key)],
                      UnValue(Top.kind, Top.key, w)),
           ValueGood(Top.key, w)
    PROVE  AtWork(m, order, rest)'
<1>1. PICK o, p, b, kind, key, l : /\ o = Loc(trace, Top) /\ p = Loc(trace', Top) /\ b = Begun(Top, v)
                                   /\ kind = Top.kind /\ key = Top.key /\ l = (starved' # {})
    OBVIOUS
<1>2. p = o
    BY <1>1
<1>3. /\ HoldsMap(starved # {}, kind, v, o, b, b + 1, order)
      /\ b + 1 \in 1..EntryCount[kind] /\ b \in Nat /\ key = order[kind][b + 1] /\ kind \in Kinds
    BY <1>1, KeyAtHand
<1>4. o[FieldFor(key)] = Blank(kind)[FieldFor(key)]
  <2>1. PICK i, N : i = b + 1 /\ N = EntryCount[kind]
      OBVIOUS
  <2>2. i \in (b + 1)..N
    <3>1. N \in Nat
        BY <1>3, <2>1, OrderIs
    <3>2. QED
        BY <1>3, <2>1, <3>1
  <2>3. \/ kind = "event" /\ order[kind][i] = "attributes"
        \/ o[FieldFor(order[kind][i])] = Blank(kind)[FieldFor(order[kind][i])]
      BY <1>3, <2>1, <2>2 DEF HoldsMap
  <2>4. order[kind][i] = key
      BY <1>3, <2>1
  <2>5. QED
      BY <1>1, <2>3, <2>4
<1>5. AlikeValue(l, kind, key, p[FieldFor(key)], UnValue(kind, key, w))
    BY <1>1, <1>2, <1>4
<1>6. Off(stack, Len(stack), trace, trace')
    BY DEF Off
<1>7. stack' = Append(Below, HandledFrame)
    BY DEF Handled
<1>8. QED
    BY <1>1, <1>2, <1>5, <1>6, <1>7, ValueFits

-----------------------------------------------------------------------------
(* The token that is due, and a value of one token.                        *)

\* An answer is found for what is read next; the rest is kept out of sight.
NextToken(x) == \E r \in Seq(TokenSet) : IsJoined(RestAt(buffer.tokens, pos), <<x>>, r)

LEMMA DueNext ==
    ASSUME NEW m, NEW order \in Orders, NEW rest, NEW node, NEW due,
           Follows(m, order, rest, node, due),
           NEW x \in TokenSet, NEW y \in Seq(TokenSet),
           IsJoined(Due(Top, node[Len(stack)], order), <<x>>, y)
    PROVE  NextToken(x)
<1>1. PICK d, e : d = due[Len(stack) - 1] /\ e = Due(Top, node[Len(stack)], order)
    OBVIOUS
<1>2. IsJoined(RestAt(buffer.tokens, pos), e, d) /\ d \in Seq(TokenSet)
    BY <1>1, StackIs
<1>3. PICK t : t = <<x>>
    OBVIOUS
<1>4. t \in Seq(TokenSet)
    BY <1>3, Single
<1>5. (t \o y) \o d = t \o (y \o d) /\ y \o d \in Seq(TokenSet)
    BY <1>2, <1>4, Regroup
<1>6. e = t \o y
    BY <1>1, <1>3 DEF IsJoined
<1>7. IsJoined(RestAt(buffer.tokens, pos), t, y \o d)
    BY <1>2, <1>5, <1>6 DEF IsJoined
<1>8. QED
    BY <1>3, <1>5, <1>7 DEF NextToken

\* A step of the script.
Scripted == IInv /\ Reading /\ free = 0 /\ free' = 0 /\ buffer.tokens \in Seq(TokenSet)

LEMMA NextIs ==
    ASSUME Scripted, NEW x, NextToken(x)
    PROVE  /\ \A t : Take(t) => t = x /\ Consumed(<<x>>)
           /\ \A type, peeked : WrongType(type, peeked) => TypeOf(x) \notin type
<1>1. PICK r \in Seq(TokenSet) : IsJoined(RestAt(buffer.tokens, pos), <<x>>, r)
    BY DEF NextToken
<1>2. ASSUME NEW t, Take(t)
      PROVE  t = x /\ Consumed(<<x>>)
    BY <1>1, <1>2, TokenDue, TokenConsumed DEF Scripted
<1>3. ASSUME NEW type, NEW peeked, WrongType(type, peeked)
      PROVE  TypeOf(x) \notin type
    BY <1>1, <1>3, NotWrong DEF Scripted
<1>4. QED
    BY <1>2, <1>3

LEMMA ValueNext ==
    ASSUME IInv, NEW m, NEW order \in Orders, NEW rest, NEW node, NEW due,
           Follows(m, order, rest, node, due), ~Keyless(Top),
           NEW w, w = node[Len(stack)][Top.key], NEW x \in TokenSet, NEW y \in Seq(TokenSet),
           IsJoined(WireValue(Top.key, w, order), <<x>>, y)
    PROVE  NextToken(x)
<1>1. PICK v : v = node[Len(stack)]
    OBVIOUS
<1>2. /\ IsJoined(Due(Top, v, order), WireValue(Top.key, w, order), Due(HandledFrame, v, order))
      /\ Reads(HandledFrame, v, order)
    BY <1>1, KeyAtHand
<1>3. PICK g, t : g = Due(HandledFrame, v, order) /\ t = <<x>>
    OBVIOUS
<1>4. g \in Seq(TokenSet) /\ t \in Seq(TokenSet)
    BY <1>2, <1>3, DueType, Single
<1>5. (t \o y) \o g = t \o (y \o g) /\ y \o g \in Seq(TokenSet)
    BY <1>4, Regroup
<1>6. IsJoined(Due(Top, v, order), t, y \o g)
    BY <1>2, <1>3, <1>5 DEF IsJoined
<1>7. QED
    BY <1>1, <1>3, <1>5, <1>6, DueNext

\* Handlers of one token.
LEMMA LeafNext ==
    ASSUME Scripted, NEW m, NEW order \in Orders, NEW rest, NEW node, NEW due,
           Follows(m, order, rest, node, due), ~Keyless(Top), Top.key \in PlainKeys,
           NEW w, w = node[Len(stack)][Top.key]
    PROVE  /\ \A t : Take(t) => t = LeafToken(Top.key, w) /\ Consumed(WireValue(Top.key, w, order))
           /\ \A type, peeked : WrongType(type, peeked) => TypeOf(LeafToken(Top.key, w)) \notin type
           /\ IsValue(Top.kind, Top.key, w)
<1>1. IsValue(Top.kind, Top.key, w)
    BY KeyAtHand DEF Scripted
<1>2. PICK x : x = LeafToken(Top.key, w)
    OBVIOUS
<1>3. WireValue(Top.key, w, order) = <<x>>
    BY <1>2, WireValueIs DEF Leaf
<1>4. x \in TokenSet
  <2>1. <<x>> \in Seq(TokenSet)
      BY <1>1, <1>2, LeafType DEF Leaf
  <2>2. QED
      BY <2>1
<1>5. NextToken(x)
  <2>1. <<>> \in Seq(TokenSet) /\ <<x>> \o <<>> = <<x>>
      BY <1>4, Single
  <2>2. IsJoined(WireValue(Top.key, w, order), <<x>>, <<>>)
      BY <1>3, <2>1 DEF IsJoined
  <2>3. QED
      BY <1>4, <2>1, <2>2, ValueNext DEF Scripted
<1>6. QED
    BY <1>1, <1>2, <1>3, <1>5, NextIs

\* A value that the decoder cannot read is the fault of the message.
LEMMA BadValue ==
    ASSUME IInv, NEW m, NEW order \in Orders, NEW rest, NEW node, NEW due,
           Follows(m, order, rest, node, due), ~Keyless(Top),
           NEW w, w = node[Len(stack)][Top.key], ~ValueGood(Top.key, w)
    PROVE  ~Good(m)
<1>1. PICK v : v = node[Len(stack)]
    OBVIOUS
<1>2. /\ Top.what = "map" /\ Top.kind \in Kinds /\ Top.key \in Range(Entries[Top.kind])
      /\ IsNode(Top.kind, v)
    BY <1>1, KeyAtHand
<1>3. ~NodeGood(Top.kind, v)
    BY <1>1, <1>2, GoodByKeys
<1>4. Good(m) => FrameGood(Top, v)
    BY <1>1, StackIs
<1>5. QED
    BY <1>2, <1>3, <1>4 DEF FrameGood

LEMMA GoesOnUnderway ==
    ASSUME NEW m, NEW order, NEW rest, AtWork(m, order, rest)', result' = "ok", stack' # <<>>
    PROVE  Underway(m, order, rest)'
BY DEF Underway

LEMMA BadRefused ==
    ASSUME IInv, NEW m, NEW order \in Orders, NEW rest, NEW node, NEW due,
           Follows(m, order, rest, node, due), ~Keyless(Top),
           NEW w, w = node[Len(stack)][Top.key], ~ValueGood(Top.key, w),
           NEW why, why # "ok", Fail(why)
    PROVE  Underway(m, order, rest)'
<1>1. ~Good(m)
    BY BadValue
<1>2. Excused(m)'
    BY <1>1 DEF Excused
<1>3. QED
    BY <1>2, Refused

LEMMA HandledGoesOn ==
    ASSUME Scripted, NEW m, NEW order, NEW rest, Handled, AtWork(m, order, rest)'
    PROVE  Underway(m, order, rest)'
<1>1. IsList(stack) /\ stack # <<>> /\ result = "ok"
    BY ReadingIs DEF Scripted, IInv, Typed
<1>2. stack' # <<>> /\ result' = "ok"
    BY <1>1, SwapFacts DEF Handled
<1>3. QED
    BY <1>2, GoesOnUnderway

-----------------------------------------------------------------------------
(* The handlers of one token.                                              *)

LEMMA SomeKey ==
    ASSUME NEW f, f.key \in PlainKeys \cup ArrayKeys \cup MapKeys
    PROVE  ~Keyless(f)
<1>1. "" \notin PlainKeys \cup ArrayKeys \cup MapKeys
    BY KeysDiffer DEF PlainKeys, IdKeys, StringKeys, NumberKeys, MapKeys
<1>2. QED
    BY <1>1, Zenon DEF Keyless

\* Numbers and strings are taken as they are.
LEMMA AsItIs ==
    ASSUME NEW key \in NumberKeys \cup StringKeys, NEW hungry, NEW kind, NEW w
    PROVE  AlikeValue(hungry, kind, key, w, UnValue(kind, key, w)) /\ ValueGood(key, w)
<1>1. UnValue(kind, key, w) = w
    BY UnValueIs
<1>2. /\ key \notin ArrayKeys /\ key \notin IdKeys /\ key # "attributes"
      /\ key \notin {"resource", "scope"}
    BY KeysDiffer DEF PlainKeys, MapKeys
<1>3. QED
    BY <1>1, <1>2 DEF AlikeValue, ValueGood

LEMMA Types ==
    ASSUME NEW n
    PROVE  /\ TypeOf(Number(n)) = "num" /\ Number(n)[2] = n
           /\ TypeOf(Nil) = "nil" /\ Nil[1] = "nil" /\ TypeOf(Map(n)) = "map" /\ TypeOf(Array(n)) = "array"
           /\ TypeOf(KeyToken(n)) = "string" /\ TypeOf(<<"str", n>>) = "string"
           /\ TypeOf(<<"id", n>>) = "string" /\ TypeOf(<<"attrs", n>>) = "map"
           /\ Outcomes(<<"str", n>>) = {"memory", "ok"} /\ Outcomes(<<"id", n>>) = {"memory", "ok"}
           /\ Outcomes(KeyToken(n)) = {"memory", "ok"}
           /\ <<"str", n>> # Nil /\ <<"id", n>> # Nil /\ TextOf(<<"str", n>>) = n
           /\ <<"attrs", n>> # Nil /\ <<"badattrs", n>> # Nil
           /\ \A c : <<"attrs", n>> # Map(c) /\ <<"badattrs", n>> # Map(c)
<1>1. /\ TypeOf(Number(n)) = "num" /\ Number(n)[2] = n
      /\ TypeOf(Nil) = "nil" /\ Nil[1] = "nil" /\ TypeOf(Map(n)) = "map" /\ TypeOf(Array(n)) = "array"
      /\ TypeOf(KeyToken(n)) = "string" /\ TypeOf(<<"str", n>>) = "string"
      /\ TypeOf(<<"id", n>>) = "string" /\ TypeOf(<<"attrs", n>>) = "map"
    BY DEF TypeOf, Number, Nil, Map, Array, KeyToken, StringTypes
<1>2. <<"str", n>>[1] = "str" /\ <<"id", n>>[1] = "id" /\ KeyToken(n)[1] = "key"
    BY DEF KeyToken
<1>3. /\ Outcomes(<<"str", n>>) = {"memory", "ok"} /\ Outcomes(<<"id", n>>) = {"memory", "ok"}
      /\ Outcomes(KeyToken(n)) = {"memory", "ok"}
    BY <1>2 DEF Outcomes
<1>4. /\ <<"str", n>> # Nil /\ <<"id", n>> # Nil /\ TextOf(<<"str", n>>) = n
      /\ <<"attrs", n>> # Nil /\ <<"badattrs", n>> # Nil
      /\ \A c : <<"attrs", n>> # Map(c) /\ <<"badattrs", n>> # Map(c)
    BY DEF TextOf, Nil, Map
<1>5. QED
    BY <1>1, <1>3, <1>4

LEMMA ReadNumberFits ==
    ASSUME Scripted, NEW m, NEW order \in Orders, NEW rest, NEW node, NEW due,
           Follows(m, order, rest, node, due), ReadNumber
    PROVE  Underway(m, order, rest)'
<1>1. Top.key \in NumberKeys /\ Top.key \in PlainKeys /\ ~Keyless(Top)
    BY SomeKey DEF ReadNumber, Handling, PlainKeys
<1>2. PICK w : w = node[Len(stack)][Top.key]
    OBVIOUS
<1>3. /\ \A t : Take(t) => t = LeafToken(Top.key, w) /\ Consumed(WireValue(Top.key, w, order))
      /\ \A type, peeked : WrongType(type, peeked) => TypeOf(LeafToken(Top.key, w)) \notin type
      /\ IsValue(Top.kind, Top.key, w)
    BY <1>1, <1>2, LeafNext
<1>4. LeafToken(Top.key, w) = Number(w) /\ Cut(Top.key, w) = w
    BY <1>1, <1>3, LeafIs
<1>5. CASE EndAtNumber("engine")
    BY <1>5, EndExcused DEF EndAtNumber
<1>6. ~WrongType({"num"}, FALSE)
  <2>0. TypeOf(Number(w)) = "num"
      BY Types, Zenon
  <2>1. TypeOf(LeafToken(Top.key, w)) \in {"num"}
      BY <1>4, <2>0
  <2>2. QED
      BY <1>3, <2>1, Zenon
<1>7. ASSUME NEW t, t[1] = "num", Take(t), Set(Top.kind, Top.key, Cut(Top.key, t[2])), Handled,
             UNCHANGED <<err, starved, history>>
      PROVE  Underway(m, order, rest)'
  <2>1. t = Number(w) /\ Consumed(WireValue(Top.key, w, order))
      BY <1>3, <1>4, <1>7
  <2>2. Set(Top.kind, Top.key, w)
      BY <1>4, <1>7, <2>1, Types
  <2>3. AtWork(m, order, rest)'
      BY <1>1, <1>2, <1>7, <2>1, <2>2, AsItIs, SetFits DEF Scripted
  <2>4. QED
      BY <1>7, <2>3, HandledGoesOn
<1>8. QED
    BY <1>5, <1>6, <1>7 DEF ReadNumber

LEMMA ReadStringFits ==
    ASSUME Scripted, NEW m, NEW order \in Orders, NEW rest, NEW node, NEW due,
           Follows(m, order, rest, node, due), ReadString
    PROVE  Underway(m, order, rest)'
<1>1. Top.key \in StringKeys /\ Top.key \in PlainKeys /\ ~Keyless(Top)
    BY SomeKey DEF ReadString, Handling, PlainKeys
<1>2. PICK w : w = node[Len(stack)][Top.key]
    OBVIOUS
<1>3. /\ \A t : Take(t) => t = LeafToken(Top.key, w) /\ Consumed(WireValue(Top.key, w, order))
      /\ \A type, peeked : WrongType(type, peeked) => TypeOf(LeafToken(Top.key, w)) \notin type
      /\ IsValue(Top.kind, Top.key, w)
    BY <1>1, <1>2, LeafNext
<1>4. /\ w = NULL => LeafToken(Top.key, w) = Nil
      /\ w # NULL => LeafToken(Top.key, w) = <<"str", w>>
  <2>1. Top.key \notin NumberKeys
      BY <1>1, KeysDiffer
  <2>2. QED
      BY <1>1, <1>3, <2>1, LeafIs
<1>5. CASE EndAt("type")
    BY <1>5, EndExcused
<1>6. ~WrongType({"string", "nil"}, TRUE)
  <2>1. TypeOf(LeafToken(Top.key, w)) \in {"string", "nil"}
      BY <1>4, Types
  <2>2. QED
      BY <1>3, <2>1, Zenon
<1>7. ASSUME Handled, Set(Top.kind, Top.key, w), starved \subseteq starved', NEW t, Take(t)
      PROVE  Underway(m, order, rest)'
  <2>1. Consumed(WireValue(Top.key, w, order))
      BY <1>3, <1>7
  <2>2. AtWork(m, order, rest)'
      BY <1>1, <1>2, <1>7, <2>1, AsItIs, SetFits DEF Scripted
  <2>3. QED
      BY <1>7, <2>2, HandledGoesOn
<1>8. ASSUME NEW t, t = Nil, Take(t), Set(Top.kind, Top.key, NULL), Handled, UNCHANGED starved
      PROVE  Underway(m, order, rest)'
  <2>0. Nil # <<"str", w>>
      BY Types
  <2>1. w = NULL
      BY <1>3, <1>4, <1>8, <2>0
  <2>2. QED
      BY <1>7, <1>8, <2>1
<1>9. ASSUME NEW t, TypeOf(t) = "string", NEW outcome \in Outcomes(t), ConsumeString(t, outcome, "string"),
             IF outcome = "ok" THEN Set(Top.kind, Top.key, TextOf(t)) /\ Handled
                               ELSE Fail(outcome) /\ UNCHANGED trace
      PROVE  Underway(m, order, rest)'
  <2>1. t = <<"str", w>> /\ Take(t)
      BY <1>3, <1>4, <1>9, Types DEF ConsumeString
  <2>2. outcome \in {"memory", "ok"} /\ TextOf(t) = w
      BY <1>9, <2>1, Types
  <2>3. CASE outcome = "memory"
    <3>1. "string" \in starved'
        BY <1>9, <2>3 DEF ConsumeString
    <3>2. QED
        BY <1>9, <2>3, <3>1, StarvedExcused
  <2>4. CASE outcome = "ok"
    <3>1. starved \subseteq starved'
        BY <1>9 DEF ConsumeString
    <3>2. QED
        BY <1>7, <1>9, <2>1, <2>2, <2>4, <3>1
  <2>5. QED
      BY <2>2, <2>3, <2>4
<1>10. QED
    BY <1>5, <1>6, <1>8, <1>9 DEF ReadString

\* An identifier that is read is what its digits say; that of a span may be lost.
LEMMA IdAlike ==
    ASSUME NEW key \in IdKeys, NEW hungry, NEW kind, NEW w
    PROVE  /\ AlikeValue(hungry, kind, key, unpack_id(w), UnValue(kind, key, w))
           /\ hungry /\ kind = "span" => AlikeValue(hungry, kind, key, NULL, UnValue(kind, key, w))
           /\ ValueGood(key, w) <=> IdReads(w)
<1>1. UnValue(kind, key, w) = unpack_id(w)
    BY UnValueIs
<1>2. /\ key \notin ArrayKeys /\ key # "attributes" /\ key \notin {"resource", "scope"}
    BY KeysDiffer DEF PlainKeys, MapKeys
<1>3. QED
    BY <1>1, <1>2 DEF AlikeValue, ValueGood

LEMMA NoIdYet ==
    ASSUME NEW kind \in Kinds, NEW key \in IdKeys, key \in Range(Entries[kind])
    PROVE  Blank(kind)[FieldFor(key)] = NULL
<1>1. kind \in {"span", "link"}
  <2>1. kind \in {"context", "resource_span", "resource", "scope_span", "scope", "span", "status",
                  "event", "link"}
      BY DEF Kinds, MapLevel
  <2>2. QED
      BY <2>1, KeysAre DEF IdKeys
<1>2. FieldFor(key) = key
    BY FieldForIs DEF IdKeys
<1>3. Blank(kind) = New[kind]
    BY <1>1, BlankIs
<1>4. CASE kind = "span"
  <2>1. New.span.trace_id = NULL /\ New.span.span_id = NULL /\ New.span.parent_span_id = NULL
      BY DEF New
  <2>2. QED
      BY <1>2, <1>3, <1>4, <2>1 DEF IdKeys
<1>5. CASE kind = "link"
  <2>1. New.link.trace_id = NULL /\ New.link.span_id = NULL
      BY DEF New
  <2>2. key \in {"trace_id", "span_id"}
      BY <1>5, KeysAre DEF IdKeys
  <2>3. QED
      BY <1>2, <1>3, <1>5, <2>1, <2>2
<1>6. QED
    BY <1>1, <1>4, <1>5

LEMMA ReadIdFits ==
    ASSUME Scripted, NEW m, NEW order \in Orders, NEW rest, NEW node, NEW due,
           Follows(m, order, rest, node, due), ReadId
    PROVE  Underway(m, order, rest)'
<1>1. Top.key \in IdKeys /\ Top.key \in PlainKeys /\ ~Keyless(Top)
    BY SomeKey DEF ReadId, Handling, PlainKeys
<1>2. PICK w : w = node[Len(stack)][Top.key]
    OBVIOUS
<1>3. /\ \A t : Take(t) => t = LeafToken(Top.key, w) /\ Consumed(WireValue(Top.key, w, order))
      /\ \A type, peeked : WrongType(type, peeked) => TypeOf(LeafToken(Top.key, w)) \notin type
      /\ IsValue(Top.kind, Top.key, w)
    BY <1>1, <1>2, LeafNext
<1>4. /\ w = NULL => LeafToken(Top.key, w) = Nil
      /\ w # NULL => LeafToken(Top.key, w) = <<"id", w>>
  <2>1. Top.key \notin NumberKeys
      BY <1>1, KeysDiffer
  <2>2. QED
      BY <1>1, <1>3, <2>1, LeafIs
<1>5. CASE EndAt("type")
    BY <1>5, EndExcused
<1>6. ~WrongType({"string", "nil"}, TRUE)
  <2>1. TypeOf(LeafToken(Top.key, w)) \in {"string", "nil"}
      BY <1>4, Types
  <2>2. QED
      BY <1>3, <2>1, Zenon
<1>7. ASSUME NEW t, t = Nil, Take(t), Handled, UNCHANGED <<trace, starved>>
      PROVE  Underway(m, order, rest)'
  <2>1. w = NULL /\ Consumed(WireValue(Top.key, w, order))
    <3>1. Nil # <<"id", w>>
        BY Types
    <3>2. QED
        BY <1>3, <1>4, <1>7, <3>1
  <2>2. Top.kind \in Kinds /\ Top.key \in Range(Entries[Top.kind])
      BY <1>1, KeyAtHand DEF Scripted
  <2>3. Blank(Top.kind)[FieldFor(Top.key)] = NULL
      BY <1>1, <2>2, NoIdYet
  <2>4. unpack_id(w) = NULL /\ IdReads(w)
      BY <2>1 DEF unpack_id, IdReads
  <2>5. PICK k : k = (starved' # {})
      OBVIOUS
  <2>6. AlikeValue(k, Top.kind, Top.key, unpack_id(w), UnValue(Top.kind, Top.key, w))
        /\ ValueGood(Top.key, w)
      BY <1>1, <2>4, IdAlike
  <2>7. AlikeValue(starved' # {}, Top.kind, Top.key, Blank(Top.kind)[FieldFor(Top.key)],
                   UnValue(Top.kind, Top.key, w))
      BY <2>3, <2>4, <2>5, <2>6
  <2>8. ~(Top.kind = "event" /\ Top.key = "attributes")
      BY <1>1, KeysDiffer
  <2>9. AtWork(m, order, rest)'
      BY <1>1, <1>2, <1>7, <2>1, <2>6, <2>7, <2>8, KeptFits DEF Scripted
  <2>10. QED
      BY <1>7, <2>9, HandledGoesOn
<1>8. ASSUME NEW t, TypeOf(t) = "string", NEW outcome \in Outcomes(t) \ {"ok"},
             ConsumeString(t, outcome, "string"), Fail(outcome)
      PROVE  Underway(m, order, rest)'
  <2>1. t = <<"id", w>>
      BY <1>3, <1>4, <1>8, Types DEF ConsumeString
  <2>2. outcome = "memory"
    <3>1. Outcomes(t) = {"memory", "ok"}
        BY <2>1, Types
    <3>2. QED
        BY <1>8, <3>1
  <2>3. "string" \in starved'
      BY <1>8, <2>2 DEF ConsumeString
  <2>4. QED
      BY <1>8, <2>2, <2>3, StarvedExcused
<1>9. ASSUME NEW t, TypeOf(t) = "string", Take(t)
      PROVE  /\ t = <<"id", w>> /\ w # NULL /\ Consumed(WireValue(Top.key, w, order))
             /\ Readable(t) <=> IdReads(w)
             /\ Readable(t) => ctr_id_from_base16(t[2]) = unpack_id(w)
  <2>1. t = LeafToken(Top.key, w) /\ Consumed(WireValue(Top.key, w, order))
      BY <1>3, <1>9
  <2>2. t # Nil
      BY <1>9, Types
  <2>3. t = <<"id", w>> /\ w # NULL
      BY <1>4, <2>1, <2>2
  <2>4. t[1] = "id" /\ t[2] = w
      BY <2>3
  <2>5. QED
      BY <2>1, <2>3, <2>4 DEF Readable, IdReads, unpack_id
<1>10. ASSUME NEW t, TypeOf(t) = "string", Take(t), Fail("corrupt"),
              IF Readable(t) THEN Starve("string") ELSE UNCHANGED starved
       PROVE  Underway(m, order, rest)'
  <2>1. CASE Readable(t)
    <3>1. "string" \in starved'
        BY <1>10, <2>1 DEF Starve
    <3>2. QED
        BY <1>10, <3>1, StarvedExcused
  <2>2. CASE ~Readable(t)
    <3>1. ~IdReads(w)
        BY <1>9, <1>10, <2>2
    <3>2. ~ValueGood(Top.key, w)
        BY <1>1, <3>1, IdAlike
    <3>3. QED
        BY <1>1, <1>2, <1>10, <3>2, BadRefused DEF Scripted
  <2>3. QED
      BY <2>1, <2>2
<1>11. ASSUME NEW t, TypeOf(t) = "string", Take(t), Readable(t), Handled,
              \/ Set(Top.kind, Top.key, ctr_id_from_base16(t[2])) /\ UNCHANGED starved
              \/ Top.kind = "span" /\ Set("span", Top.key, NULL) /\ Starve("id")
       PROVE  Underway(m, order, rest)'
  <2>1. Consumed(WireValue(Top.key, w, order)) /\ ctr_id_from_base16(t[2]) = unpack_id(w) /\ IdReads(w)
      BY <1>9, <1>11
  <2>2. ValueGood(Top.key, w)
      BY <1>1, <2>1, IdAlike
  <2>3. PICK k : k = (starved' # {})
      OBVIOUS
  <2>4. CASE Set(Top.kind, Top.key, ctr_id_from_base16(t[2])) /\ UNCHANGED starved
    <3>1. AlikeValue(k, Top.kind, Top.key, unpack_id(w), UnValue(Top.kind, Top.key, w))
        BY <1>1, IdAlike
    <3>2. Set(Top.kind, Top.key, unpack_id(w)) /\ starved \subseteq starved'
        BY <2>1, <2>4
    <3>3. AtWork(m, order, rest)'
        BY <1>1, <1>2, <1>11, <2>1, <2>2, <2>3, <3>1, <3>2, SetFits DEF Scripted
    <3>4. QED
        BY <1>11, <3>3, HandledGoesOn
  <2>5. CASE Top.kind = "span" /\ Set("span", Top.key, NULL) /\ Starve("id")
    <3>1. k /\ starved \subseteq starved'
        BY <2>3, <2>5 DEF Starve
    <3>2. AlikeValue(k, Top.kind, Top.key, NULL, UnValue(Top.kind, Top.key, w))
        BY <1>1, <2>5, <3>1, IdAlike
    <3>3. Set(Top.kind, Top.key, NULL)
        BY <2>5
    <3>4. AtWork(m, order, rest)'
        BY <1>1, <1>2, <1>11, <2>1, <2>2, <2>3, <3>1, <3>2, <3>3, SetFits DEF Scripted
    <3>5. QED
        BY <1>11, <3>4, HandledGoesOn
  <2>6. QED
      BY <1>11, <2>4, <2>5
<1>12. QED
    BY <1>5, <1>6, <1>7, <1>8, <1>10, <1>11 DEF ReadId

LEMMA NoMap ==
    ASSUME NEW w
    PROVE  <<"attrs", w>> # Map(0) /\ <<"badattrs", w>> # Map(0)
<1>1. PICK a, b, c : a = <<"attrs", w>> /\ b = <<"badattrs", w>> /\ c = Map(0)
    OBVIOUS
<1>2. a[1] = "attrs" /\ b[1] = "badattrs" /\ c[1] = "map"
    BY <1>1 DEF Map
<1>3. a # c /\ b # c
    BY <1>2
<1>4. QED
    BY <1>1, <1>3

\* The set of attributes, and what a structure has in its place at first.
LEMMA AttributesAlike ==
    ASSUME NEW hungry, NEW kind, NEW w
    PROVE  /\ w # NULL => AlikeValue(hungry, kind, "attributes", w, UnValue(kind, "attributes", w))
           /\ KeysFit(w) => ValueGood("attributes", w)
           /\ ~KeysFit(w) => ~ValueGood("attributes", w)
           /\ kind \in Kinds /\ "attributes" \in Range(Entries[kind]) /\ kind # "event" =>
                 AlikeValue(hungry, kind, "attributes", Blank(kind)[FieldFor("attributes")],
                            UnValue(kind, "attributes", NULL))
<1>1. /\ "attributes" \notin ArrayKeys /\ "attributes" \notin IdKeys
    BY KeysDiffer DEF PlainKeys
<1>2. \A a, e : AlikeValue(hungry, kind, "attributes", a, e) <=> a = e
    BY <1>1 DEF AlikeValue
<1>3. \A x : ValueGood("attributes", x) <=> KeysFit(x)
    BY <1>1 DEF ValueGood
<1>4. /\ \A x : kind \in {"scope", "link"} => UnValue(kind, "attributes", x) = x
      /\ \A x : kind \notin {"scope", "link"} => UnValue(kind, "attributes", x) = unpack_attributes(x)
    BY UnValueIs
<1>5. unpack_attributes(NULL) = <<>> /\ (w # NULL => unpack_attributes(w) = w)
    BY DEF unpack_attributes
<1>6. ASSUME kind \in Kinds, "attributes" \in Range(Entries[kind]), kind # "event"
      PROVE  /\ kind \in {"scope", "link"} => Blank(kind)["attr"] = NULL
             /\ kind \notin {"scope", "link"} => Blank(kind)["attr"] = <<>>
  <2>1. kind \in {"resource", "scope", "span", "link"}
    <3>1. kind \in {"context", "resource_span", "resource", "scope_span", "scope", "span", "status",
                    "event", "link"}
        BY <1>6 DEF Kinds, MapLevel
    <3>2. QED
        BY <1>6, <3>1, KeysAre
  <2>2. kind = "resource" => Blank(kind)["attr"] = <<>>
      BY BlankIs
  <2>3. kind = "scope" => Blank(kind)["attr"] = NULL
    <3>1. New["scope"]["attr"] = NULL
        BY DEF New
    <3>2. QED
        BY <3>1, BlankIs
  <2>4. kind = "span" => Blank(kind)["attr"] = <<>>
    <3>1. New["span"]["attr"] = <<>>
        BY DEF New
    <3>2. QED
        BY <3>1, BlankIs
  <2>5. kind = "link" => Blank(kind)["attr"] = NULL
    <3>1. New["link"]["attr"] = NULL
        BY DEF New
    <3>2. QED
        BY <3>1, BlankIs
  <2>6. QED
      BY <2>1, <2>2, <2>3, <2>4, <2>5
<1>7. FieldFor("attributes") = "attr"
    BY FieldForIs
<1>8. QED
    BY <1>2, <1>3, <1>4, <1>5, <1>6, <1>7

LEMMA ReadAttributesFits ==
    ASSUME Scripted, NEW m, NEW order \in Orders, NEW rest, NEW node, NEW due,
           Follows(m, order, rest, node, due), ReadAttributes
    PROVE  call' = "crashed" \/ Underway(m, order, rest)'
<1>1. Top.key = "attributes" /\ Top.key \in PlainKeys /\ ~Keyless(Top)
    BY SomeKey DEF ReadAttributes, Handling, PlainKeys
<1>2. PICK w : w = node[Len(stack)][Top.key]
    OBVIOUS
<1>3. /\ \A t : Take(t) => t = LeafToken(Top.key, w) /\ Consumed(WireValue(Top.key, w, order))
      /\ IsValue(Top.kind, Top.key, w)
    BY <1>1, <1>2, LeafNext
<1>4. /\ w = NULL => LeafToken(Top.key, w) = Nil
      /\ w # NULL => LeafToken(Top.key, w) = <<IF KeysFit(w) THEN "attrs" ELSE "badattrs", w>>
      /\ w # NULL /\ KeysFit(w) => LeafToken(Top.key, w) = <<"attrs", w>>
      /\ w # NULL /\ ~KeysFit(w) => LeafToken(Top.key, w) = <<"badattrs", w>>
  <2>1. "attributes" \notin NumberKeys
      BY <1>1, KeysDiffer
  <2>2. QED
      BY <1>1, <1>3, <2>1, LeafIs
<1>5. ASSUME err' = TRUE, Fail("variant")
      PROVE  Underway(m, order, rest)'
  <2>1. Excused(m)'
      BY <1>5 DEF Excused
  <2>2. QED
      BY <1>5, <2>1, Refused
<1>6. ASSUME Fail("variant"), Starve("attributes")
      PROVE  Underway(m, order, rest)'
  <2>1. "attributes" \in starved'
      BY <1>6 DEF Starve
  <2>2. QED
      BY <1>6, <2>1, StarvedExcused
<1>7. PICK k : k = (starved' # {})
    OBVIOUS
<1>8. ASSUME NEW t, Take(t), t = Nil, Handled, UNCHANGED <<trace, starved>>
      PROVE  Underway(m, order, rest)'
  <2>1. w = NULL /\ Consumed(WireValue(Top.key, w, order))
    <3>1. Nil # <<"attrs", w>> /\ Nil # <<"badattrs", w>>
        BY Types
    <3>2. QED
        BY <1>3, <1>4, <1>8, <3>1
  <2>2. Top.kind \in Kinds /\ Top.key \in Range(Entries[Top.kind])
      BY <1>1, KeyAtHand DEF Scripted
  <2>3. Top.kind # "event"
      BY <1>1, <1>3, <2>1 DEF IsValue
  <2>4. KeysFit(w)
      BY <2>1 DEF KeysFit
  <2>5. ValueGood(Top.key, w)
      BY <1>1, <2>4, AttributesAlike
  <2>6. AlikeValue(k, Top.kind, Top.key, Blank(Top.kind)[FieldFor(Top.key)],
                   UnValue(Top.kind, Top.key, w))
      BY <1>1, <2>1, <2>2, <2>3, AttributesAlike
  <2>7. AtWork(m, order, rest)'
      BY <1>1, <1>2, <1>7, <1>8, <2>1, <2>3, <2>5, <2>6, KeptFits DEF Scripted
  <2>8. QED
      BY <1>8, <2>7, HandledGoesOn
<1>9. ASSUME NEW t, Take(t), t # Nil
      PROVE  /\ w # NULL /\ Consumed(WireValue(Top.key, w, order))
             /\ t = IF KeysFit(w) THEN <<"attrs", w>> ELSE <<"badattrs", w>>
             /\ t # Map(0)
  <2>1. t = LeafToken(Top.key, w) /\ Consumed(WireValue(Top.key, w, order))
      BY <1>3, <1>9
  <2>2. w # NULL
      BY <1>4, <1>9, <2>1
  <2>3. t = IF KeysFit(w) THEN <<"attrs", w>> ELSE <<"badattrs", w>>
      BY <1>4, <2>1, <2>2
  <2>4. t # Map(0)
    <3>1. <<"attrs", w>> # Map(0) /\ <<"badattrs", w>> # Map(0)
        BY NoMap
    <3>2. QED
        BY <2>3, <3>1
  <2>5. QED
      BY <2>1, <2>2, <2>3, <2>4
<1>10. ASSUME NEW t, Take(t), t # Nil, t[1] # "attrs", Fail("variant")
       PROVE  Underway(m, order, rest)'
  <2>1. ~KeysFit(w)
      BY <1>9, <1>10
  <2>2. ~ValueGood(Top.key, w)
      BY <1>1, <2>1, AttributesAlike
  <2>3. QED
      BY <1>1, <1>2, <1>10, <2>2, BadRefused DEF Scripted
<1>11. ASSUME NEW t, Take(t), t[1] = "attrs" \/ t = Map(0), UNCHANGED starved, Handled,
              Set(Top.kind, "attributes", IF t = Map(0) THEN <<>> ELSE t[2])
       PROVE  Underway(m, order, rest)'
  <2>1. t # Nil
    <3>1. Nil[1] # "attrs" /\ Nil # Map(0)
        BY DEF Nil, Map
    <3>2. QED
        BY <1>11, <3>1
  <2>2. /\ w # NULL /\ Consumed(WireValue(Top.key, w, order)) /\ t # Map(0)
        /\ t = IF KeysFit(w) THEN <<"attrs", w>> ELSE <<"badattrs", w>>
      BY <1>9, <1>11, <2>1
  <2>3. KeysFit(w) /\ t[2] = w
      BY <1>11, <2>2
  <2>4. Set(Top.kind, Top.key, w) /\ starved \subseteq starved'
      BY <1>1, <1>11, <2>2, <2>3
  <2>5. AlikeValue(k, Top.kind, Top.key, w, UnValue(Top.kind, Top.key, w)) /\ ValueGood(Top.key, w)
      BY <1>1, <2>2, <2>3, AttributesAlike
  <2>6. AtWork(m, order, rest)'
      BY <1>1, <1>2, <1>7, <1>11, <2>2, <2>4, <2>5, SetFits DEF Scripted
  <2>7. QED
      BY <1>11, <2>6, HandledGoesOn
<1>12. QED
    BY <1>5, <1>6, <1>8, <1>10, <1>11 DEF ReadAttributes, Crash

-----------------------------------------------------------------------------
(* Into and out of maps and arrays.                                        *)

LEMMA OpenerNext ==
    ASSUME NEW m, NEW order \in Orders, NEW rest, NEW node, NEW due,
           Follows(m, order, rest, node, due), Top.left = Unopened,
           NEW v, v = node[Len(stack)]
    PROVE  /\ Keyless(Top) /\ NextToken(Opener(Top, v)) /\ Opener(Top, v) \in TokenSet
           /\ Reads(Top, v, order)
<1>1. Reads(Top, v, order)
    BY StackIs
<1>2. PICK f, n : f = Top /\ n = Size(f, v)
    OBVIOUS
<1>3. n \in Nat
    BY <1>1, <1>2, PartsAre
<1>4. Keyless(f)
  <2>1. f.key # "" => f.left \in 1..n
      BY <1>1, <1>2, Zenon DEF Reads
  <2>2. f.left \notin 1..n
      BY <1>2, <1>3, Numbers
  <2>3. QED
      BY <2>1, <2>2, Zenon DEF Keyless
<1>5. PICK g : g.what = f.what /\ g.kind = f.kind /\ g.left = n /\ Keyless(g)
  <2>1. PICK g : g = [what |-> f.what, kind |-> f.kind, left |-> n, key |-> f.key]
      OBVIOUS
  <2>2. g.what = f.what /\ g.kind = f.kind /\ g.left = n /\ g.key = f.key
      BY <2>1
  <2>3. Keyless(g)
      BY <1>4, <2>2, Zenon DEF Keyless
  <2>4. QED
      BY <2>2, <2>3
<1>6. IsJoined(Due(f, v, order), <<Opener(f, v)>>, Due(g, v, order)) /\ Reads(g, v, order)
    BY <1>1, <1>2, <1>5, DueOpens
<1>7. Opener(f, v) \in TokenSet
  <2>1. f.what = "map" => Opener(f, v) = Map(n)
      BY <1>2 DEF Opener, Size
  <2>2. f.what # "map" => Opener(f, v) = Array(n)
      BY <1>2 DEF Opener, Size
  <2>3. Map(n) \in TokenSet /\ Array(n) \in TokenSet
      BY <1>3 DEF Map, Array, TokenSet, TokenTypes
  <2>4. QED
      BY <2>1, <2>2, <2>3
<1>8. PICK y : y = Due(g, v, order)
    OBVIOUS
<1>9. y \in Seq(TokenSet)
    BY <1>6, <1>8, DueType
<1>10. NextToken(Opener(f, v))
  <2>1. IsJoined(Due(Top, node[Len(stack)], order), <<Opener(f, v)>>, y)
      BY <1>2, <1>6, <1>8
  <2>2. QED
      BY <1>7, <1>9, <2>1, DueNext
<1>11. QED
    BY <1>1, <1>2, <1>4, <1>7, <1>10

\* A map or an array begins: all of it is due, and none of it is read.
LEMMA OpenedHolds ==
    ASSUME NEW order, NEW f, NEW g, NEW v, g.what = f.what, g.kind = f.kind,
           f.left = Unopened, Begun(g, v) = 0, f.what = "array" => Len(v) <= MaxArray,
           NEW k, NEW o, Holds(k, f, v, o, Begun(f, v), order)
    PROVE  Holds(k, g, v, o, Begun(g, v), order)
<1>1. Begun(f, v) = 0
    BY DEF Begun
<1>2. QED
    BY <1>1 DEF Holds

LEMMA OpenedFits ==
    ASSUME Scripted, NEW m, NEW order \in Orders, NEW rest, NEW node, NEW due,
           Follows(m, order, rest, node, due), Top.left = Unopened,
           NEW v, v = node[Len(stack)], NEW limit, NEW t, Opened(t, limit, Size(Top, v)),
           Top.what = "array" => limit = MaxArray,
           Size(Top, v) > limit => Top.what = "array"
    PROVE  Underway(m, order, rest)'
<1>1. /\ Keyless(Top) /\ NextToken(Opener(Top, v)) /\ Opener(Top, v) \in TokenSet
      /\ Reads(Top, v, order)
    BY OpenerNext
<1>2. PICK f, n, x : f = Top /\ n = Size(f, v) /\ x = Opener(f, v)
    OBVIOUS
<1>3. Take(t) /\ Consumed(<<x>>)
    BY <1>1, <1>2, NextIs DEF Opened
<1>4. CASE n > limit
  <2>1. f.what = "array" /\ limit = MaxArray /\ n = Len(v)
      BY <1>2, <1>4 DEF Size
  <2>2. ~FrameGood(f, v)
    <3>1. n \in Nat /\ MaxArray \in Nat
        BY <1>1, <1>2, PartsAre, SentAssumption
    <3>2. ~(Len(v) <= MaxArray)
        BY <1>4, <2>1, <3>1
    <3>3. QED
        BY <2>1, <3>2 DEF FrameGood, AllGood
  <2>3. Excused(m)'
      BY <1>2, <2>2, StackIs DEF Excused
  <2>4. QED
      BY <1>2, <1>4, <2>3, Refused DEF Opened
<1>5. CASE ~(n > limit)
  <2>1. PICK g : g = [Top EXCEPT !.left = n]
      OBVIOUS
  <2>2. stack' = Append(Below, g) /\ UNCHANGED <<call, result>> /\ UNCHANGED <<trace, starved, history>>
      BY <1>2, <1>5, <2>1 DEF Opened
  <2>3. IsFrame(Top) /\ stack # <<>> /\ result = "ok" /\ IsList(stack)
      BY ReadingIs, TopFacts DEF Scripted, IInv, Typed
  <2>4. g.what = f.what /\ g.kind = f.kind /\ g.left = n /\ g.key = f.key
      BY <1>2, <2>1, <2>3, Zenon DEF IsFrame
  <2>5. Keyless(g)
      BY <1>1, <1>2, <2>4, Zenon DEF Keyless
  <2>6. /\ IsJoined(Due(f, v, order), <<x>>, Due(g, v, order)) /\ Reads(g, v, order)
        /\ Begun(g, v) = 0
      BY <1>1, <1>2, <2>4, <2>5, DueOpens
  <2>7. f.what = "array" => Len(v) <= MaxArray
    <3>1. n \in Nat /\ MaxArray \in Nat
        BY <1>1, <1>2, PartsAre, SentAssumption
    <3>2. f.what = "array" => n = Len(v) /\ limit = MaxArray
        BY <1>2 DEF Size
    <3>3. QED
        BY <1>5, <3>1, <3>2
  <2>8. PICK k, o : k = (starved' # {}) /\ o = Loc(trace', g)
      OBVIOUS
  <2>9. Holds(k, g, v, o, Begun(g, v), order)
    <3>1. o = Loc(trace, f) /\ k = (starved # {})
        BY <2>2, <2>4, <2>8, SameLoc
    <3>2. Holds(k, f, v, o, Begun(f, v), order)
        BY <1>2, <3>1, StackIs
    <3>3. QED
        BY <1>2, <2>4, <2>6, <2>7, <3>2, OpenedHolds
  <2>10. Off(stack, Len(stack), trace, trace') /\ starved \subseteq starved'
      BY <2>2 DEF Off
  <2>11. <<x>> \in Seq(TokenSet)
      BY <1>1, <1>2, Single
  <2>12. AtWork(m, order, rest)'
      BY <1>2, <1>3, <2>2, <2>4, <2>6, <2>8, <2>9, <2>10, <2>11, SwapFits
  <2>13. stack' # <<>> /\ result' = "ok"
      BY <2>2, <2>3, SwapFacts
  <2>14. QED
      BY <2>12, <2>13, GoesOnUnderway
<1>6. QED
    BY <1>4, <1>5

LEMMA OpenMapFits ==
    ASSUME Scripted, NEW m, NEW order \in Orders, NEW rest, NEW node, NEW due,
           Follows(m, order, rest, node, due), OpenMap
    PROVE  Underway(m, order, rest)'
<1>1. Top.what = "map" /\ Top.left = Unopened
    BY DEF OpenMap, Opening
<1>2. PICK v, n : v = node[Len(stack)] /\ n = Size(Top, v)
    OBVIOUS
<1>3. Opener(Top, v) = Map(n) /\ n = EntryCount[Top.kind]
    BY <1>1, <1>2 DEF Opener, Size
<1>4. NextToken(Map(n)) /\ Reads(Top, v, order)
    BY <1>1, <1>2, <1>3, OpenerNext
<1>5. n <= MaxMap /\ n \in Nat /\ MaxMap \in Nat
  <2>1. Top.kind \in DOMAIN EntryCount
      BY <1>1, <1>4 DEF Reads, Kinds, MapLevel, EntryCount
  <2>2. n \in Nat
      BY <1>2, <1>4, PartsAre
  <2>3. QED
      BY <1>3, <2>1, <2>2, MapsAreTaken
<1>6. CASE EndAt("engine")
    BY <1>6, EndExcused
<1>7. ~WrongType({"map"}, FALSE)
  <2>1. TypeOf(Map(n)) \in {"map"}
      BY Types
  <2>2. QED
      BY <1>4, <2>1, NextIs, Zenon
<1>8. ASSUME NEW t, Opened(t, MaxMap, CountOf(t))
      PROVE  Underway(m, order, rest)'
  <2>1. t = Map(n)
      BY <1>4, <1>8, NextIs DEF Opened
  <2>2. CountOf(t) = n
      BY <2>1 DEF CountOf, Map
  <2>3. Opened(t, MaxMap, Size(Top, v))
      BY <1>2, <1>8, <2>2
  <2>4. ~(n > MaxMap)
      BY <1>5
  <2>5. QED
      BY <1>1, <1>2, <2>3, <2>4, OpenedFits
<1>9. QED
    BY <1>6, <1>7, <1>8 DEF OpenMap

LEMMA OpenArrayFits ==
    ASSUME Scripted, NEW m, NEW order \in Orders, NEW rest, NEW node, NEW due,
           Follows(m, order, rest, node, due), OpenArray
    PROVE  Underway(m, order, rest)'
<1>1. Top.what = "array" /\ Top.left = Unopened
    BY DEF OpenArray, Opening
<1>2. PICK v, n : v = node[Len(stack)] /\ n = Size(Top, v)
    OBVIOUS
<1>3. Opener(Top, v) = Array(n)
    BY <1>1, <1>2 DEF Opener, Size
<1>4. NextToken(Array(n))
    BY <1>1, <1>2, <1>3, OpenerNext
<1>5. CASE EndAt("engine")
    BY <1>5, EndExcused
<1>6. ~WrongType({"array"}, FALSE)
  <2>1. TypeOf(Array(n)) \in {"array"}
      BY Types
  <2>2. QED
      BY <1>4, <2>1, NextIs, Zenon
<1>7. ASSUME NEW t, Opened(t, MaxArray, ElementsToRead(t[2]))
      PROVE  Underway(m, order, rest)'
  <2>1. t = Array(n)
      BY <1>4, <1>7, NextIs DEF Opened
  <2>2. ElementsToRead(t[2]) = n
      BY <2>1 DEF ElementsToRead, Array
  <2>3. Opened(t, MaxArray, Size(Top, v))
      BY <1>2, <1>7, <2>2
  <2>4. QED
      BY <1>1, <1>2, <2>3, OpenedFits
<1>8. QED
    BY <1>5, <1>6, <1>7 DEF OpenArray

LEMMA HoldsStill ==
    ASSUME NEW order, NEW f, NEW g, NEW v, g.what = f.what, g.kind = f.kind,
           Begun(g, v) = Begun(f, v), f.left # Unopened,
           NEW k, NEW o, NEW done, Holds(k, f, v, o, done, order)
    PROVE  Holds(k, g, v, o, done, order)
BY DEF Holds

\* The numbers of what is left.
LEMMA LeftIs ==
    ASSUME NEW f, NEW v, NEW order, Reads(f, v, order), f.left > 0, NEW n \in Nat, n = Size(f, v)
    PROVE  /\ f.left # Unopened /\ f.left # 0 /\ f.left \in 1..n
           /\ Begun(f, v) = n - f.left /\ Begun(f, v) + 1 \in 1..n
<1>1. PICK l : l = f.left
    OBVIOUS
<1>2. l = Unopened \/ l \in 0..n
    BY <1>1 DEF Reads
<1>3. l # Unopened /\ l \in 1..n
    BY <1>1, <1>2 DEF Unopened
<1>4. Begun(f, v) = n - l
    BY <1>1, <1>3 DEF Begun
<1>5. n - l + 1 \in 1..n /\ l # 0
    BY <1>3
<1>6. QED
    BY <1>1, <1>3, <1>4, <1>5

LEMMA ReadKeyFits ==
    ASSUME Scripted, NEW m, NEW order \in Orders, NEW rest, NEW node, NEW due,
           Follows(m, order, rest, node, due), ReadKey
    PROVE  Underway(m, order, rest)'
<1>1. Top.what = "map" /\ Top.left > 0 /\ Keyless(Top)
    BY Zenon DEF ReadKey, Keyless
<1>2. PICK f, v, n : f = Top /\ v = node[Len(stack)] /\ n = Size(f, v)
    OBVIOUS
<1>3. Reads(f, v, order)
    BY <1>2, StackIs
<1>4. n \in Nat
    BY <1>2, <1>3, PartsAre
<1>5. /\ f.left # Unopened /\ f.left # 0 /\ Begun(f, v) + 1 \in 1..n
    BY <1>1, <1>2, <1>3, <1>4, LeftIs
<1>6. PICK key : key = order[f.kind][Begun(f, v) + 1]
    OBVIOUS
<1>7. KeyToken(key) \in TokenSet
  <2>1. PICK i : i = Begun(f, v) + 1
      OBVIOUS
  <2>2. i \in 1..Size(f, v) /\ key = order[f.kind][i]
      BY <1>2, <1>5, <1>6, <2>1
  <2>3. QED
      BY <1>1, <1>2, <1>3, <2>2, KeyIs
<1>8. IsFrame(Top) /\ stack # <<>> /\ result = "ok" /\ IsList(stack)
    BY ReadingIs, TopFacts DEF Scripted, IInv, Typed
<1>9. ASSUME NEW g, g.what = f.what, g.kind = f.kind, g.left = f.left, g.key = key
      PROVE  /\ IsJoined(Due(f, v, order), <<KeyToken(key)>>, Due(g, v, order))
             /\ Reads(g, v, order) /\ Begun(g, v) = Begun(f, v)
             /\ key \in Range(Entries[f.kind])
    BY <1>1, <1>2, <1>3, <1>5, <1>6, <1>9, DueKey
<1>10. PICK more : more = Top.keys \cup {key}
    OBVIOUS
<1>11. PICK g : g = [Top EXCEPT !.key = key, !.keys = more]
    OBVIOUS
<1>12. g.what = f.what /\ g.kind = f.kind /\ g.left = f.left /\ g.key = key
    BY <1>2, <1>8, <1>11, Zenon DEF IsFrame
<1>13. /\ IsJoined(Due(f, v, order), <<KeyToken(key)>>, Due(g, v, order))
       /\ Reads(g, v, order) /\ Begun(g, v) = Begun(f, v)
       /\ key \in Range(Entries[f.kind])
    BY <1>9, <1>12
<1>14. NextToken(KeyToken(key))
  <2>1. PICK y : y = Due(g, v, order)
      OBVIOUS
  <2>2. y \in Seq(TokenSet)
      BY <1>13, <2>1, DueType
  <2>3. IsJoined(Due(Top, node[Len(stack)], order), <<KeyToken(key)>>, y)
      BY <1>2, <1>13, <2>1
  <2>4. QED
      BY <1>7, <2>2, <2>3, DueNext
<1>15. CASE EndAt("engine")
    BY <1>15, EndExcused
<1>16. ~WrongType({"string"}, FALSE)
  <2>0. TypeOf(KeyToken(key)) = "string"
      BY Types, Zenon
  <2>1. TypeOf(KeyToken(key)) \in {"string"}
      BY <2>0
  <2>2. QED
      BY <1>14, <2>1, NextIs, Zenon
<1>17. ASSUME NEW t, Take(t)
       PROVE  t = KeyToken(key) /\ Consumed(<<KeyToken(key)>>) /\ t[2] = key /\ IsKey(t)
              /\ Outcomes(t) = {"memory", "ok"}
  <2>1. t = KeyToken(key) /\ Consumed(<<KeyToken(key)>>)
      BY <1>14, <1>17, NextIs
  <2>2. t[1] = "key" /\ t[2] = key
      BY <2>1 DEF KeyToken
  <2>3. IsKey(t)
      BY <1>2, <1>13, <2>2 DEF IsKey
  <2>4. Outcomes(t) = {"memory", "ok"}
      BY <2>1, Types
  <2>5. QED
      BY <2>1, <2>2, <2>3, <2>4
<1>18. ASSUME NEW t, ConsumeString(t, "memory", "key"), Fail("memory")
       PROVE  Underway(m, order, rest)'
  <2>1. "key" \in starved'
      BY <1>18 DEF ConsumeString
  <2>2. QED
      BY <1>18, <2>1, StarvedExcused
<1>19. ASSUME NEW t, ConsumeString(t, "ok", "key"), UNCHANGED <<call, result>>, UNCHANGED trace,
              stack' = Append(Below, [Top EXCEPT !.key = t[2], !.keys = @ \cup {t[2]}])
       PROVE  Underway(m, order, rest)'
  <2>1. Take(t) /\ starved' = starved
      BY <1>19 DEF ConsumeString
  <2>2. t[2] = key /\ Consumed(<<KeyToken(key)>>)
      BY <1>17, <2>1
  <2>3. stack' = Append(Below, g)
      BY <1>10, <1>11, <1>19, <2>2
  <2>4. PICK k, o, x : k = (starved' # {}) /\ o = Loc(trace', g) /\ x = <<KeyToken(key)>>
      OBVIOUS
  <2>5. Holds(k, g, v, o, Begun(g, v), order)
    <3>1. o = Loc(trace, f) /\ k = (starved # {})
        BY <1>12, <1>19, <2>1, <2>4, SameLoc
    <3>2. Holds(k, f, v, o, Begun(f, v), order)
        BY <1>2, <3>1, StackIs
    <3>3. Holds(k, g, v, o, Begun(f, v), order)
        BY <1>5, <1>12, <1>13, <3>2, HoldsStill
    <3>4. QED
        BY <1>13, <3>3
  <2>6. Off(stack, Len(stack), trace, trace') /\ starved \subseteq starved'
      BY <1>19, <2>1 DEF Off
  <2>7. x \in Seq(TokenSet)
      BY <1>7, <2>4, Single
  <2>8. AtWork(m, order, rest)'
      BY <1>2, <1>12, <1>13, <2>2, <2>3, <2>4, <2>5, <2>6, <2>7, SwapFits
  <2>9. stack' # <<>> /\ result' = "ok"
      BY <1>8, <1>19, <2>3, SwapFacts
  <2>10. QED
      BY <2>8, <2>9, GoesOnUnderway
<1>20. ASSUME NEW t, NEW outcome, ConsumeString(t, outcome, "key"),
              IF outcome = "ok" /\ IsKey(t)
               THEN /\ stack' = Append(Below, [Top EXCEPT !.key = t[2], !.keys = @ \cup {t[2]}])
                    /\ UNCHANGED <<call, result>>
               ELSE Fail(IF outcome = "ok" THEN "key" ELSE outcome),
              UNCHANGED trace
       PROVE  Underway(m, order, rest)'
  <2>1. Take(t) /\ outcome \in Outcomes(t)
      BY <1>20 DEF ConsumeString
  <2>2. outcome \in {"memory", "ok"} /\ IsKey(t)
      BY <1>17, <2>1
  <2>3. CASE outcome = "memory"
    <3>1. Fail("memory") /\ ConsumeString(t, "memory", "key")
        BY <1>20, <2>3
    <3>2. QED
        BY <1>18, <3>1
  <2>4. CASE outcome = "ok"
    <3>1. /\ ConsumeString(t, "ok", "key") /\ UNCHANGED <<call, result>>
          /\ stack' = Append(Below, [Top EXCEPT !.key = t[2], !.keys = @ \cup {t[2]}])
        BY <1>20, <2>2, <2>4
    <3>2. QED
        BY <1>19, <1>20, <3>1
  <2>5. QED
      BY <2>2, <2>3, <2>4
<1>21. QED
    BY <1>15, <1>16, <1>20 DEF ReadKey

LEMMA CloseFits ==
    ASSUME Scripted, NEW m, NEW order \in Orders, NEW rest, NEW node, NEW due,
           Follows(m, order, rest, node, due), Close
    PROVE  Underway(m, order, rest)'
<1>1. /\ Places(stack, m, order, node, due, rest) /\ RestAt(buffer.tokens, pos) = due[Len(stack)]
      /\ Content(starved # {}, stack, trace, order, node)
    BY DEF Follows
<1>2. IsList(stack) /\ stack # <<>> /\ Len(stack) \in 1..9 /\ Top = stack[Len(stack)]
    BY StackIs
<1>3. PICK n, s, t, k, c : /\ n = Len(stack) /\ s = stack /\ t = stack' /\ k = (starved # {})
                           /\ c = trace
    OBVIOUS
<1>4. s[n].left = 0 /\ t = Front(s)
    BY <1>2, <1>3 DEF Close, Below
<1>5. IsList(t) /\ Len(t) = n - 1 /\ \A i \in 1..(n - 1) : t[i] = s[i]
    BY <1>2, <1>3, <1>4, FrontFacts
<1>6. /\ due[n] = due[n - 1]
      /\ n # 1 => Places(t, m, order, node, due, rest)
      /\ n = 1 => due[n] = rest
    BY <1>1, <1>3, <1>4, <1>5, PlacesClose
<1>7. k \in BOOLEAN /\ (starved' # {}) = k /\ trace' = c
    BY <1>3 DEF Close
<1>8. RestAt(buffer.tokens, pos)' = due[n]
    BY <1>1, <1>3 DEF Close, reader, RestAt
<1>9. result' = "ok"
    BY DEF Close, Reading
<1>10. CASE n = 1
  <2>1. Complete(k, m, c)
      BY <1>1, <1>3, <1>4, <1>7, <1>10, LastCloses
  <2>2. t = <<>>
      BY <1>5, <1>10, ListFacts
  <2>3. Complete(starved # {}, m, trace)'
      BY <1>7, <2>1
  <2>4. QED
    <3>1. stack' = <<>> /\ RestAt(buffer.tokens, pos)' = rest
        BY <1>3, <1>6, <1>8, <1>10, <2>2
    <3>2. QED
        BY <1>9, <2>3, <3>1 DEF Underway
<1>11. CASE n # 1
  <2>1. Content(k, t, c, order, node)
    <3>1. Places(s, m, order, node, due, rest) /\ Content(k, s, c, order, node) /\ n = Len(s)
        BY <1>1, <1>3
    <3>2. QED
        BY <1>4, <1>5, <1>7, <1>11, <3>1, ContentClose
  <2>2. Follows(m, order, rest, node, due)'
    <3>1. Places(t, m, order, node, due, rest)
        BY <1>6, <1>11
    <3>2. RestAt(buffer.tokens, pos)' = due[Len(t)]
        BY <1>5, <1>6, <1>8
    <3>3. QED
        BY <1>3, <1>7, <2>1, <3>1, <3>2 DEF Follows
  <2>3. AtWork(m, order, rest)'
      BY <2>2, FollowsIs
  <2>4. t # <<>>
    <3>1. n - 1 > 0
        BY <1>2, <1>3, <1>11
    <3>2. QED
        BY <1>5, <3>1, ListFacts
  <2>5. QED
      BY <1>3, <1>9, <2>3, <2>4, GoesOnUnderway
<1>12. QED
    BY <1>10, <1>11

-----------------------------------------------------------------------------
(* Into the value under a key.                                             *)

IsChild(h) == \/ h.what = "map" /\ h.kind \in Kinds
              \/ h.what = "array" /\ h.kind \in DOMAIN ArrayLevel

LEMMA ChildLevel ==
    ASSUME NEW kind \in Kinds, NEW h, IsChild(h), SlotKey(h) \in Range(Entries[kind])
    PROVE  Level(h) = MapLevel[kind] + 1
<1>1. kind \in DOMAIN Entries
    BY DEF Kinds, MapLevel, Entries
<1>2. PICK key : key = SlotKey(h)
    OBVIOUS
<1>3. /\ h.what = "map" => key = h.kind /\ h.kind \in {"resource", "scope", "status"}
      /\ h.what = "array" => key \in ArrayKeys /\ Element[key] = h.kind
    BY <1>2, SlotOf DEF IsChild
<1>4. CASE h.what = "map"
  <2>1. /\ key = "resource" => kind = "resource_span"
        /\ key = "status" => kind = "span"
        /\ key = "scope" => kind = "scope_span"
      BY <1>1, <1>2, KeyPlace
  <2>2. Level(h) = MapLevel[key]
      BY <1>3, <1>4 DEF Level
  <2>3. QED
      BY <1>3, <1>4, <2>1, <2>2 DEF MapLevel
<1>5. CASE h.what = "array"
  <2>1. ArrayLevel[Element[key]] = MapLevel[kind] + 1
      BY <1>1, <1>2, <1>3, <1>5, ArrayPlace
  <2>2. Level(h) = ArrayLevel[h.kind]
      BY <1>5 DEF Level
  <2>3. QED
      BY <1>3, <1>5, <2>1, <2>2
<1>6. QED
    BY <1>4, <1>5 DEF IsChild

\* The value under the key is good, and so is the frame that reads it.
LEMMA ChildGood ==
    ASSUME NEW kind \in Kinds, NEW h, IsChild(h), SlotKey(h) \in Range(Entries[kind]),
           NEW w, h.kind = "scope" => w # NULL, ValueGood(SlotKey(h), w)
    PROVE  FrameGood(h, w)
<1>1. PICK key : key = SlotKey(h)
    OBVIOUS
<1>2. /\ h.what = "map" => key = h.kind /\ h.kind \in {"resource", "scope", "status"}
      /\ h.what = "array" => key \in ArrayKeys /\ Element[key] = h.kind
    BY <1>1, SlotOf DEF IsChild
<1>3. ValueGood(key, w)
    BY <1>1
<1>4. CASE h.what = "map"
  <2>1. NodeGood("status", w)
      BY DEF NodeGood
  <2>2. NodeGood(h.kind, w)
      BY <1>2, <1>3, <1>4, <2>1 DEF ValueGood
  <2>3. QED
      BY <1>4, <2>2 DEF FrameGood
<1>5. CASE h.what = "array"
  <2>1. AllGood(h.kind, w)
      BY <1>2, <1>3, <1>5 DEF ValueGood
  <2>2. QED
      BY <1>5, <2>1 DEF FrameGood
<1>6. QED
    BY <1>4, <1>5 DEF IsChild

\* The frame of the key waits for its value, and holds what it held.
LEMMA HandledWaits ==
    ASSUME IInv, NEW m, NEW order \in Orders, NEW rest, NEW node, NEW due,
           Follows(m, order, rest, node, due), ~Keyless(Top),
           NEW v, v = node[Len(stack)]
    PROVE  Holds(starved # {}, HandledFrame, v, Loc(trace, Top), Begun(HandledFrame, v) - 1, order)
<1>1. PICK f, g, b, k, o, N : /\ f = Top /\ g = HandledFrame /\ b = Begun(f, v) /\ k = (starved # {})
                              /\ o = Loc(trace, f) /\ N = EntryCount[f.kind]
    OBVIOUS
<1>2. /\ g.what = "map" /\ g.kind = f.kind /\ f.kind \in Kinds
      /\ Begun(g, v) = b + 1 /\ b \in Nat
      /\ HoldsMap(k, f.kind, v, o, b, b + 1, order)
    BY <1>1, KeyAtHand
<1>3. N \in Nat
    BY <1>1, <1>2, OrderIs
<1>4. \A i \in (b + 1 + 1)..N : i \in (b + 1)..N
    BY <1>2, <1>3
<1>5. HoldsMap(k, f.kind, v, o, b, b + 1 + 1, order)
    BY <1>1, <1>2, <1>4 DEF HoldsMap
<1>6. b + 1 - 1 = b
    BY <1>2
<1>7. Holds(k, g, v, o, b, order)
    BY <1>2, <1>5 DEF Holds
<1>8. QED
    BY <1>1, <1>2, <1>6, <1>7

LEMMA ChildFits ==
    ASSUME Scripted, NEW m, NEW order \in Orders, NEW rest, NEW node, NEW due,
           Follows(m, order, rest, node, due), ~Keyless(Top),
           NEW v, v = node[Len(stack)], NEW w, w = v[Top.key],
           NEW h, IsChild(h), SlotKey(h) = Top.key, h.kind = "scope" => w # NULL,
           Reads(h, w, order), NEW x \in Seq(TokenSet),
           IsJoined(WireValue(Top.key, w, order), x, Due(h, w, order)), Consumed(x),
           starved \subseteq starved', Off(stack, Len(stack), trace, trace'),
           stack' = Push(HandledFrame, h),
           NEW o, o = Loc(trace, Top), NEW p, p = Loc(trace', Top),
           Beside(HandledFrame, h, o, p) \/ p = o,
           Lineage(stack') => Holds(starved' # {}, h, w, Loc(trace', h), Begun(h, w), order)
    PROVE  AtWork(m, order, rest)'
<1>1. PICK f, g, k, l : f = Top /\ g = HandledFrame /\ k = (starved # {}) /\ l = (starved' # {})
    OBVIOUS
<1>2. /\ g.what = f.what /\ g.kind = f.kind /\ f.what = "map" /\ f.kind \in Kinds
      /\ f.key \in Range(Entries[f.kind]) /\ Keyless(g)
      /\ IsJoined(Due(f, v, order), WireValue(f.key, w, order), Due(g, v, order))
      /\ Reads(g, v, order) /\ Begun(g, v) \in 1..EntryCount[f.kind]
      /\ Size(g, v) = EntryCount[f.kind]
      /\ f.key = order[f.kind][Begun(g, v)] /\ IsNode(f.kind, v)
    BY <1>1, KeyAtHand DEF Scripted
<1>3. Linked(g, h, v, w, order)
  <2>1. g.left # Unopened
    <3>1. EntryCount[f.kind] \in Nat
        BY <1>2, OrderIs
    <3>2. Begun(g, v) # 0
        BY <1>2, <3>1
    <3>3. QED
        BY <3>2 DEF Begun
  <2>2. g.key = ""
      BY <1>2, Zenon DEF Keyless
  <2>3. Begun(g, v) \in 1..Size(g, v)
      BY <1>2
  <2>4. g.what # "array"
      BY <1>2
  <2>5. order[g.kind][Begun(g, v)] = SlotKey(h) /\ w = v[SlotKey(h)]
      BY <1>1, <1>2
  <2>6. QED
      BY <2>1, <2>2, <2>3, <2>4, <2>5, Zenon DEF Linked
<1>4. Level(h) = Len(stack) + 1
  <2>1. Level(h) = MapLevel[f.kind] + 1
      BY <1>1, <1>2, ChildLevel
  <2>2. Level(Top) = Len(stack)
      BY ReadingIs, TopFacts DEF Scripted
  <2>3. QED
      BY <1>1, <1>2, <2>1, <2>2 DEF Level
<1>5. Good(m) => FrameGood(h, w)
  <2>1. Good(m) => ValueGood(Top.key, w)
      BY BadValue DEF Scripted
  <2>2. QED
      BY <1>1, <1>2, <2>1, ChildGood
<1>6. PICK u : IsJoined(u, Due(h, w, order), Due(g, v, order))
    BY DEF IsJoined
<1>7. IsJoined(Due(f, v, order), x, u)
  <2>1. PICK a, c, y : a = Due(h, w, order) /\ c = Due(g, v, order) /\ y = WireValue(f.key, w, order)
      OBVIOUS
  <2>2. a \in Seq(TokenSet) /\ c \in Seq(TokenSet)
      BY <1>2, <2>1, DueType
  <2>3. y = x \o a /\ u = a \o c /\ Due(f, v, order) = y \o c
      BY <1>1, <1>2, <1>6, <2>1 DEF IsJoined
  <2>4. (x \o a) \o c = x \o (a \o c)
      BY <2>2, Regroup
  <2>5. QED
      BY <2>3, <2>4 DEF IsJoined
<1>8. Holds(l, g, v, Loc(trace', g), Begun(g, v) - 1, order)
  <2>1. Holds(k, g, v, o, Begun(g, v) - 1, order)
      BY <1>1, HandledWaits DEF Scripted
  <2>2. k \in BOOLEAN /\ l \in BOOLEAN /\ (k => l)
      BY <1>1, MoreStarved
  <2>3. Beside(g, h, o, p) \/ p = o
      BY <1>1
  <2>4. Holds(l, g, v, p, Begun(g, v) - 1, order)
      BY <1>2, <1>3, <2>1, <2>2, <2>3, BesideKeeps
  <2>5. Loc(trace', g) = p
      BY <1>1, <1>2, SameLoc
  <2>6. QED
      BY <2>4, <2>5
<1>9. QED
  <2>1. /\ g.what = Top.what /\ g.kind = Top.kind /\ Reads(g, node[Len(stack)], order)
        /\ Linked(g, h, node[Len(stack)], w, order) /\ stack' = Push(g, h)
        /\ IsJoined(u, Due(h, w, order), Due(g, node[Len(stack)], order))
        /\ IsJoined(Due(Top, node[Len(stack)], order), x, u)
        /\ Holds(starved' # {}, g, node[Len(stack)], Loc(trace', g),
                 Begun(g, node[Len(stack)]) - 1, order)
      BY <1>1, <1>2, <1>3, <1>6, <1>7, <1>8
  <2>2. QED
      BY <1>4, <1>5, <2>1, PushFits

\* A structure that has just been made holds nothing yet.
LEMMA BlankHolds ==
    ASSUME NEW kind \in Kinds, NEW hungry, NEW w, NEW order
    PROVE  HoldsMap(hungry, kind, w, Blank(kind), 0, 1, order)
<1>1. PICK o : o = Blank(kind)
    OBVIOUS
<1>2. o = [x \in Fields(kind) |-> o[x]]
  <2>1. kind \in {"context", "resource_span", "resource", "scope_span", "scope", "span", "status",
                  "event", "link"}
      BY DEF Kinds, MapLevel
  <2>2. CASE kind \in {"context", "resource", "status"}
    <3>1. o = [x \in DOMAIN o |-> o[x]]
        BY <1>1, <2>2, BlankIs
    <3>2. QED
        BY <1>1, <3>1 DEF Fields
  <2>3. CASE kind \in {"resource_span", "scope_span", "scope", "span", "event", "link"}
    <3>1. o = New[kind]
        BY <1>1, <2>3, BlankIs
    <3>2. o = [x \in DOMAIN o |-> o[x]]
      <4>1. New["resource_span"] = [x \in DOMAIN New["resource_span"] |-> New["resource_span"][x]]
          BY DEF New
      <4>2. New["scope_span"] = [x \in DOMAIN New["scope_span"] |-> New["scope_span"][x]]
          BY DEF New
      <4>3. New["scope"] = [x \in DOMAIN New["scope"] |-> New["scope"][x]]
          BY DEF New
      <4>4. New["span"] = [x \in DOMAIN New["span"] |-> New["span"][x]]
          BY DEF New
      <4>5. New["event"] = [x \in DOMAIN New["event"] |-> New["event"][x]]
          BY DEF New
      <4>6. New["link"] = [x \in DOMAIN New["link"] |-> New["link"][x]]
          BY DEF New
      <4>7. QED
          BY <2>3, <3>1, <4>1, <4>2, <4>3, <4>4, <4>5, <4>6
    <3>3. QED
        BY <1>1, <3>2 DEF Fields
  <2>4. QED
      BY <2>1, <2>2, <2>3
<1>3. "flags" \in Fields(kind) => o.flags = 0
  <2>1. "flags" \in Fields(kind) => kind \in {"span", "link"}
    <3>1. kind \in {"context", "resource_span", "resource", "scope_span", "scope", "span", "status",
                    "event", "link"}
        BY DEF Kinds, MapLevel
    <3>2. QED
        BY <3>1, FieldsAre
  <2>2. New["span"].flags = 0 /\ New["link"].flags = 0
      BY DEF New
  <2>3. kind \in {"span", "link"} => o = New[kind]
      BY <1>1, BlankIs
  <2>4. QED
      BY <2>1, <2>2, <2>3
<1>4. QED
    BY <1>1, <1>2, <1>3 DEF HoldsMap

\* The field of the key at hand is as it was made.
LEMMA UntouchedYet ==
    ASSUME IInv, NEW m, NEW order \in Orders, NEW rest, NEW node, NEW due,
           Follows(m, order, rest, node, due), ~Keyless(Top),
           ~(Top.kind = "event" /\ Top.key = "attributes")
    PROVE  Loc(trace, Top)[FieldFor(Top.key)] = Blank(Top.kind)[FieldFor(Top.key)]
<1>1. PICK v, o, b, kind, key : /\ v = node[Len(stack)] /\ o = Loc(trace, Top) /\ b = Begun(Top, v)
                                /\ kind = Top.kind /\ key = Top.key
    OBVIOUS
<1>2. /\ HoldsMap(starved # {}, kind, v, o, b, b + 1, order)
      /\ b + 1 \in 1..EntryCount[kind] /\ b \in Nat /\ key = order[kind][b + 1] /\ kind \in Kinds
    BY <1>1, KeyAtHand
<1>3. PICK i, N : i = b + 1 /\ N = EntryCount[kind]
    OBVIOUS
<1>4. i \in (b + 1)..N
  <2>1. N \in Nat
      BY <1>2, <1>3, OrderIs
  <2>2. QED
      BY <1>2, <1>3, <2>1
<1>5. \/ kind = "event" /\ order[kind][i] = "attributes"
      \/ o[FieldFor(order[kind][i])] = Blank(kind)[FieldFor(order[kind][i])]
    BY <1>2, <1>3, <1>4 DEF HoldsMap
<1>6. order[kind][i] = key
    BY <1>2, <1>3
<1>7. QED
    BY <1>1, <1>5, <1>6

\* What a structure has where another one or a list is to be read to.
LEMMA BlankChild ==
    ASSUME NEW kind \in Kinds, NEW h, IsChild(h), SlotKey(h) \in Range(Entries[kind])
    PROVE  /\ h.what = "map" /\ h.kind # "scope" =>
                 Blank(kind)[FieldFor(SlotKey(h))] = Blank(h.kind)
           /\ h.what = "map" /\ h.kind = "scope" => Blank(kind)[FieldFor(SlotKey(h))] = NULL
           /\ h.what = "array" => Blank(kind)[FieldFor(SlotKey(h))] = <<>>
<1>1. kind \in DOMAIN Entries
    BY DEF Kinds, MapLevel, Entries
<1>2. PICK key : key = SlotKey(h)
    OBVIOUS
<1>3. /\ h.what = "map" => key = h.kind /\ h.kind \in {"resource", "scope", "status"}
      /\ h.what = "array" => key \in ArrayKeys /\ Element[key] = h.kind
    BY <1>2, SlotOf DEF IsChild
<1>4. kind \in {"context", "resource_span", "resource", "scope_span", "scope", "span", "status",
                "event", "link"}
    BY DEF Kinds, MapLevel
<1>5. /\ key = "resource" => kind = "resource_span"
      /\ key = "status" => kind = "span"
      /\ key = "scope" => kind = "scope_span"
      /\ key = "resourceSpans" => kind = "context"
      /\ key = "scope_spans" => kind = "resource_span"
      /\ key = "spans" => kind = "scope_span"
      /\ key \in {"events", "links"} => kind = "span"
    BY <1>2, <1>4, KeysAre
<1>6. /\ Blank("context") = [resourceSpans |-> <<>>] /\ Blank("resource_span") = New["resource_span"]
      /\ Blank("scope_span") = New["scope_span"] /\ Blank("span") = New["span"]
      /\ Blank("resource") = New["resource_span"]["resource"]
      /\ Blank("status") = New["span"]["status"]
    BY BlankIs DEF Blank
<1>7. /\ New["resource_span"]["scope_spans"] = <<>> /\ New["scope_span"]["spans"] = <<>>
      /\ New["scope_span"]["instrumentation_scope"] = NULL
      /\ New["span"]["events"] = <<>> /\ New["span"]["links"] = <<>>
    BY DEF New
<1>8. /\ FieldFor("resource") = "resource" /\ FieldFor("status") = "status"
      /\ FieldFor("scope") = "instrumentation_scope" /\ FieldFor("resourceSpans") = "resourceSpans"
      /\ FieldFor("scope_spans") = "scope_spans" /\ FieldFor("spans") = "spans"
      /\ FieldFor("events") = "events" /\ FieldFor("links") = "links"
    BY FieldForIs
<1>9. CASE h.what = "map"
    BY <1>2, <1>3, <1>5, <1>6, <1>7, <1>8, <1>9
<1>10. CASE h.what = "array"
  <2>1. key \in {"resourceSpans", "scope_spans", "spans", "events", "links"}
      BY <1>3, <1>10, KeysDiffer
  <2>2. QED
      BY <1>2, <1>5, <1>6, <1>7, <1>8, <1>10, <2>1
<1>11. QED
    BY <1>9, <1>10 DEF IsChild

\* An empty list holds none of the elements.
LEMMA NothingHolds ==
    ASSUME NEW h, NEW w, NEW order, NEW hungry, h.left = Unopened, NEW o,
           \/ h.what = "map" /\ h.kind \in Kinds /\ o = Blank(h.kind)
           \/ h.what = "array" /\ o = <<>>
    PROVE  Holds(hungry, h, w, o, Begun(h, w), order)
<1>1. Begun(h, w) = 0
    BY DEF Begun
<1>2. CASE h.what = "map" /\ h.kind \in Kinds /\ o = Blank(h.kind)
  <2>1. HoldsMap(hungry, h.kind, w, o, 0, 1, order)
      BY <1>2, BlankHolds
  <2>2. QED
      BY <1>1, <1>2, <2>1 DEF Holds
<1>3. CASE h.what = "array" /\ o = <<>>
  <2>1. HoldsArray(hungry, h.kind, w, o, 0, 0)
      BY <1>3, EmptyIsList DEF HoldsArray
  <2>2. QED
      BY <1>1, <1>3, <2>1 DEF Holds
<1>4. QED
    BY <1>2, <1>3

\* The tokens of a value are those of the frame that reads it.
LEMMA ChildReads ==
    ASSUME NEW order \in Orders, NEW kind \in Kinds, NEW h, IsChild(h),
           SlotKey(h) \in Range(Entries[kind]), h.left = Unopened, Keyless(h),
           NEW w, IsValue(kind, SlotKey(h), w), h.kind = "scope" => w # NULL
    PROVE  Reads(h, w, order) /\ WireValue(SlotKey(h), w, order) = Due(h, w, order)
<1>1. PICK key : key = SlotKey(h)
    OBVIOUS
<1>2. /\ h.what = "map" => key = h.kind /\ h.kind \in {"resource", "scope", "status"}
      /\ h.what = "array" => key \in ArrayKeys /\ Element[key] = h.kind
    BY <1>1, SlotOf DEF IsChild
<1>3. h.key = ""
    BY Zenon DEF Keyless
<1>4. IsValue(kind, key, w)
    BY <1>1
<1>5. Due(h, w, order) = Whole(h, w, order)
    BY Zenon DEF Due
<1>6. CASE h.what = "map"
  <2>1. IsNode(key, w)
      BY <1>2, <1>4, <1>6 DEF IsValue
  <2>2. Reads(h, w, order)
      BY <1>2, <1>3, <1>6, <2>1, Zenon DEF Reads, IsChild
  <2>3. Whole(h, w, order) = WireFlat(key, w, order)
      BY <1>2, <1>6, WireNodeIs DEF Whole
  <2>4. WireValue(key, w, order) = WireFlat(key, w, order)
      BY <1>2, <1>6, WireValueIs
  <2>5. QED
      BY <1>1, <1>5, <2>2, <2>3, <2>4
<1>7. CASE h.what = "array"
  <2>1. AreNodes(h.kind, w)
      BY <1>2, <1>4, <1>7 DEF IsValue
  <2>2. Reads(h, w, order)
      BY <1>3, <1>7, <2>1, Zenon DEF Reads, IsChild
  <2>3. Whole(h, w, order) = WireArray(Elements(h.kind, w, order))
      BY <1>7 DEF Whole
  <2>4. WireValue(key, w, order) = WireArray(Elements(h.kind, w, order))
      BY <1>2, <1>7, WireValueIs
  <2>5. QED
      BY <1>1, <1>5, <2>2, <2>3, <2>4
<1>8. QED
    BY <1>6, <1>7 DEF IsChild

LEMMA EnterFits ==
    ASSUME Scripted, NEW m, NEW order \in Orders, NEW rest, NEW node, NEW due,
           Follows(m, order, rest, node, due), ~Keyless(Top),
           NEW h, IsChild(h), SlotKey(h) = Top.key,
           h.kind # "scope", h.left = Unopened, Keyless(h),
           stack' = Push(HandledFrame, h),
           UNCHANGED <<reader, call, trace, result, starved, history>>
    PROVE  Underway(m, order, rest)'
<1>1. PICK v, w : v = node[Len(stack)] /\ w = v[Top.key]
    OBVIOUS
<1>2. /\ Top.what = "map" /\ Top.kind \in Kinds /\ Top.key \in Range(Entries[Top.kind])
      /\ IsValue(Top.kind, Top.key, w)
      /\ HandledFrame.what = Top.what /\ HandledFrame.kind = Top.kind
    BY <1>1, KeyAtHand DEF Scripted
<1>3. Reads(h, w, order) /\ WireValue(Top.key, w, order) = Due(h, w, order)
    BY <1>2, ChildReads
<1>4. PICK x : x = <<>>
    OBVIOUS
<1>5. x \in Seq(TokenSet) /\ Consumed(x)
    BY <1>4, NothingConsumed DEF reader
<1>6. IsJoined(WireValue(Top.key, w, order), x, Due(h, w, order))
  <2>1. PICK d : d = Due(h, w, order)
      OBVIOUS
  <2>2. d \in Seq(TokenSet)
      BY <1>3, <2>1, DueType
  <2>3. d = <<>> \o d
      BY <2>2
  <2>4. QED
      BY <1>3, <1>4, <2>1, <2>3 DEF IsJoined
<1>7. Off(stack, Len(stack), trace, trace') /\ starved \subseteq starved'
    BY DEF Off
<1>8. IsList(stack) /\ stack # <<>> /\ result = "ok"
    BY ReadingIs DEF Scripted, IInv, Typed
<1>9. PICK k, c, s, n : k = (starved' # {}) /\ c = trace' /\ s = stack' /\ n = Len(stack)
    OBVIOUS
<1>10. /\ s[n] = HandledFrame /\ s[n + 1] = h /\ Len(s) = n + 1 /\ n \in Nat \ {0} /\ s # <<>>
    BY <1>8, <1>9, PushFacts
<1>11. ASSUME Lineage(s)
       PROVE  Holds(k, h, w, Loc(c, h), Begun(h, w), order)
  <2>1. PICK i : i = n
      OBVIOUS
  <2>2. i \in 1..(Len(s) - 1)
      BY <1>10, <2>1
  <2>3. s[i].what = "map" => Loc(c, s[i + 1]) = Loc(c, s[i])[FieldFor(SlotKey(s[i + 1]))]
      BY ONLY <1>11, <2>2, Nested
  <2>4. Loc(c, h) = Loc(c, HandledFrame)[FieldFor(SlotKey(h))]
      BY <1>2, <1>10, <2>1, <2>3
  <2>5. Loc(c, HandledFrame) = Loc(trace, Top)
      BY <1>2, <1>9, SameLoc
  <2>6. Top.key # "attributes"
    <3>1. /\ h.what = "map" => SlotKey(h) = h.kind /\ h.kind \in {"resource", "scope", "status"}
          /\ h.what = "array" => SlotKey(h) \in ArrayKeys
        BY <1>2, SlotOf DEF IsChild
    <3>2. QED
        BY <3>1, KeysDiffer DEF IsChild
  <2>7. Loc(c, h) = Blank(Top.kind)[FieldFor(SlotKey(h))]
      BY <2>4, <2>5, <2>6, UntouchedYet DEF Scripted
  <2>8. \/ h.what = "map" /\ h.kind \in Kinds /\ Loc(c, h) = Blank(h.kind)
        \/ h.what = "array" /\ Loc(c, h) = <<>>
      BY <1>2, <2>7, BlankChild DEF IsChild
  <2>9. QED
      BY <2>8, NothingHolds
<1>12. PICK o, p : o = Loc(trace, Top) /\ p = Loc(trace', Top)
    OBVIOUS
<1>13. p = o
    BY <1>12
<1>14. Lineage(stack') => Holds(starved' # {}, h, w, Loc(trace', h), Begun(h, w), order)
    BY <1>9, <1>11
<1>15. AtWork(m, order, rest)'
    BY <1>1, <1>3, <1>5, <1>6, <1>7, <1>12, <1>13, <1>14, ChildFits
<1>16. QED
    BY <1>8, <1>9, <1>10, <1>15, GoesOnUnderway

\* The frame of a value: its key is its kind, or else that of the list.
LEMMA FrameFor ==
    /\ \A key \in {"resource", "status", "scope"} :
          LET h == Frame("map", key)
          IN  IsChild(h) /\ SlotKey(h) = key /\ h.left = Unopened /\ Keyless(h) /\ h.kind = key
              /\ h.what = "map"
    /\ \A key \in ArrayKeys :
          LET h == Frame("array", Element[key])
          IN  IsChild(h) /\ SlotKey(h) = key /\ h.left = Unopened /\ Keyless(h) /\ h.kind # "scope"
<1>1. ASSUME NEW key \in {"resource", "status", "scope"}
      PROVE  LET h == Frame("map", key)
             IN  IsChild(h) /\ SlotKey(h) = key /\ h.left = Unopened /\ Keyless(h) /\ h.kind = key
                 /\ h.what = "map"
  <2>1. PICK h : h = Frame("map", key)
      OBVIOUS
  <2>2. h.what = "map" /\ h.kind = key /\ h.left = Unopened /\ h.key = ""
      BY <2>1, Zenon DEF Frame
  <2>3. key \in Kinds
      BY DEF Kinds, MapLevel
  <2>4. QED
      BY <2>1, <2>2, <2>3, Zenon DEF IsChild, SlotKey, Keyless
<1>2. ASSUME NEW key \in ArrayKeys
      PROVE  LET h == Frame("array", Element[key])
             IN  IsChild(h) /\ SlotKey(h) = key /\ h.left = Unopened /\ Keyless(h) /\ h.kind # "scope"
  <2>1. PICK h, kind : kind = Element[key] /\ h = Frame("array", kind)
      OBVIOUS
  <2>2. h.what = "array" /\ h.kind = kind /\ h.left = Unopened /\ h.key = ""
      BY <2>1, Zenon DEF Frame
  <2>3. kind \in DOMAIN ArrayLevel /\ Slot[kind] = key /\ kind # "scope"
      BY <2>1, KeysDiffer DEF ArrayLevel, Slot
  <2>4. IsChild(h) /\ SlotKey(h) = key
      BY <2>2, <2>3 DEF IsChild, SlotKey
  <2>5. QED
      BY <2>1, <2>2, <2>3, <2>4, Zenon DEF Keyless
<1>3. QED
    BY <1>1, <1>2

LEMMA EnterMapFits ==
    ASSUME Scripted, NEW m, NEW order \in Orders, NEW rest, NEW node, NEW due,
           Follows(m, order, rest, node, due), EnterMap \/ EnterArray
    PROVE  Underway(m, order, rest)'
<1>1. CASE EnterMap
  <2>1. Top.key \in {"resource", "status"} /\ ~Keyless(Top)
      BY <1>1, SomeKey DEF EnterMap, Handling, MapKeys
  <2>2. PICK h : h = Frame("map", Top.key)
      OBVIOUS
  <2>3. IsChild(h) /\ SlotKey(h) = Top.key /\ h.left = Unopened /\ Keyless(h) /\ h.kind # "scope"
      BY <2>1, <2>2, FrameFor
  <2>4. /\ stack' = Push(HandledFrame, h)
        /\ UNCHANGED <<reader, call, trace, result, starved, history>>
      BY <1>1, <2>2 DEF EnterMap, Push
  <2>5. QED
      BY <2>1, <2>3, <2>4, EnterFits
<1>2. CASE EnterArray
  <2>1. Top.key \in ArrayKeys /\ ~Keyless(Top)
      BY <1>2, SomeKey DEF EnterArray, Handling
  <2>2. PICK h : h = Frame("array", Element[Top.key])
      OBVIOUS
  <2>3. IsChild(h) /\ SlotKey(h) = Top.key /\ h.left = Unopened /\ Keyless(h) /\ h.kind # "scope"
      BY <2>1, <2>2, FrameFor
  <2>4. /\ stack' = Push(HandledFrame, h)
        /\ UNCHANGED <<reader, call, trace, result, starved, history>>
      BY <1>2, <2>2 DEF EnterArray, Push
  <2>5. QED
      BY <2>1, <2>3, <2>4, EnterFits
<1>3. QED
    BY <1>1, <1>2

-----------------------------------------------------------------------------
(* The scope, and the elements of arrays.                                  *)

LEMMA ScopeWrites ==
    ASSUME IInv, Reading, NEW m, NEW order \in Orders, NEW rest, NEW node, NEW due,
           Follows(m, order, rest, node, due), Top.what = "map", Top.kind = "scope_span",
           NEW x, Set("scope_span", "instrumentation_scope", x)
    PROVE  /\ Off(stack, Len(stack), trace, trace')
           /\ SameBut(Loc(trace, Top), Loc(trace', Top), "instrumentation_scope")
           /\ Object(trace', "scope") = x
<1>1. PICK n, s, c, f : n = Len(stack) /\ s = stack /\ c = trace' /\ f = Top
    OBVIOUS
<1>2. n = 5 /\ Open(5, trace)
  <2>1. Running /\ stack # <<>>
      BY ReadingIs
  <2>2. Level(Top) = Len(stack) /\ Open(Len(stack), trace)
      BY <2>1, TopFacts DEF IInv
  <2>3. Level(Top) = 5
      BY DEF Level, MapLevel
  <2>4. QED
      BY <1>1, <2>2, <2>3
<1>3. PICK o : o = Object(trace, "scope_span")
    OBVIOUS
<1>4. PICK new : new = [o EXCEPT !["instrumentation_scope"] = x]
    OBVIOUS
<1>5. c = With(trace, "scope_span", new)
  <2>1. Field("instrumentation_scope") = "instrumentation_scope"
      BY DEF Field
  <2>2. QED
      BY <1>1, <1>3, <1>4, <2>1 DEF Set
<1>6. Replaced(trace, "scope_span", new, c)
  <2>1. "scope_span" \in Kinds \ {"context"} /\ MapLevel["scope_span"] = 5
      BY DEF Kinds, MapLevel
  <2>2. Open(MapLevel["scope_span"], trace)
      BY <1>2, <2>1
  <2>3. QED
      BY <1>5, <2>1, <2>2, StructureReplaced
<1>7. f = s[n] /\ Lineage(s) /\ n = Len(s)
  <2>1. Places(s, m, order, node, due, rest)
      BY <1>1 DEF Follows
  <2>2. Lineage(s)
      BY <2>1, PlacesAre
  <2>3. Top = stack[Len(stack)]
      BY StackIs
  <2>4. QED
      BY <1>1, <2>2, <2>3
<1>8. Off(s, n, trace, c)
  <2>1. n \in 2..Len(s) /\ s[n].what = "map" /\ Replaced(trace, s[n].kind, new, c)
      BY <1>1, <1>2, <1>6, <1>7
  <2>2. ASSUME NEW i \in 1..(n - 1)
        PROVE  Beside(s[i], s[i + 1], Loc(trace, s[i]), Loc(c, s[i]))
      BY <1>7, <2>1, DownToMap
  <2>3. QED
      BY <2>2 DEF Off
<1>9. Object(c, "scope_span") = new
    BY <1>6 DEF Replaced
<1>10. Loc(c, f) = new /\ Loc(trace, f) = o
  <2>1. Loc(c, f) = Object(c, "scope_span") /\ Loc(trace, f) = Object(trace, "scope_span")
      BY <1>1 DEF Loc
  <2>2. QED
      BY <1>3, <1>9, <2>1
<1>11. "instrumentation_scope" \in DOMAIN o
    BY <1>2, <1>3, ObjectIs DEF Open
<1>12. SameBut(o, new, "instrumentation_scope") /\ new["instrumentation_scope"] = x
    BY <1>4, <1>11, FieldStays
<1>13. Object(c, "scope") = x
  <2>1. Object(c, "scope") = Object(c, "scope_span").instrumentation_scope
      BY ObjectIs
  <2>2. QED
      BY <1>9, <1>12, <2>1
<1>14. QED
    BY <1>1, <1>8, <1>10, <1>12, <1>13

LEMMA ReadScopeFits ==
    ASSUME Scripted, NEW m, NEW order \in Orders, NEW rest, NEW node, NEW due,
           Follows(m, order, rest, node, due), ReadScope
    PROVE  Underway(m, order, rest)'
<1>1. Top.key = "scope" /\ ~Keyless(Top)
    BY SomeKey DEF ReadScope, Handling, MapKeys
<1>2. PICK v, w : v = node[Len(stack)] /\ w = v[Top.key]
    OBVIOUS
<1>3. /\ Top.what = "map" /\ Top.kind \in Kinds /\ Top.key \in Range(Entries[Top.kind])
      /\ IsValue(Top.kind, Top.key, w)
      /\ HandledFrame.what = Top.what /\ HandledFrame.kind = Top.kind
    BY <1>1, <1>2, KeyAtHand DEF Scripted
<1>4. Top.kind = "scope_span"
  <2>1. Top.kind \in DOMAIN Entries
      BY <1>3 DEF Kinds, MapLevel, Entries
  <2>2. QED
      BY <1>1, <1>3, <2>1, KeyPlace
<1>5. PICK h0, n : h0 = Frame("map", "scope") /\ n = EntryCount["scope"]
    OBVIOUS
<1>6. /\ IsChild(h0) /\ SlotKey(h0) = "scope" /\ h0.left = Unopened /\ Keyless(h0)
      /\ h0.kind = "scope" /\ h0.what = "map"
    BY <1>5, FrameFor
<1>7. n = 4 /\ n <= MaxMap /\ n \in Nat /\ MaxMap \in Nat
  <2>1. n = 4 /\ "scope" \in DOMAIN EntryCount
      BY <1>5 DEF EntryCount
  <2>2. EntryCount["scope"] <= MaxMap /\ MaxMap \in Nat
      BY <2>1, MapsAreTaken
  <2>3. QED
      BY <1>5, <2>1, <2>2
<1>8. PICK h : h = [h0 EXCEPT !.left = n]
    OBVIOUS
<1>9. h.what = "map" /\ h.kind = "scope" /\ h.left = n /\ Keyless(h) /\ IsChild(h) /\ SlotKey(h) = "scope"
  <2>1. h0.key = ""
      BY <1>6, Zenon DEF Keyless
  <2>2. h.what = "map" /\ h.kind = "scope" /\ h.left = n /\ h.key = h0.key
      BY <1>5, <1>6, <1>8, Zenon DEF Frame
  <2>3. Keyless(h)
      BY <2>1, <2>2, Zenon DEF Keyless
  <2>4. "scope" \in Kinds
      BY DEF Kinds, MapLevel
  <2>5. QED
      BY <2>2, <2>3, <2>4 DEF IsChild, SlotKey
<1>10. ASSUME w # NULL
       PROVE  /\ IsJoined(WireValue(Top.key, w, order), <<Map(n)>>, Due(h, w, order))
              /\ Reads(h, w, order) /\ Begun(h, w) = 0
  <2>1. Reads(h0, w, order) /\ WireValue(Top.key, w, order) = Due(h0, w, order)
      BY <1>1, <1>3, <1>6, <1>10, ChildReads
  <2>2. Size(h0, w) = n /\ Opener(h0, w) = Map(n)
      BY <1>5, <1>6 DEF Size, Opener
  <2>3. h.what = h0.what /\ h.kind = h0.kind /\ h.left = Size(h0, w)
      BY <1>6, <1>9, <2>2
  <2>4. IsJoined(Due(h0, w, order), <<Opener(h0, w)>>, Due(h, w, order))
        /\ Reads(h, w, order) /\ Begun(h, w) = 0
      BY <1>6, <1>9, <2>1, <2>3, DueOpens
  <2>5. QED
      BY <2>1, <2>2, <2>4
<1>11. Map(n) \in TokenSet /\ Nil \in TokenSet
    BY <1>7 DEF Map, Nil, TokenSet, TokenTypes
<1>12. w # NULL => NextToken(Map(n))
  <2>1. SUFFICES ASSUME w # NULL PROVE NextToken(Map(n))
      OBVIOUS
  <2>2. PICK y : y = Due(h, w, order)
      OBVIOUS
  <2>3. y \in Seq(TokenSet) /\ IsJoined(WireValue(Top.key, w, order), <<Map(n)>>, y)
      BY <1>10, <2>1, <2>2, DueType
  <2>4. QED
      BY <1>1, <1>2, <1>11, <2>3, ValueNext DEF Scripted
<1>13. w = NULL => NextToken(Nil) /\ WireValue(Top.key, w, order) = <<Nil>>
  <2>1. SUFFICES ASSUME w = NULL PROVE NextToken(Nil) /\ WireValue(Top.key, w, order) = <<Nil>>
      OBVIOUS
  <2>2. WireValue(Top.key, w, order) = <<Nil>>
      BY <1>1, <2>1, WireValueIs
  <2>3. PICK x : x = Nil
      OBVIOUS
  <2>4. <<>> \in Seq(TokenSet) /\ <<x>> \o <<>> = <<x>>
      BY <1>11, <2>3, Single
  <2>5. IsJoined(WireValue(Top.key, w, order), <<x>>, <<>>)
      BY <2>2, <2>3, <2>4 DEF IsJoined
  <2>6. NextToken(x)
      BY <1>2, <1>11, <1>1, <2>3, <2>4, <2>5, ValueNext DEF Scripted
  <2>7. QED
      BY <2>2, <2>3, <2>6
<1>14. CASE EndAt("engine")
    BY <1>14, EndExcused
<1>15. ~WrongType({"map", "nil"}, FALSE)
  <2>1. TypeOf(Map(n)) \in {"map", "nil"} /\ TypeOf(Nil) \in {"map", "nil"}
      BY Types
  <2>2. QED
      BY <1>12, <1>13, <2>1, NextIs, Zenon
<1>16. ASSUME Fail("memory"), Starve("scope")
       PROVE  Underway(m, order, rest)'
  <2>1. "scope" \in starved'
      BY <1>16 DEF Starve
  <2>2. QED
      BY <1>16, <2>1, StarvedExcused
<1>17. ASSUME NEW t, Take(t), t = Nil, Handled, UNCHANGED <<trace, starved>>
       PROVE  Underway(m, order, rest)'
  <2>1. w = NULL
    <3>1. Nil # Map(n)
        BY DEF Nil, Map
    <3>2. QED
        BY <1>12, <1>17, <3>1, NextIs
  <2>2. Consumed(WireValue(Top.key, w, order))
      BY <1>13, <1>17, <2>1, NextIs
  <2>3. Blank(Top.kind)[FieldFor(Top.key)] = NULL
      BY <1>1, <1>3, <1>6, BlankChild
  <2>4. UnValue(Top.kind, Top.key, w) = NULL
      BY <1>1, <2>1, UnValueIs DEF unpack_instrumentation_scope
  <2>5. PICK k : k = (starved' # {})
      OBVIOUS
  <2>6. Top.key # "attributes" /\ Top.key \notin IdKeys /\ Top.key \notin ArrayKeys
      BY <1>1, KeysDiffer DEF IdKeys
  <2>7. AlikeValue(k, Top.kind, Top.key, Blank(Top.kind)[FieldFor(Top.key)],
                   UnValue(Top.kind, Top.key, w))
      BY <2>3, <2>4, <2>6 DEF AlikeValue
  <2>8. ValueGood(Top.key, w)
      BY <1>1, <2>1, <2>6 DEF ValueGood
  <2>9. AtWork(m, order, rest)'
      BY <1>1, <1>2, <1>17, <2>2, <2>5, <2>6, <2>7, <2>8, KeptFits DEF Scripted
  <2>10. QED
      BY <1>17, <2>9, HandledGoesOn
<1>18. ASSUME NEW t, Take(t), TypeOf(t) = "map"
       PROVE  t = Map(n) /\ w # NULL /\ CountOf(t) = n /\ Consumed(<<Map(n)>>)
  <2>1. w # NULL
    <3>1. TypeOf(Nil) = "nil"
        BY Types
    <3>2. QED
        BY <1>13, <1>18, <3>1, NextIs
  <2>2. t = Map(n) /\ Consumed(<<Map(n)>>)
      BY <1>12, <1>18, <2>1, NextIs
  <2>3. CountOf(t) = n
      BY <2>2 DEF CountOf, Map
  <2>4. QED
      BY <2>1, <2>2, <2>3
<1>19. ASSUME NEW t, Take(t), TypeOf(t) = "map", CountOf(t) > MaxMap
       PROVE  FALSE
    BY <1>7, <1>18, <1>19
<1>20. ASSUME NEW t, Take(t), TypeOf(t) = "map",
              Set("scope_span", "instrumentation_scope", New.scope),
              stack' = Below \o <<HandledFrame, [Frame("map", "scope") EXCEPT !.left = CountOf(t)]>>,
              UNCHANGED <<call, result>>, UNCHANGED starved
       PROVE  Underway(m, order, rest)'
  <2>1. w # NULL /\ CountOf(t) = n /\ Consumed(<<Map(n)>>)
      BY <1>18, <1>20
  <2>2. stack' = Push(HandledFrame, h)
      BY <1>5, <1>8, <1>20, <2>1 DEF Push
  <2>3. /\ Off(stack, Len(stack), trace, trace')
        /\ SameBut(Loc(trace, Top), Loc(trace', Top), "instrumentation_scope")
        /\ Object(trace', "scope") = New.scope
      BY <1>3, <1>4, <1>20, ScopeWrites DEF Scripted
  <2>4. PICK k, c, o, p, x : /\ k = (starved' # {}) /\ c = trace' /\ o = Loc(trace, Top)
                             /\ p = Loc(trace', Top) /\ x = <<Map(n)>>
      OBVIOUS
  <2>5. Holds(k, h, w, Loc(c, h), Begun(h, w), order)
    <3>1. Loc(c, h) = New["scope"]
        BY <1>9, <2>3, <2>4 DEF Loc
    <3>2. Blank("scope") = New["scope"]
        BY BlankIs
    <3>3. "scope" \in Kinds
        BY <1>9 DEF Kinds, MapLevel
    <3>4. HoldsMap(k, "scope", w, Blank("scope"), 0, 1, order)
        BY <3>3, BlankHolds
    <3>5. Begun(h, w) = 0
        BY <1>10, <2>1
    <3>6. QED
        BY <1>9, <3>1, <3>2, <3>4, <3>5 DEF Holds
  <2>6. Beside(HandledFrame, h, o, p)
    <3>1. FieldFor(SlotKey(h)) = "instrumentation_scope"
        BY <1>9, FieldForIs
    <3>2. SameBut(o, p, FieldFor(SlotKey(h)))
        BY <2>3, <2>4, <3>1
    <3>3. QED
        BY <1>3, <3>2 DEF Beside
  <2>7. x \in Seq(TokenSet)
      BY <1>11, <2>4, Single
  <2>8. /\ IsJoined(WireValue(Top.key, w, order), x, Due(h, w, order)) /\ Reads(h, w, order)
        /\ Consumed(x)
      BY <1>10, <2>1, <2>4
  <2>9. starved \subseteq starved' /\ SlotKey(h) = Top.key
      BY <1>1, <1>9, <1>20
  <2>10. Lineage(stack') => Holds(starved' # {}, h, w, Loc(trace', h), Begun(h, w), order)
      BY <2>4, <2>5
  <2>11. AtWork(m, order, rest)'
      BY <1>1, <1>2, <1>9, <2>1, <2>2, <2>3, <2>4, <2>6, <2>7, <2>8, <2>9, <2>10, ChildFits
  <2>12. stack' # <<>> /\ result' = "ok"
    <3>1. IsList(stack) /\ stack # <<>> /\ result = "ok"
        BY ReadingIs DEF Scripted, IInv, Typed
    <3>2. QED
        BY <1>20, <2>2, <3>1, PushFacts
  <2>13. QED
      BY <2>11, <2>12, GoesOnUnderway
<1>21. QED
    BY <1>14, <1>15, <1>16, <1>17, <1>19, <1>20 DEF ReadScope

\* An event without its set is blank but for that.
LEMMA BareEventHolds ==
    ASSUME NEW order \in Orders, NEW hungry, NEW w, NEW o, o = [New["event"] EXCEPT !["attr"] = NULL]
    PROVE  HoldsMap(hungry, "event", w, o, 0, 1, order)
<1>1. "event" \in Kinds
    BY DEF Kinds, MapLevel
<1>2. Blank("event") = New["event"]
    BY BlankIs
<1>3. PICK e : e = New["event"]
    OBVIOUS
<1>4. e = [x \in Fields("event") |-> e[x]]
    BY <1>1, <1>2, <1>3, BlankHolds DEF HoldsMap
<1>5. o = [x \in Fields("event") |-> o[x]]
    BY <1>3, <1>4
<1>6. "flags" \notin Fields("event")
    BY <1>1, FieldsAre
<1>7. ASSUME NEW i \in 1..EntryCount["event"]
      PROVE  order["event"][i] = "attributes" \/ o[FieldFor(order["event"][i])] = e[FieldFor(order["event"][i])]
  <2>1. PICK key : key = order["event"][i]
      OBVIOUS
  <2>2. key \in Range(Entries["event"])
      BY <1>1, <2>1, OrderIs
  <2>3. key \in {"time_unix_nano", "name", "attributes", "dropped_attributes_count"}
      BY <1>1, <2>2, KeysAre
  <2>4. key # "attributes" => FieldFor(key) # "attr"
      BY <2>3, FieldForIs
  <2>5. FieldFor(key) # "attr" => o[FieldFor(key)] = e[FieldFor(key)]
      BY <1>3, <1>4
  <2>6. QED
      BY <2>1, <2>4, <2>5
<1>8. QED
    BY <1>2, <1>3, <1>5, <1>6, <1>7 DEF HoldsMap

LEMMA NewHolds ==
    ASSUME NEW order \in Orders, NEW kind \in DOMAIN ArrayLevel, NEW hungry, NEW w, NEW new,
           Created(kind, new)
    PROVE  HoldsMap(hungry, kind, w, new, 0, 1, order)
<1>1. kind \in Kinds /\ kind \in {"resource_span", "scope_span", "span", "event", "link"}
    BY DEF ArrayLevel, Kinds, MapLevel
<1>2. CASE new = New[kind]
  <2>1. Blank(kind) = new
      BY <1>1, <1>2, BlankIs
  <2>2. QED
      BY <1>1, <2>1, BlankHolds
<1>3. CASE kind = "event" /\ new = [New["event"] EXCEPT !["attr"] = NULL]
    BY <1>3, BareEventHolds
<1>4. QED
    BY <1>2, <1>3 DEF Created

\* A list with one more element, which is not read yet.
LEMMA OneMoreHolds ==
    ASSUME NEW k \in BOOLEAN, NEW l \in BOOLEAN, k => l, NEW kind, NEW v, NEW o, NEW b \in Nat,
           HoldsArray(k, kind, v, o, b, b), NEW new
    PROVE  HoldsArray(l, kind, v, Append(o, new), b, b + 1) /\ Last(Append(o, new)) = new
<1>1. IsList(o) /\ Len(o) = b
    BY DEF HoldsArray
<1>2. PICK p : p = Append(o, new)
    OBVIOUS
<1>3. IsList(p) /\ Len(p) = b + 1 /\ Last(p) = new /\ \A i \in 1..b : p[i] = o[i]
    BY <1>1, <1>2, ListFacts
<1>4. ASSUME NEW i \in 1..b
      PROVE  AlikeNode(l, kind, p[i], UnNode(kind, v[i])) /\ NodeGood(kind, v[i])
  <2>1. AlikeNode(k, kind, o[i], UnNode(kind, v[i])) /\ NodeGood(kind, v[i])
      BY DEF HoldsArray
  <2>2. AlikeNode(l, kind, o[i], UnNode(kind, v[i]))
      BY <2>1, AlikeStill
  <2>3. QED
      BY <1>3, <2>1, <2>2
<1>5. QED
    BY <1>2, <1>3, <1>4 DEF HoldsArray

LEMMA ElementFits ==
    ASSUME Scripted, NEW m, NEW order \in Orders, NEW rest, NEW node, NEW due,
           Follows(m, order, rest, node, due), Top.what = "array", Top.left > 0,
           NEW new, Created(Top.kind, new), Add(Top.kind, new), starved \subseteq starved',
           stack' = Push([Top EXCEPT !.left = Top.left - 1], Frame("map", Top.kind)),
           UNCHANGED <<reader, result>>
    PROVE  Underway(m, order, rest)'
<1>1. PICK f, v, N : f = Top /\ v = node[Len(stack)] /\ N = Size(f, v)
    OBVIOUS
<1>2. Reads(f, v, order)
    BY <1>1, StackIs
<1>3. N \in Nat
    BY <1>1, <1>2, PartsAre
<1>4. f.left # Unopened /\ f.left # 0 /\ f.kind \in DOMAIN ArrayLevel /\ f.key = ""
  <2>1. f.left # Unopened /\ f.left # 0
      BY <1>1, <1>2, <1>3, LeftIs
  <2>2. f.what # "map"
      BY <1>1
  <2>3. f.kind \in DOMAIN ArrayLevel /\ f.key = ""
      BY <1>2, <2>2, Zenon DEF Reads
  <2>4. QED
      BY <2>1, <2>3
<1>5. IsFrame(Top) /\ stack # <<>> /\ result = "ok" /\ IsList(stack) /\ Level(Top) = Len(stack)
      /\ Running
    BY ReadingIs, TopFacts DEF Scripted, IInv, Typed
<1>6. PICK g, less : less = Top.left - 1 /\ g = [Top EXCEPT !.left = less]
    OBVIOUS
<1>7. g.what = "array" /\ g.kind = f.kind /\ g.left = f.left - 1 /\ g.key = ""
    BY <1>1, <1>4, <1>5, <1>6, Zenon DEF IsFrame
<1>8. Keyless(g)
    BY <1>7, Zenon DEF Keyless
<1>9. PICK b, w : b = Begun(f, v) /\ w = v[Begun(g, v)]
    OBVIOUS
<1>10. /\ IsJoined(Due(f, v, order), WireNode(f.kind, w, order), Due(g, v, order))
       /\ Reads(g, v, order) /\ Begun(g, v) = b + 1 /\ Size(g, v) = N
       /\ Begun(g, v) \in 1..Len(v) /\ N = Len(v)
       /\ f.kind \in Kinds /\ IsNode(f.kind, w)
  <2>1. f.what = "array" /\ g.what = f.what
      BY <1>1, <1>7
  <2>2. /\ IsJoined(Due(f, v, order), WireNode(f.kind, v[Begun(g, v)], order), Due(g, v, order))
        /\ Reads(g, v, order) /\ Begun(g, v) = Begun(f, v) + 1 /\ Size(g, v) = Size(f, v)
        /\ Begun(g, v) \in 1..Len(v)
        /\ f.kind \in Kinds /\ IsNode(f.kind, v[Begun(g, v)])
      BY <1>2, <1>4, <1>7, <1>8, <2>1, DueElement
  <2>3. N = Len(v)
      BY <1>1, <2>1 DEF Size
  <2>4. QED
      BY <1>1, <1>9, <2>2, <2>3
<1>11. b \in Nat
  <2>1. b \in 0..N
      BY <1>1, <1>2, <1>9, PartsAre
  <2>2. QED
      BY <1>3, <2>1
<1>12. PICK h : h = Frame("map", Top.kind)
    OBVIOUS
<1>13. h.what = "map" /\ h.kind = f.kind /\ h.left = Unopened /\ h.key = ""
    BY <1>1, <1>12, Zenon DEF Frame
<1>14. Reads(h, w, order) /\ Due(h, w, order) = WireNode(f.kind, w, order) /\ Begun(h, w) = 0
  <2>1. Reads(h, w, order)
      BY <1>10, <1>13, Zenon DEF Reads
  <2>2. Due(h, w, order) = Whole(h, w, order)
      BY <1>13, Zenon DEF Due
  <2>3. Whole(h, w, order) = WireNode(f.kind, w, order)
      BY <1>13 DEF Whole
  <2>4. Begun(h, w) = 0
      BY <1>13 DEF Begun
  <2>5. QED
      BY <2>1, <2>2, <2>3, <2>4
<1>15. Linked(g, h, v, w, order)
  <2>1. g.left # Unopened
    <3>1. Begun(g, v) # 0
        BY <1>10, <1>11
    <3>2. QED
        BY <3>1 DEF Begun
  <2>2. Begun(g, v) \in 1..Size(g, v)
      BY <1>10
  <2>3. g.what # "map"
      BY <1>7
  <2>4. h.what = "map" /\ h.kind = g.kind
      BY <1>7, <1>13
  <2>5. QED
      BY <1>7, <1>9, <2>1, <2>2, <2>3, <2>4, Zenon DEF Linked
<1>16. Level(h) = Len(stack) + 1 /\ Len(stack) # 1
  <2>1. MapLevel[f.kind] = ArrayLevel[f.kind] + 1 /\ ArrayLevel[f.kind] # 1
    <3>1. PICK kind : kind = f.kind
        OBVIOUS
    <3>2. kind \in {"resource_span", "scope_span", "span", "event", "link"}
        BY <1>4, <3>1 DEF ArrayLevel
    <3>3. MapLevel[kind] = ArrayLevel[kind] + 1 /\ ArrayLevel[kind] # 1
        BY <3>2 DEF ArrayLevel, MapLevel
    <3>4. QED
        BY <3>1, <3>3
  <2>2. Level(h) = MapLevel[f.kind]
      BY <1>13 DEF Level
  <2>3. Level(Top) = ArrayLevel[f.kind]
      BY <1>1 DEF Level
  <2>4. QED
      BY <1>5, <2>1, <2>2, <2>3
<1>17. Good(m) => FrameGood(h, w)
  <2>1. Good(m) => FrameGood(f, v)
      BY <1>1, StackIs
  <2>2. PICK i : i = Begun(g, v)
      OBVIOUS
  <2>3. i \in 1..Len(v) /\ w = v[i]
      BY <1>9, <1>10, <2>2
  <2>4. Good(m) => NodeGood(f.kind, w)
      BY <1>1, <2>1, <2>3 DEF FrameGood, AllGood
  <2>5. QED
      BY <1>13, <2>4 DEF FrameGood
<1>18. PICK n, s, c, o, k, l : /\ n = Len(stack) /\ s = stack /\ c = trace' /\ o = Loc(trace, f)
                               /\ k = (starved # {}) /\ l = (starved' # {})
    OBVIOUS
<1>19. /\ Lineage(s) /\ n \in 2..Len(s) /\ s[n] = f /\ Open(n, trace) /\ n = Len(s)
  <2>1. Places(s, m, order, node, due, rest)
      BY <1>18 DEF Follows
  <2>2. Lineage(s)
      BY <2>1, PlacesAre
  <2>3. Len(stack) \in 1..9 /\ Top = stack[Len(stack)]
      BY StackIs
  <2>4. Open(Len(stack), trace)
      BY <1>5 DEF Scripted, IInv
  <2>5. QED
      BY <1>1, <1>16, <1>18, <2>2, <2>3, <2>4
<1>20. o = List(trace, f.kind)
    BY <1>1, <1>18 DEF Loc
<1>21. PICK list : list = Append(o, new)
    OBVIOUS
<1>22. c = WithList(trace, s[n].kind, list)
    BY <1>1, <1>18, <1>19, <1>20, <1>21 DEF Add
<1>23. Loc(c, s[n]) = list /\ AllBeside(s, n, trace, c)
  <2>1. s[n].what = "array"
      BY <1>1, <1>19
  <2>2. Lineage(s) /\ n \in 2..Len(s) /\ Open(n, trace)
      BY <1>19
  <2>3. Relisted(s, n, trace, list, c)
      BY <1>22, <2>1, <2>2 DEF Relisted
  <2>4. QED
      BY ONLY <2>3, DownToArray
<1>24. Off(stack, Len(stack), trace, trace')
    BY <1>18, <1>23 DEF Off, AllBeside
<1>25. HoldsArray(k, f.kind, v, o, b, b) /\ Len(v) <= MaxArray
  <2>1. Holds(k, f, v, o, Begun(f, v), order)
      BY <1>1, <1>18, StackIs
  <2>2. QED
      BY <1>1, <1>4, <1>9, <2>1, Zenon DEF Holds
<1>26. HoldsArray(l, f.kind, v, list, b, b + 1) /\ Last(list) = new
  <2>1. k \in BOOLEAN /\ l \in BOOLEAN /\ (k => l)
      BY <1>18, MoreStarved
  <2>2. QED
      BY <1>11, <1>21, <1>25, <2>1, OneMoreHolds
<1>27. Loc(c, g) = list
  <2>1. Loc(c, g) = Loc(c, f)
      BY <1>1, <1>7, SameLoc
  <2>2. QED
      BY <1>19, <1>23, <2>1
<1>28. Holds(l, g, v, Loc(c, g), Begun(g, v) - 1, order)
  <2>1. b + 1 - 1 = b
      BY <1>11
  <2>2. Holds(l, g, v, list, b, order)
      BY <1>7, <1>10, <1>25, <1>26 DEF Holds
  <2>3. PICK d : d = Begun(g, v)
      OBVIOUS
  <2>4. d - 1 = b
      BY <1>10, <1>11, <2>1, <2>3
  <2>5. QED
      BY <1>27, <2>2, <2>3, <2>4
<1>29. stack' = Push(g, h)
    BY <1>6, <1>12
<1>30. PICK t : t = stack'
    OBVIOUS
<1>31. t[n] = g /\ t[n + 1] = h /\ Len(t) = n + 1 /\ n \in Nat \ {0} /\ t # <<>>
    BY <1>5, <1>18, <1>29, <1>30, PushFacts
<1>32. ASSUME Lineage(t)
       PROVE  Holds(l, h, w, Loc(c, h), Begun(h, w), order)
  <2>1. PICK i : i = n
      OBVIOUS
  <2>2. i \in 1..(Len(t) - 1)
      BY <1>31, <2>1
  <2>3. t[i].what = "array" => Loc(c, t[i + 1]) = Last(Loc(c, t[i]))
      BY ONLY <1>32, <2>2, Nested
  <2>4. Loc(c, h) = new
      BY <1>7, <1>26, <1>27, <1>31, <2>1, <2>3
  <2>5. HoldsMap(l, f.kind, w, new, 0, 1, order)
      BY <1>1, <1>4, NewHolds
  <2>6. Holds(l, h, w, new, 0, order)
    <3>1. Begun(h, w) + 1 = 1
        BY <1>14
    <3>2. h.what # "array"
        BY <1>13
    <3>3. QED
        BY <1>13, <2>5, <3>1, <3>2, Zenon DEF Holds
  <2>7. QED
      BY <1>14, <2>4, <2>6
<1>33. PICK x, u : x = <<>> /\ u = Due(f, v, order)
    OBVIOUS
<1>34. IsJoined(u, x, u) /\ x \in Seq(TokenSet)
  <2>1. u \in Seq(TokenSet)
      BY <1>2, <1>33, DueType
  <2>2. QED
      BY <1>33, <2>1 DEF IsJoined
<1>35. Consumed(x)
    BY <1>33, NothingConsumed DEF reader
<1>36. /\ g.what = Top.what /\ g.kind = Top.kind /\ Reads(g, node[Len(stack)], order)
       /\ Linked(g, h, node[Len(stack)], w, order)
       /\ IsJoined(u, Due(h, w, order), Due(g, node[Len(stack)], order))
       /\ IsJoined(Due(Top, node[Len(stack)], order), x, u)
       /\ Holds(starved' # {}, g, node[Len(stack)], Loc(trace', g),
                Begun(g, node[Len(stack)]) - 1, order)
    BY <1>1, <1>7, <1>10, <1>14, <1>15, <1>18, <1>28, <1>33, <1>34
<1>37. Lineage(stack') => Holds(starved' # {}, h, w, Loc(trace', h), Begun(h, w), order)
    BY <1>18, <1>30, <1>32
<1>38. AtWork(m, order, rest)'
    BY <1>14, <1>16, <1>17, <1>24, <1>29, <1>34, <1>35, <1>36, <1>37, PushFits
<1>39. stack' # <<>> /\ result' = "ok"
    BY <1>5, <1>30, <1>31
<1>40. QED
    BY <1>38, <1>39, GoesOnUnderway

LEMMA NextElementFits ==
    ASSUME Scripted, NEW m, NEW order \in Orders, NEW rest, NEW node, NEW due,
           Follows(m, order, rest, node, due), NextElement
    PROVE  Underway(m, order, rest)'
<1>1. Top.what = "array" /\ Top.left > 0
    BY DEF NextElement
<1>2. CASE Fail("memory") /\ (Starve(Top.kind) \/ Starve("resource"))
  <2>1. PICK what : what \in starved'
      BY <1>2 DEF Starve
  <2>2. QED
      BY <1>2, <2>1, StarvedExcused
<1>3. CASE /\ stack' = Below \o <<[Top EXCEPT !.left = @ - 1], Frame("map", Top.kind)>>
           /\ UNCHANGED <<call, result>> /\ UNCHANGED reader
           /\ \/ Add(Top.kind, New[Top.kind]) /\ UNCHANGED starved
              \/ /\ Top.kind = "event" /\ Starve("event attributes")
                 /\ Add("event", [New.event EXCEPT !.attr = NULL])
  <2>1. stack' = Push([Top EXCEPT !.left = Top.left - 1], Frame("map", Top.kind))
      BY <1>3 DEF Push
  <2>2. UNCHANGED <<reader, result>>
      BY <1>3
  <2>3. CASE Add(Top.kind, New[Top.kind]) /\ UNCHANGED starved
    <3>1. Created(Top.kind, New[Top.kind])
        BY DEF Created
    <3>2. QED
        BY <1>1, <2>1, <2>2, <2>3, <3>1, ElementFits
  <2>4. CASE /\ Top.kind = "event" /\ Starve("event attributes")
             /\ Add("event", [New.event EXCEPT !.attr = NULL])
    <3>1. PICK new : new = [New.event EXCEPT !.attr = NULL]
        OBVIOUS
    <3>2. Created(Top.kind, new) /\ Add(Top.kind, new) /\ starved \subseteq starved'
        BY <2>4, <3>1 DEF Created, Starve
    <3>3. QED
        BY <1>1, <2>1, <2>2, <3>2, ElementFits
  <2>5. QED
      BY <1>3, <2>3, <2>4
<1>4. QED
    BY <1>2, <1>3 DEF NextElement

-----------------------------------------------------------------------------
(* A call, from its first token to its answer.                             *)

ReadingStep ==
    \/ OpenMap \/ OpenArray \/ Close \/ ReadKey
    \/ ReadNumber \/ ReadString \/ ReadId \/ ReadAttributes
    \/ EnterMap \/ ReadScope \/ EnterArray \/ NextElement

LEMMA StepUnderway ==
    ASSUME Scripted, NEW m, NEW order \in Orders, NEW rest, Underway(m, order, rest), ReadingStep
    PROVE  call' = "crashed" \/ Underway(m, order, rest)'
<1>1. AtWork(m, order, rest)
    BY ReadingIs DEF Scripted, Underway
<1>2. PICK node, due : Follows(m, order, rest, node, due)
    BY <1>1, FollowsIs
<1>3. CASE OpenMap
    BY <1>2, <1>3, OpenMapFits
<1>4. CASE OpenArray
    BY <1>2, <1>4, OpenArrayFits
<1>5. CASE Close
    BY <1>2, <1>5, CloseFits
<1>6. CASE ReadKey
    BY <1>2, <1>6, ReadKeyFits
<1>7. CASE ReadNumber
    BY <1>2, <1>7, ReadNumberFits
<1>8. CASE ReadString
    BY <1>2, <1>8, ReadStringFits
<1>9. CASE ReadId
    BY <1>2, <1>9, ReadIdFits
<1>10. CASE ReadAttributes
    BY <1>2, <1>10, ReadAttributesFits
<1>11. CASE EnterMap \/ EnterArray
    BY <1>2, <1>11, EnterMapFits
<1>12. CASE ReadScope
    BY <1>2, <1>12, ReadScopeFits
<1>13. CASE NextElement
    BY <1>2, <1>13, NextElementFits
<1>14. QED
    BY <1>3, <1>4, <1>5, <1>6, <1>7, <1>8, <1>9, <1>10, <1>11, <1>12, <1>13 DEF ReadingStep

\* What every one of these steps leaves as it is.
LEMMA StepReads ==
    ASSUME ReadingStep
    PROVE  /\ Reading /\ call' \in {"reading", "crashed"} /\ answers' = answers
           /\ starved \subseteq starved'
<1> USE DEF Fail, history, Starve, Handled, EndAt, WrongType, ConsumeString, Crash
<1>1. CASE OpenMap
    BY <1>1 DEF OpenMap, Opening, Opened, Reading
<1>2. CASE OpenArray
    BY <1>2 DEF OpenArray, Opening, Opened, Reading
<1>3. CASE Close
    BY <1>3 DEF Close, Reading
<1>4. CASE ReadKey
    BY <1>4 DEF ReadKey, Reading
<1>5. CASE ReadNumber
    BY <1>5 DEF ReadNumber, Handling, Reading, EndAtNumber
<1>6. CASE ReadString
    BY <1>6 DEF ReadString, Handling, Reading
<1>7. CASE ReadId
    BY <1>7 DEF ReadId, Handling, Reading
<1>8. CASE ReadAttributes
    BY <1>8 DEF ReadAttributes, Handling, Reading
<1>9. CASE EnterMap \/ EnterArray
    BY <1>9 DEF EnterMap, EnterArray, Handling, Reading
<1>10. CASE ReadScope
    BY <1>10 DEF ReadScope, Handling, Reading
<1>11. CASE NextElement
    BY <1>11 DEF NextElement, Reading
<1>12. QED
    BY <1>1, <1>2, <1>3, <1>4, <1>5, <1>6, <1>7, <1>8, <1>9, <1>10, <1>11 DEF ReadingStep

\* No step changes the buffer, and no token from elsewhere goes unnoticed.
LEMMA FreeGrows ==
    ASSUME [Next]_vars, free \in Nat
    PROVE  buffer' = buffer /\ free' \in Nat /\ (free' = 0 => free = 0)
<1>1. ASSUME NEW t, Take(t)
      PROVE  buffer' = buffer /\ free' \in Nat /\ (free' = 0 => free = 0)
    BY <1>1 DEF Take
<1>2. CASE UNCHANGED <<buffer, free>>
    BY <1>2
<1>3. CASE ReadingStep
  <2> USE DEF reader, EndAt
  <2>0. ASSUME NEW type, NEW peeked, WrongType(type, peeked)
        PROVE  UNCHANGED <<buffer, free>> \/ \E t : Take(t)
      BY <2>0 DEF WrongType
  <2>1. UNCHANGED <<buffer, free>> \/ \E t : Take(t)
    <3>1. CASE OpenMap
        BY <3>1, <2>0 DEF OpenMap, Opened
    <3>2. CASE OpenArray
        BY <3>2, <2>0 DEF OpenArray, Opened
    <3>3. CASE Close \/ EnterMap \/ EnterArray \/ NextElement
        BY <3>3 DEF Close, EnterMap, EnterArray, NextElement
    <3>4. CASE ReadKey
        BY <3>4, <2>0 DEF ReadKey, ConsumeString
    <3>5. CASE ReadNumber
        BY <3>5, <2>0 DEF ReadNumber, EndAtNumber
    <3>6. CASE ReadString
        BY <3>6, <2>0 DEF ReadString, ConsumeString
    <3>7. CASE ReadId
        BY <3>7, <2>0 DEF ReadId, ConsumeString
    <3>8. CASE ReadAttributes
        BY <3>8 DEF ReadAttributes
    <3>9. CASE ReadScope
        BY <3>9, <2>0 DEF ReadScope
    <3>10. QED
        BY <1>3, <3>1, <3>2, <3>3, <3>4, <3>5, <3>6, <3>7, <3>8, <3>9 DEF ReadingStep
  <2>2. QED
      BY <1>1, <1>2, <2>1
<1>4. CASE Call \/ Unwind \/ Return \/ UNCHANGED vars
  <2>1. UNCHANGED <<buffer, free>>
      BY <1>4 DEF Call, Unwind, Return, vars, reader
  <2>2. QED
      BY <1>2, <2>1
<1>5. QED
    BY <1>3, <1>4 DEF Next, ReadingStep

-----------------------------------------------------------------------------
(* The calls for one buffer.                                               *)

Wires(messages, order) == [i \in DOMAIN messages |-> Wire(messages[i], order)]

\* What the assumptions say of what is sent.
IsSent(messages, order) ==
    /\ messages \in Seq(MsgpackMessage(Int)) /\ messages # <<>> /\ order \in Orders
    /\ \A i \in 1..Len(messages) :
          /\ IsNode("context", [resourceSpans |-> messages[i]])
          /\ Good(messages[i]) => Expected(messages[i]) # NULL

\* An answer, given whether memory was ever short.
Fitting(a, m, hungry) ==
    a.result = "ok" => /\ Expected(m) # NULL
                       /\ ~hungry => a.trace = Expected(m)
                       /\ NoIds(a.trace) = NoIds(Expected(m))

Told(messages, order) ==
    /\ Len(answers) <= Len(messages)
    /\ \A i \in 1..Len(answers) : Fitting(answers[i], messages[i], starved # {})
    /\ \A i \in 1..Len(answers) : answers[i].result # "ok" =>
          Expected(messages[i]) = NULL \/ starved # {} \/ (err /\ i = Len(answers))
    /\ call \in {"idle", "reading"} =>
          /\ Len(answers) + 1 \in 1..Len(messages)
          /\ \A i \in 1..Len(answers) : answers[i].result = "ok"
    /\ call = "idle" =>
          RestAt(buffer.tokens, offset) = After(Wires(messages, order), Len(answers))
    /\ call = "reading" =>
          Underway(messages[Len(answers) + 1], order,
                   After(Wires(messages, order), Len(answers) + 1))

LEMMA WiresAre ==
    ASSUME NEW messages, NEW order, IsSent(messages, order)
    PROVE  /\ Wires(messages, order) \in Seq(Seq(TokenSet))
           /\ Len(Wires(messages, order)) = Len(messages) /\ Len(messages) \in Nat \ {0}
           /\ \A i \in 1..Len(messages) :
                 Wires(messages, order)[i] = WireNode("context", [resourceSpans |-> messages[i]], order)
<1>1. PICK n : n = Len(messages)
    OBVIOUS
<1>2. n \in Nat \ {0} /\ DOMAIN messages = 1..n
    BY <1>1, LenProperties, EmptySeq DEF IsSent
<1>3. ASSUME NEW i \in 1..n
      PROVE  /\ Wire(messages[i], order) = WireNode("context", [resourceSpans |-> messages[i]], order)
             /\ Wire(messages[i], order) \in Seq(TokenSet)
  <2>1. PICK v : v = [resourceSpans |-> messages[i]]
      OBVIOUS
  <2>2. IsNode("context", v) /\ order \in Orders
      BY <1>1, <2>1 DEF IsSent
  <2>3. WireNode("context", v, order) = Wire(v.resourceSpans, order)
      BY WireNodeIs
  <2>4. "context" \in Kinds
      BY DEF Kinds, MapLevel
  <2>5. Wired("context", v, order)
      BY <2>2, <2>4, NodeIsWired
  <2>6. QED
      BY <2>1, <2>3, <2>5 DEF Wired
<1>4. PICK w : w = [i \in 1..n |-> Wire(messages[i], order)]
    OBVIOUS
<1>5. w \in Seq(Seq(TokenSet)) /\ Len(w) = n
  <2>1. PICK T : T = Seq(TokenSet)
      OBVIOUS
  <2>2. w \in [1..n -> T]
      BY <1>3, <1>4, <2>1
  <2>3. w \in Seq(T) /\ Len(w) = n
      BY <1>2, <2>2
  <2>4. QED
      BY <2>1, <2>3
<1>6. Wires(messages, order) = w
    BY <1>2, <1>4 DEF Wires
<1>7. QED
    BY <1>1, <1>2, <1>3, <1>4, <1>5, <1>6

\* Before anything is read of a message.
LEMMA CallBegins ==
    ASSUME NEW m, IsNode("context", [resourceSpans |-> m]), NEW order \in Orders,
           NEW rest \in Seq(TokenSet),
           IsJoined(RestAt(buffer.tokens, pos)', WireNode("context", [resourceSpans |-> m], order), rest),
           stack' = <<Frame("map", "context")>>, trace' = <<>>
    PROVE  AtWork(m, order, rest)'
<1>1. PICK f, v, k : f = Frame("map", "context") /\ v = [resourceSpans |-> m] /\ k = (starved' # {})
    OBVIOUS
<1>2. f.what = "map" /\ f.kind = "context" /\ f.left = Unopened /\ f.key = "" /\ Keyless(f)
    BY <1>1, Zenon DEF Frame, Keyless
<1>3. "context" \in Kinds /\ MapLevel["context"] = 1
    BY DEF Kinds, MapLevel
<1>4. IsList(stack') /\ Len(stack') = 1 /\ stack'[1] = f /\ stack' # <<>>
  <2>1. stack' = <<f>>
      BY <1>1
  <2>2. stack' \in Seq({f})
      BY <2>1
  <2>3. IsList(stack')
      BY <2>2 DEF IsList
  <2>4. QED
      BY <2>1, <2>3
<1>5. Reads(f, v, order)
    BY <1>1, <1>2, <1>3, Zenon DEF Reads
<1>6. Due(f, v, order) = WireNode("context", v, order)
    BY <1>2 DEF Due, Whole
<1>7. PICK d : d = Due(f, v, order)
    OBVIOUS
<1>8. d \in Seq(TokenSet)
    BY <1>5, <1>7, DueType
<1>9. PICK node, due : node = [i \in {1} |-> v] /\ due = [i \in {0, 1} |-> IF i = 0 THEN rest ELSE d \o rest]
    OBVIOUS
<1>10. node[1] = v /\ due[0] = rest /\ due[1] = d \o rest /\ due[1] \in Seq(TokenSet)
    BY <1>8, <1>9, ConcatProperties
<1>11. Good(m) => FrameGood(f, v)
  <2>1. v.resourceSpans = m
      BY <1>1
  <2>2. QED
      BY <1>2, <2>1 DEF FrameGood, NodeGood
<1>12. Level(f) = 1
    BY <1>2, <1>3 DEF Level
<1>13. Places(stack', m, order, node, due, rest)
  <2>1. ASSUME NEW i \in 1..Len(stack')
        PROVE  /\ Level(stack'[i]) = i
               /\ Reads(stack'[i], node[i], order)
               /\ Good(m) => FrameGood(stack'[i], node[i])
               /\ due[i] = Due(stack'[i], node[i], order) \o due[i - 1]
               /\ due[i] \in Seq(TokenSet)
    <3>1. i = 1 /\ i - 1 = 0
        BY <1>4
    <3>2. QED
        BY <1>4, <1>5, <1>7, <1>10, <1>11, <1>12, <3>1
  <2>2. 1..(Len(stack') - 1) = {}
      BY <1>4
  <2>3. QED
      BY <1>1, <1>4, <1>10, <2>1, <2>2 DEF Places
<1>14. Loc(trace', f) = Blank("context")
  <2>1. Loc(trace', f) = [resourceSpans |-> trace']
      BY <1>2, LocIs
  <2>2. QED
      BY <2>1, BlankIs
<1>15. Begun(f, v) = 0 /\ Holds(k, f, v, Loc(trace', f), Begun(f, v), order)
  <2>1. Begun(f, v) = 0
      BY <1>2 DEF Begun
  <2>2. Holds(k, f, v, Loc(trace', f), Begun(f, v), order)
      BY <1>2, <1>3, <1>14, NothingHolds
  <2>3. QED
      BY <2>1, <2>2
<1>16. Content(starved' # {}, stack', trace', order, node)
  <2>1. ASSUME NEW i \in 1..Len(stack')
        PROVE  /\ i = 1 /\ i = Len(stack')
      BY <1>4
  <2>2. QED
      BY <1>1, <1>4, <1>10, <1>15, <2>1 DEF Content
<1>17. RestAt(buffer.tokens, pos)' = due[Len(stack')]
    BY <1>1, <1>4, <1>6, <1>7, <1>10 DEF IsJoined
<1>18. QED
    BY <1>13, <1>16, <1>17 DEF AtWork

\* What a complete message is answered with.
LEMMA CompleteFits ==
    ASSUME NEW m \in MsgpackMessage(Int), Good(m) => Expected(m) # NULL, NEW hungry, NEW ctx,
           Complete(hungry, m, ctx), NEW a, a = [result |-> "ok", trace |-> ctx]
    PROVE  Fitting(a, m, hungry)
<1>1. Good(m) /\ AlikeNode(hungry, "context", [resourceSpans |-> ctx],
                           UnNode("context", [resourceSpans |-> m]))
    BY DEF Complete
<1>2. PICK e, v : e = [i \in DOMAIN m |-> unpack_resource_span(m[i])] /\ v = [resourceSpans |-> m]
    OBVIOUS
<1>3. Expected(m) = e
    BY <1>1, <1>2, GoodIsExpected
<1>4. UnNode("context", v) = [resourceSpans |-> e]
  <2>1. v.resourceSpans = m
      BY <1>2
  <2>2. UnNode("context", v) = [resourceSpans |-> [i \in DOMAIN v.resourceSpans |->
                                        unpack_resource_span(v.resourceSpans[i])]]
      BY UnNodeIs
  <2>3. QED
      BY <1>2, <2>1, <2>2
<1>5. PICK x, y : x = [resourceSpans |-> ctx] /\ y = [resourceSpans |-> e]
    OBVIOUS
<1>6. AlikeNode(hungry, "context", x, y)
    BY <1>1, <1>2, <1>4, <1>5
<1>7. (~hungry => x = y) /\ Erased("context", x) = Erased("context", y)
    BY <1>6 DEF AlikeNode
<1>8. Erased("context", x) = [resourceSpans |-> NoIds(x.resourceSpans)]
      /\ Erased("context", y) = [resourceSpans |-> NoIds(y.resourceSpans)]
    BY ErasedIs
<1>9. x.resourceSpans = ctx /\ y.resourceSpans = e
    BY <1>5
<1>10. NoIds(ctx) = NoIds(e)
  <2>1. [resourceSpans |-> NoIds(ctx)] = [resourceSpans |-> NoIds(e)]
      BY <1>7, <1>8, <1>9
  <2>2. [resourceSpans |-> NoIds(ctx)].resourceSpans = [resourceSpans |-> NoIds(e)].resourceSpans
      BY <2>1
  <2>3. QED
      BY <2>2
<1>11. ~hungry => ctx = e
    BY <1>7, <1>9
<1>12. a.trace = ctx
    BY DEF Fitting
<1>13. QED
    BY <1>1, <1>3, <1>10, <1>11, <1>12 DEF Fitting

\* A call that begins, one that goes on and one that returns.
LEMMA ToldCall ==
    ASSUME IInv, free = 0, NEW messages, NEW order, IsSent(messages, order),
           Told(messages, order), Call
    PROVE  Told(messages, order)'
<1>1. PICK k, n : k = Len(answers) /\ n = Len(messages)
    OBVIOUS
<1>2. k \in Nat /\ n \in Nat \ {0} /\ call = "idle" /\ k + 1 \in 1..n /\ buffer' = buffer
    BY <1>1, WiresAre, ListFacts DEF IInv, Typed, Told, Call
<1>3. CASE /\ call' = "reading" /\ result' = "ok" /\ trace' = <<>>
           /\ pos' = offset /\ err' = FALSE
           /\ stack' = <<Frame("map", "context")>>
           /\ UNCHANGED <<starved, answers>>
  <2>1. PICK m, w, v : /\ m = messages[k + 1] /\ w = Wires(messages, order)
                       /\ v = [resourceSpans |-> m]
      OBVIOUS
  <2>2. w \in Seq(Seq(TokenSet)) /\ Len(w) = n /\ w[k + 1] = WireNode("context", v, order)
      BY <1>1, <1>2, <2>1, WiresAre
  <2>3. PICK rest : rest = After(w, k + 1)
      OBVIOUS
  <2>4. rest \in Seq(TokenSet)
    <3>1. k + 1 \in 0..Len(w)
        BY <1>2, <2>2
    <3>2. QED
        BY <2>2, <2>3, <3>1, AfterType
  <2>5. After(w, k) = w[k + 1] \o rest
    <3>1. k \in 0..(Len(w) - 1)
        BY <1>2, <2>2
    <3>2. QED
        BY <2>2, <2>3, <3>1, AfterNext
  <2>6. RestAt(buffer.tokens, offset) = After(w, k)
      BY <1>1, <1>2, <2>1 DEF Told
  <2>7. IsJoined(RestAt(buffer.tokens, pos)', WireNode("context", v, order), rest)
      BY <1>2, <1>3, <2>2, <2>5, <2>6 DEF IsJoined, RestAt
  <2>8. IsNode("context", v) /\ order \in Orders
      BY <1>1, <1>2, <2>1 DEF IsSent
  <2>9. AtWork(m, order, rest)'
      BY <1>3, <2>1, <2>4, <2>7, <2>8, CallBegins
  <2>10. stack' # <<>>
      BY <1>3
  <2>11. Underway(m, order, rest)'
      BY <1>3, <2>9, <2>10, GoesOnUnderway
  <2>12. QED
      BY <1>1, <1>2, <1>3, <2>1, <2>3, <2>11 DEF Told
<1>4. CASE call' = "stopped" /\ Starve("trace") /\ Answer("none", NULL)
  <2>1. PICK a : a = [result |-> "none", trace |-> NULL]
      OBVIOUS
  <2>2. answers' = Append(answers, a) /\ a.result = "none" /\ starved' # {}
      BY <1>4, <2>1 DEF Answer, Starve
  <2>3. Len(answers') = k + 1 /\ answers'[k + 1] = a /\ \A i \in 1..k : answers'[i] = answers[i]
      BY <1>1, <2>2, ListFacts DEF IInv, Typed
  <2>4. ASSUME NEW i \in 1..Len(answers')
        PROVE  Fitting(answers'[i], messages[i], starved' # {})
    <3>1. CASE i \in 1..k
      <4>1. Fitting(answers[i], messages[i], starved # {})
          BY <1>1, <3>1 DEF Told
      <4>2. QED
          BY <2>2, <2>3, <3>1, <4>1 DEF Fitting
    <3>2. CASE i = k + 1
        BY <2>2, <2>3, <3>2 DEF Fitting
    <3>3. QED
        BY <1>2, <2>3, <3>1, <3>2
  <2>5. Len(answers') <= n
      BY <1>2, <2>3
  <2>6. QED
      BY <1>1, <1>4, <2>2, <2>4, <2>5 DEF Told
<1>5. QED
    BY <1>3, <1>4 DEF Call

LEMMA ToldStep ==
    ASSUME IInv, free = 0, free' = 0, NEW messages, NEW order, IsSent(messages, order),
           buffer.tokens \in Seq(TokenSet), buffer' = buffer,
           Told(messages, order), ReadingStep \/ Unwind
    PROVE  Told(messages, order)'
<1>1. PICK k, m, w, rest : /\ k = Len(answers) /\ w = Wires(messages, order)
                           /\ m = messages[k + 1] /\ rest = After(w, k + 1)
    OBVIOUS
<1>2. /\ call = "reading" /\ call' \in {"reading", "crashed"} /\ answers' = answers
      /\ starved \subseteq starved'
  <2>1. CASE ReadingStep
      BY <2>1, StepReads DEF Reading
  <2>2. CASE Unwind
      BY <2>2 DEF Unwind, history
  <2>3. QED
      BY <2>1, <2>2
<1>3. Underway(m, order, rest)
    BY <1>1, <1>2 DEF Told
<1>4. call' = "crashed" \/ Underway(m, order, rest)'
  <2>1. CASE ReadingStep
    <3>1. Scripted
        BY <2>1, StepReads DEF Scripted
    <3>2. order \in Orders
        BY DEF IsSent
    <3>3. QED
        BY <1>3, <2>1, <3>1, <3>2, StepUnderway
  <2>2. CASE Unwind
    <3>1. result # "ok" /\ result' = result /\ err' = err /\ starved' = starved
        BY <2>2 DEF Unwind, reader
    <3>2. QED
        BY <1>3, <3>1 DEF Underway, Excused
  <2>3. QED
      BY <2>1, <2>2
<1>5. ASSUME NEW i \in 1..Len(answers)
      PROVE  answers[i].result = "ok" /\ Fitting(answers[i], messages[i], starved' # {})
  <2>1. answers[i].result = "ok" /\ Fitting(answers[i], messages[i], starved # {})
      BY <1>2 DEF Told
  <2>2. starved # {} => starved' # {}
      BY <1>2
  <2>3. QED
      BY <2>1, <2>2 DEF Fitting
<1>6. Len(answers) <= Len(messages) /\ Len(answers) + 1 \in 1..Len(messages)
    BY <1>2 DEF Told
<1>7. call' # "idle"
    BY <1>2
<1>8. call' = "reading" => Underway(m, order, rest)'
    BY <1>4
<1>9. QED
    BY <1>1, <1>2, <1>5, <1>6, <1>7, <1>8 DEF Told

LEMMA ToldReturn ==
    ASSUME IInv, free = 0, NEW messages, NEW order, IsSent(messages, order),
           buffer.tokens \in Seq(TokenSet), Told(messages, order), Return
    PROVE  Told(messages, order)'
<1>1. PICK k, n, m, w, rest : /\ k = Len(answers) /\ n = Len(messages)
                              /\ w = Wires(messages, order)
                              /\ m = messages[k + 1] /\ rest = After(w, k + 1)
    OBVIOUS
<1>2. /\ k \in Nat /\ n \in Nat \ {0} /\ k + 1 \in 1..n /\ Len(w) = n
      /\ w \in Seq(Seq(TokenSet))
    BY <1>1, WiresAre, ListFacts DEF IInv, Typed, Told, Return
<1>3. /\ call = "reading" /\ stack = <<>> /\ starved' = starved /\ err' = err /\ buffer' = buffer
      /\ Underway(m, order, rest)
    BY <1>1 DEF Told, Return
<1>4. ASSUME NEW i \in 1..k
      PROVE  answers[i].result = "ok" /\ Fitting(answers[i], messages[i], starved # {})
    BY <1>1, <1>3 DEF Told
<1>5. CASE result = "ok"
  <2>1. Complete(starved # {}, m, trace) /\ RestAt(buffer.tokens, pos) = rest
      BY <1>3, <1>5 DEF Underway
  <2>2. err = FALSE
      BY <1>3, <1>5 DEF IInv, Course, Running
  <2>3. offset' = pos
      BY <2>2 DEF Return, NewOffset
  <2>4. PICK a : a = [result |-> "ok", trace |-> trace]
      OBVIOUS
  <2>5. answers' = Append(answers, a) /\ a.result = "ok"
      BY <1>5, <2>4 DEF Return, Answer
  <2>6. Len(answers') = k + 1 /\ answers'[k + 1] = a /\ \A i \in 1..k : answers'[i] = answers[i]
      BY <1>1, <2>5, ListFacts DEF IInv, Typed
  <2>7. Fitting(a, m, starved # {})
    <3>1. m \in MsgpackMessage(Int)
        BY <1>1, <1>2, ElementOfSeq DEF IsSent
    <3>2. Good(m) => Expected(m) # NULL
        BY <1>1, <1>2 DEF IsSent
    <3>3. QED
        BY <2>1, <2>4, <3>1, <3>2, CompleteFits
  <2>8. ASSUME NEW i \in 1..Len(answers')
        PROVE  answers'[i].result = "ok" /\ Fitting(answers'[i], messages[i], starved' # {})
    <3>1. CASE i \in 1..k
        BY <1>3, <1>4, <2>6, <3>1
    <3>2. CASE i = k + 1
        BY <1>1, <1>3, <2>5, <2>6, <2>7, <3>2
    <3>3. QED
        BY <1>2, <2>6, <3>1, <3>2
  <2>9. call' \in {"idle", "stopped"} /\ (call' = "idle" => offset' < Len(buffer.tokens))
      BY <1>5 DEF Return
  <2>10. ASSUME call' = "idle"
         PROVE  /\ k + 1 + 1 \in 1..n
                /\ RestAt(buffer'.tokens, offset') = rest
    <3>1. RestAt(buffer'.tokens, offset') = rest
        BY <1>3, <2>1, <2>3
    <3>2. PICK tokens, p : tokens = buffer.tokens /\ p = pos
        OBVIOUS
    <3>3. tokens \in Seq(TokenSet) /\ p \in Nat /\ p < Len(tokens)
        BY <2>3, <2>9, <2>10, <3>2 DEF IInv, Typed
    <3>4. Len(RestAt(tokens, p)) # 0
      <4>1. Len(tokens) \in Nat
          BY <3>3, LenProperties
      <4>2. Len(SubSeq(tokens, p + 1, Len(tokens))) = Len(tokens) - (p + 1) + 1
          BY <3>3, <4>1
      <4>3. QED
          BY <3>3, <4>1, <4>2 DEF RestAt
    <3>5. k + 1 # n
      <4>1. k + 1 = n => rest = <<>>
          BY <1>1, <1>2, AfterAll
      <4>2. RestAt(tokens, p) = rest
          BY <2>1, <3>2
      <4>3. Len(<<>>) = 0
          OBVIOUS
      <4>4. QED
          BY <3>4, <4>1, <4>2, <4>3
    <3>6. QED
        BY <1>2, <3>1, <3>5
  <2>11. Len(answers') <= n
      BY <1>2, <2>6
  <2>12. call' = "idle" => /\ Len(answers') + 1 \in 1..n
                           /\ RestAt(buffer'.tokens, offset') = After(w, Len(answers'))
      BY <1>1, <2>6, <2>10
  <2>13. QED
      BY <1>1, <2>8, <2>9, <2>11, <2>12 DEF Told
<1>6. CASE result # "ok"
  <2>1. err \/ starved # {} \/ ~Good(m)
      BY <1>3, <1>6 DEF Underway, Excused
  <2>2. CASE call' = "crashed" /\ UNCHANGED answers
      BY <1>1, <1>2, <1>3, <1>4, <2>2 DEF Told
  <2>3. CASE call' = "stopped" /\ Answer(result, NULL)
    <3>1. PICK a : a = [result |-> result, trace |-> NULL]
        OBVIOUS
    <3>2. answers' = Append(answers, a) /\ a.result # "ok"
        BY <1>6, <2>3, <3>1 DEF Answer
    <3>3. Len(answers') = k + 1 /\ answers'[k + 1] = a /\ \A i \in 1..k : answers'[i] = answers[i]
        BY <1>1, <3>2, ListFacts DEF IInv, Typed
    <3>4. ~Good(m) => Expected(m) = NULL
      <4>1. m \in MsgpackMessage(Int)
          BY <1>1, <1>2, ElementOfSeq DEF IsSent
      <4>2. QED
          BY <4>1, GoodIsExpected
    <3>5. ASSUME NEW i \in 1..Len(answers')
          PROVE  /\ Fitting(answers'[i], messages[i], starved' # {})
                 /\ answers'[i].result # "ok" =>
                       Expected(messages[i]) = NULL \/ starved' # {} \/ (err' /\ i = Len(answers'))
      <4>1. CASE i \in 1..k
          BY <1>3, <1>4, <3>3, <4>1
      <4>2. CASE i = k + 1
          BY <1>1, <1>3, <2>1, <3>2, <3>3, <3>4, <4>2 DEF Fitting
      <4>3. QED
          BY <1>2, <3>3, <4>1, <4>2
    <3>6. Len(answers') <= n
        BY <1>2, <3>3
    <3>7. QED
        BY <1>1, <2>3, <3>5, <3>6 DEF Told
  <2>4. QED
      BY <1>6, <2>2, <2>3 DEF Return
<1>7. QED
    BY <1>5, <1>6

\* The invariant: as long as no token has come from elsewhere, the calls are
\* where the messages of this library, if they are in the buffer, bring them.
PInv ==
    /\ IInv /\ free \in Nat
    /\ free = 0 => \A s \in Sent : buffer = Own(s.messages, s.order) => Told(s.messages, s.order)

LEMMA SentIs ==
    ASSUME NEW s \in Sent
    PROVE  IsSent(s.messages, s.order)
<1>1. PICK messages, order : messages = s.messages /\ order = s.order
    OBVIOUS
<1>2. /\ messages \in Seq(MsgpackMessage(Int)) /\ messages # <<>> /\ order \in Orders
      /\ \A i \in DOMAIN messages : \A j \in DOMAIN messages[i] : ResourceSpanIsHeld(messages[i][j])
    BY <1>1, SentAssumption
<1>3. DOMAIN messages = 1..Len(messages)
    BY <1>2, LenProperties
<1>4. ASSUME NEW i \in 1..Len(messages)
      PROVE  /\ IsNode("context", [resourceSpans |-> messages[i]])
             /\ Good(messages[i]) => Expected(messages[i]) # NULL
  <2>1. PICK m, v : m = messages[i] /\ v = [resourceSpans |-> m]
      OBVIOUS
  <2>2. m \in MsgpackMessage(Int)
      BY <1>2, <1>4, <2>1, ElementOfSeq
  <2>3. v \in [resourceSpans : MsgpackMessage(Int)] /\ v.resourceSpans = m
      BY <2>1, <2>2
  <2>4. \A j \in DOMAIN v.resourceSpans : ResourceSpanIsHeld(v.resourceSpans[j])
      BY <1>2, <1>3, <1>4, <2>1, <2>3
  <2>5. IsNode("context", v)
      BY <2>3, <2>4, Zenon DEF IsNode
  <2>6. [j \in DOMAIN m |-> unpack_resource_span(m[j])] # NULL
      BY <1>1, <1>3, <1>4, <2>1, NullIsNoContext
  <2>7. Good(m) => Expected(m) # NULL
      BY <2>2, <2>6, GoodIsExpected
  <2>8. QED
      BY <2>1, <2>5, <2>7
<1>5. QED
    BY <1>1, <1>2, <1>4 DEF IsSent

LEMMA OwnIs ==
    ASSUME NEW messages, NEW order, IsSent(messages, order), NEW b, b = Own(messages, order)
    PROVE  /\ b.tokens = FlattenSeq(Wires(messages, order)) /\ b.tokens \in Seq(TokenSet)
           /\ DOMAIN b.expected = 1..Len(messages)
           /\ \A i \in 1..Len(messages) : b.expected[i] = Expected(messages[i])
           /\ RestAt(b.tokens, 0) = After(Wires(messages, order), 0)
<1>1. PICK w : w = Wires(messages, order)
    OBVIOUS
<1>2. w \in Seq(Seq(TokenSet))
    BY <1>1, WiresAre
<1>3. DOMAIN messages = 1..Len(messages)
    BY LenProperties DEF IsSent
<1>4. b.tokens = FlattenSeq(w)
    BY <1>1 DEF Own, Wires
<1>5. b.expected = [i \in DOMAIN messages |-> Expected(messages[i])]
    BY DEF Own
<1>6. b.tokens \in Seq(TokenSet)
    BY <1>2, <1>4, FlattenType
<1>7. RestAt(b.tokens, 0) = b.tokens
  <2>1. PICK t : t = b.tokens
      OBVIOUS
  <2>2. t \in Seq(TokenSet)
      BY <1>6, <2>1
  <2>3. SubSeq(t, 0 + 1, Len(t)) = t
      BY <2>2
  <2>4. QED
      BY <2>1, <2>3 DEF RestAt
<1>8. After(w, 0) = FlattenSeq(w)
    BY <1>2, AfterNone
<1>9. QED
    BY <1>1, <1>3, <1>4, <1>5, <1>6, <1>7, <1>8

LEMMA OwnInit ==
    ASSUME Init
    PROVE  PInv
<1>1. IInv /\ free \in Nat
    BY InitHolds DEF Init
<1>2. ASSUME NEW s \in Sent, buffer = Own(s.messages, s.order)
      PROVE  Told(s.messages, s.order)
  <2>1. PICK messages, order : messages = s.messages /\ order = s.order
      OBVIOUS
  <2>2. IsSent(messages, order) /\ buffer = Own(messages, order)
      BY <1>2, <2>1, SentIs
  <2>3. RestAt(buffer.tokens, 0) = After(Wires(messages, order), 0)
      BY <2>2, OwnIs
  <2>4. Len(messages) \in Nat \ {0}
      BY <2>2, WiresAre
  <2>5. answers = <<>> /\ Len(answers) = 0 /\ call = "idle" /\ offset = 0
      BY DEF Init
  <2>6. 1..Len(answers) = {}
      BY <2>5
  <2>7. Len(answers) + 1 \in 1..Len(messages) /\ Len(answers) <= Len(messages)
      BY <2>4, <2>5
  <2>8. QED
      BY <2>1, <2>3, <2>5, <2>6, <2>7 DEF Told
<1>3. QED
    BY <1>1, <1>2 DEF PInv

LEMMA ToldStutter ==
    ASSUME NEW messages, NEW order, Told(messages, order), UNCHANGED vars
    PROVE  Told(messages, order)'
<1>1. PICK m, rest : /\ m = messages[Len(answers) + 1]
                     /\ rest = After(Wires(messages, order), Len(answers) + 1)
    OBVIOUS
<1>2. UNCHANGED <<buffer, offset, pos, err, call, stack, trace, result, starved, answers>>
    BY DEF vars
<1>3. Underway(m, order, rest)' = Underway(m, order, rest)
    BY <1>2 DEF Underway, AtWork, Excused
<1>4. QED
    BY <1>1, <1>2, <1>3 DEF Told

LEMMA OwnStep ==
    ASSUME PInv, [Next]_vars
    PROVE  PInv'
<1>1. IInv' /\ buffer' = buffer /\ free' \in Nat /\ (free' = 0 => free = 0)
    BY StepKeeps, FreeGrows DEF PInv
<1>2. ASSUME free' = 0, NEW s \in Sent, buffer' = Own(s.messages, s.order)
      PROVE  Told(s.messages, s.order)'
  <2>1. PICK messages, order : messages = s.messages /\ order = s.order
      OBVIOUS
  <2>2. IInv /\ free = 0 /\ Told(messages, order) /\ buffer = Own(messages, order)
      BY <1>1, <1>2, <2>1 DEF PInv
  <2>3. IsSent(messages, order)
      BY <2>1, SentIs
  <2>4. buffer.tokens \in Seq(TokenSet)
      BY <2>2, <2>3, OwnIs
  <2>5. CASE Call
      BY <2>1, <2>2, <2>3, <2>5, ToldCall
  <2>6. CASE ReadingStep \/ Unwind
      BY <1>1, <1>2, <2>1, <2>2, <2>3, <2>4, <2>6, ToldStep
  <2>7. CASE Return
      BY <2>1, <2>2, <2>3, <2>4, <2>7, ToldReturn
  <2>8. CASE UNCHANGED vars
      BY <2>1, <2>2, <2>8, ToldStutter
  <2>9. QED
      BY <2>5, <2>6, <2>7, <2>8 DEF Next, ReadingStep
<1>3. QED
    BY <1>1, <1>2 DEF PInv

LEMMA ToldIsBack ==
    ASSUME PInv
    PROVE  OwnComeBack
<1>1. ASSUME buffer.expected # NULL, free = 0, NEW i \in DOMAIN answers
      PROVE  IF answers[i].result = "ok"
             THEN /\ buffer.expected[i] # NULL
                  /\ starved = {} => answers[i].trace = buffer.expected[i]
                  /\ NoIds(answers[i].trace) = NoIds(buffer.expected[i])
             ELSE buffer.expected[i] = NULL \/ starved # {} \/ (err /\ i = Len(answers))
  <2>1. buffer \in Buffer
      BY DEF PInv, IInv, Typed
  <2>2. PICK s \in Sent : buffer = Own(s.messages, s.order)
      BY <1>1, <2>1, SentAssumption
  <2>3. PICK messages, order : messages = s.messages /\ order = s.order
      OBVIOUS
  <2>4. Told(messages, order)
      BY <1>1, <2>2, <2>3 DEF PInv
  <2>5. IsSent(messages, order)
      BY <2>3, SentIs
  <2>6. PICK k, n : k = Len(answers) /\ n = Len(messages)
      OBVIOUS
  <2>7. k \in Nat /\ DOMAIN answers = 1..k /\ n \in Nat
      BY <2>5, <2>6, ListFacts, WiresAre DEF PInv, IInv, Typed
  <2>8. i \in 1..k /\ i \in 1..n
      BY <1>1, <2>4, <2>6, <2>7 DEF Told
  <2>9. buffer.expected[i] = Expected(messages[i])
      BY <2>2, <2>3, <2>5, <2>6, <2>8, OwnIs
  <2>10. /\ Fitting(answers[i], messages[i], starved # {})
         /\ answers[i].result # "ok" =>
               Expected(messages[i]) = NULL \/ starved # {} \/ (err /\ i = Len(answers))
      BY <2>4, <2>6, <2>8 DEF Told
  <2>11. QED
      BY <2>9, <2>10 DEF Fitting
<1>2. QED
    BY <1>1 DEF OwnComeBack

\* The messages that the encoder writes into a buffer, however many, of however
\* many spans, with the keys of their maps in any order, come back from
\* ctr_decode_msgpack_create one by one as MsgpackCodec says; they are refused
\* for a limit, for memory or for a missing end, and for nothing else.
THEOREM OwnMessagesComeBack == Spec => []OwnComeBack
<1>1. Init => PInv
    BY OwnInit
<1>2. PInv /\ [Next]_vars => PInv'
    BY OwnStep
<1>3. PInv => OwnComeBack
    BY ToldIsBack
<1>4. QED
    BY <1>1, <1>2, <1>3, PTL DEF Spec
=============================================================================
