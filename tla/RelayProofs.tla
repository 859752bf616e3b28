---------------------------- MODULE RelayProofs ----------------------------
(***************************************************************************)
(* What Relay promises, for contexts of any size, any messages of other    *)
(* programs and any number of hops: first what each codec does to every    *)
(* structure, from the identifiers and attribute sets up to the context,   *)
(* then the invariants of a context on its way.                            *)
(***************************************************************************)
EXTENDS Relay, SequenceTheorems, FiniteSetTheorems, TLAPS

-----------------------------------------------------------------------------
(* Sequences.                                                              *)

\* A function on the domain of a sequence is one as well.
LEMMA IsSequence ==
    ASSUME NEW S, NEW s \in Seq(S), NEW T, NEW f, DOMAIN f = DOMAIN s,
           f = [i \in DOMAIN f |-> f[i]], \A i \in DOMAIN s : f[i] \in T
    PROVE  f \in Seq(T) /\ Len(f) = Len(s)
<1>1. Len(s) \in Nat /\ DOMAIN s = 1..Len(s)
  BY LenProperties
<1>2. f \in [1..Len(s) -> T]
  BY <1>1
<1>3. f \in Seq(T)
  BY <1>1, <1>2, IsASeq
<1>4. Len(f) \in Nat /\ DOMAIN f = 1..Len(f)
  BY <1>3, LenProperties
<1>5. 1..Len(f) = 1..Len(s)
  BY <1>1, <1>4
<1>6. Len(f) = Len(s)
  BY <1>1, <1>4, <1>5
<1> QED BY <1>3, <1>6

LEMMA IntervalSequence ==
    ASSUME NEW n \in Nat, NEW T, NEW f, f = [i \in 1..n |-> f[i]], \A i \in 1..n : f[i] \in T
    PROVE  f \in Seq(T) /\ Len(f) = n
<1>1. f \in [1..n -> T]
  OBVIOUS
<1>2. f \in Seq(T)
  BY <1>1, IsASeq
<1>3. Len(f) \in Nat /\ DOMAIN f = 1..Len(f)
  BY <1>2, LenProperties
<1>4. 1..Len(f) = 1..n
  BY <1>1, <1>3
<1> QED BY <1>2, <1>3, <1>4

-----------------------------------------------------------------------------
(* Identifiers: what is written is read again.                             *)

LEMMA HalvesOfAByte ==
    ASSUME NEW b \in Byte
    PROVE  /\ b \div 16 \in 0..15
           /\ b % 16 \in 0..15
           /\ 16 * (b \div 16) + (b % 16) = b
<1>1. b \in Int /\ 0 <= b /\ b <= 255
  BY DEF Byte
<1>2. b \div 16 \in 0..15 /\ b % 16 \in 0..15
  BY <1>1
<1>3. \A n \in Int : 16 * (n \div 16) + (n % 16) = n
  OBVIOUS
<1> QED BY <1>1, <1>2, <1>3

LEMMA IdsComeBack ==
    ASSUME NEW id \in ctrace_id
    PROVE  /\ ctr_id_to_lower_base16(id) \in Seq(Nat)
           /\ ctr_id_from_base16(ctr_id_to_lower_base16(id)) = id
<1> DEFINE s == ctr_id_to_lower_base16(id)
<1>1. id \in Seq(Byte) /\ id # <<>>
  BY DEF ctrace_id
<1>2. /\ Len(id) \in Nat /\ DOMAIN id = 1..Len(id) /\ Len(id) # 0
      /\ \A i \in 1..Len(id) : id[i] \in Byte
      /\ id = [i \in 1..Len(id) |-> id[i]]
  BY <1>1, LenProperties, ElementOfSeq, EmptySeq
<1>3. s = [i \in 1..2 * Len(id) |-> IF i % 2 = 1 THEN id[(i + 1) \div 2] \div 16
                                    ELSE id[i \div 2] % 16]
  BY DEF ctr_id_to_lower_base16
<1> HIDE DEF s
<1>4. \A i \in 1..2 * Len(id) : s[i] \in 0..15
  <2> SUFFICES ASSUME NEW i \in 1..2 * Len(id) PROVE s[i] \in 0..15
    OBVIOUS
  <2>1. CASE i % 2 = 1
    <3>1. (i + 1) \div 2 \in 1..Len(id)
      BY <1>2, <2>1
    <3> QED BY <1>2, <1>3, <2>1, <3>1, HalvesOfAByte
  <2>2. CASE i % 2 # 1
    <3>1. i \div 2 \in 1..Len(id)
      BY <1>2, <2>2
    <3> QED BY <1>2, <1>3, <2>2, <3>1, HalvesOfAByte
  <2> QED BY <2>1, <2>2
<1>5. s \in Seq(Nat) /\ Len(s) = 2 * Len(id)
  <2>1. 2 * Len(id) \in Nat /\ \A i \in 1..2 * Len(id) : s[i] \in Nat
    BY <1>2, <1>4
  <2>2. s = [i \in 1..2 * Len(id) |-> s[i]]
    BY <1>3
  <2> QED BY <2>1, <2>2, IntervalSequence
<1>6. DOMAIN s = 1..2 * Len(id)
  BY <1>3
<1>7. Len(s) >= 2 /\ Len(s) % 2 = 0 /\ Len(s) \div 2 = Len(id)
  <2>1. PICK n \in Nat \ {0} : n = Len(id) /\ Len(s) = 2 * n
    BY <1>2, <1>5
  <2>2. 2 * n >= 2 /\ (2 * n) % 2 = 0 /\ (2 * n) \div 2 = n
    OBVIOUS
  <2> QED BY <2>1, <2>2
<1>8. ctr_id_from_base16(s) = [i \in 1..Len(id) |-> 16 * s[2 * i - 1] + s[2 * i]]
  BY <1>4, <1>6, <1>7 DEF ctr_id_from_base16
<1>9. ASSUME NEW i \in 1..Len(id) PROVE 16 * s[2 * i - 1] + s[2 * i] = id[i]
  <2>1. /\ 2 * i - 1 \in 1..2 * Len(id) /\ 2 * i \in 1..2 * Len(id)
        /\ (2 * i - 1) % 2 = 1 /\ (2 * i) % 2 # 1
        /\ ((2 * i - 1) + 1) \div 2 = i /\ (2 * i) \div 2 = i
    BY <1>2
  <2>2. s[2 * i - 1] = id[i] \div 16 /\ s[2 * i] = id[i] % 16
    BY <1>3, <2>1
  <2>3. PICK b \in Byte : b = id[i]
    BY <1>2
  <2>4. 16 * (b \div 16) + (b % 16) = b
    BY HalvesOfAByte
  <2>5. PICK h, l : h = b \div 16 /\ l = b % 16
    OBVIOUS
  <2>6. s[2 * i - 1] = h /\ s[2 * i] = l /\ 16 * h + l = b
    BY <2>2, <2>3, <2>4, <2>5
  <2> QED BY <2>3, <2>6
<1> QED BY <1>2, <1>5, <1>8, <1>9 DEF s

\* What is read from digits is an identifier.
LEMMA ReadIdsAreTyped ==
    ASSUME NEW s \in Seq(Nat), ctr_id_from_base16(s) # NULL
    PROVE  ctr_id_from_base16(s) \in ctrace_id
<1> DEFINE n == Len(s) \div 2
           id == [i \in 1..n |-> 16 * s[2 * i - 1] + s[2 * i]]
<1>1. Len(s) >= 2 /\ (\A i \in DOMAIN s : s[i] \in 0..15) /\ ctr_id_from_base16(s) = id
  BY DEF ctr_id_from_base16
<1>2. Len(s) \in Nat /\ DOMAIN s = 1..Len(s)
  BY LenProperties
<1>3. n \in Nat /\ n >= 1 /\ \A i \in 1..n : 2 * i - 1 \in 1..Len(s) /\ 2 * i \in 1..Len(s)
  <2>1. PICK m, h : m = Len(s) /\ h = m \div 2
    OBVIOUS
  <2>2. m \in Nat /\ m >= 2
    BY <1>1, <1>2, <2>1
  <2>3. h \in Int /\ 2 * h <= m /\ m < 2 * h + 2
    BY <2>1, <2>2
  <2>4. \A i \in 1..h : 2 * i - 1 \in 1..m /\ 2 * i \in 1..m
    BY <2>2, <2>3
  <2>5. h \in Nat /\ h >= 1
    BY <2>2, <2>3
  <2> QED BY <2>1, <2>4, <2>5
<1>4. id = [i \in 1..n |-> id[i]] /\ \A i \in 1..n : id[i] = 16 * s[2 * i - 1] + s[2 * i]
  OBVIOUS
<1> HIDE DEF n, id
<1>5. \A i \in 1..n : id[i] \in Byte
  <2> SUFFICES ASSUME NEW i \in 1..n PROVE id[i] \in Byte
    OBVIOUS
  <2>1. PICK a, b : a = s[2 * i - 1] /\ b = s[2 * i]
    OBVIOUS
  <2>2. a \in 0..15 /\ b \in 0..15
    BY <1>1, <1>2, <1>3, <2>1
  <2>3. 16 * a + b \in 0..255
    BY <2>2
  <2> QED BY <1>4, <2>1, <2>3 DEF Byte
<1>6. id \in Seq(Byte) /\ Len(id) = n
  BY <1>3, <1>4, <1>5, IntervalSequence
<1>7. id # <<>>
  BY <1>3, <1>6, EmptySeq
<1> QED BY <1>1, <1>6, <1>7 DEF ctrace_id

-----------------------------------------------------------------------------
(* The places of a sequence, in their order.                               *)

LEMMA RanksAreOnto ==
    ASSUME NEW n \in Nat, NEW K \in SUBSET (1..n)
    PROVE  /\ Cardinality(K) \in Nat
           /\ \A m \in 1..Cardinality(K) : \E i \in K : Cardinality({j \in K : j <= i}) = m
<1> DEFINE Upto(i) == {j \in K : j <= i}
           f == [i \in K |-> Cardinality(Upto(i))]
<1>1. IsFiniteSet(1..n)
  BY FS_Interval
<1>2. IsFiniteSet(K) /\ Cardinality(K) \in Nat
  BY <1>1, FS_Subset, FS_CardinalityType
<1>3. ASSUME NEW i \in K
      PROVE  /\ Upto(i) \in SUBSET K /\ IsFiniteSet(Upto(i))
             /\ Cardinality(Upto(i)) \in 1..Cardinality(K)
  <2>1. Upto(i) \in SUBSET K /\ i \in Upto(i) /\ i \in Int
    OBVIOUS
  <2>2. IsFiniteSet(Upto(i)) /\ Cardinality(Upto(i)) <= Cardinality(K)
    BY <1>2, <2>1, FS_Subset
  <2>3. Cardinality(Upto(i)) \in Nat /\ Cardinality(Upto(i)) # 0
    BY <2>1, <2>2, FS_CardinalityType, FS_EmptySet
  <2> QED BY <1>2, <2>1, <2>2, <2>3
<1>4. ASSUME NEW i \in K, NEW k \in K, i < k PROVE f[i] # f[k]
  <2>0. \A j \in K : j \in Int
    OBVIOUS
  <2>1. Upto(i) \in SUBSET Upto(k) /\ k \in Upto(k) /\ k \notin Upto(i)
    <3>1. \A j \in K : j <= i => j <= k
      BY <1>4, <2>0
    <3>2. k <= k /\ ~(k <= i)
      BY <1>4, <2>0
    <3> QED BY <3>1, <3>2
  <2>2. IsFiniteSet(Upto(k))
    BY <1>3
  <2>3. Cardinality(Upto(k)) = Cardinality(Upto(i)) => Upto(k) = Upto(i)
    BY <2>1, <2>2, FS_Subset
  <2> QED BY <2>1, <2>3
<1>5. f \in [K -> 1..Cardinality(K)]
  BY <1>3
<1>6. \A i, k \in K : f[i] = f[k] => i = k
  <2>1. \A i, k \in K : i < k \/ k < i \/ i = k
    OBVIOUS
  <2> QED BY <1>4, <2>1
<1> HIDE DEF f
<1>7. f \in Injection(K, 1..Cardinality(K))
  BY <1>5, <1>6 DEF Injection, IsInjective
<1>8. IsFiniteSet(1..Cardinality(K)) /\ Cardinality(1..Cardinality(K)) = Cardinality(K)
  BY <1>2, FS_Interval
<1>9. f \in Surjection(K, 1..Cardinality(K))
  BY <1>7, <1>8, FS_Injection
<1>10. \A m \in 1..Cardinality(K) : \E i \in K : f[i] = m
  BY <1>9 DEF Surjection
<1> QED BY <1>2, <1>10 DEF f

LEMMA SomeIsFirst ==
    ASSUME NEW n \in Nat, NEW K \in SUBSET (1..n), K # {}
    PROVE  \E i \in K : \A j \in K : i <= j
<1>0. IsFiniteSet(1..n)
  BY FS_Interval
<1>1. IsFiniteSet(K)
  BY <1>0, FS_Subset
<1>2. Cardinality(K) \in Nat /\ Cardinality(K) # 0
  BY <1>1, FS_CardinalityType, FS_EmptySet
<1>3. 1 \in 1..Cardinality(K)
  BY <1>2
<1>4. PICK i \in K : Cardinality({j \in K : j <= i}) = 1
  BY <1>3, RanksAreOnto
<1>5. PICK x : {j \in K : j <= i} = {x}
  <2>1. IsFiniteSet({j \in K : j <= i})
    BY <1>1, FS_Subset
  <2> QED BY <1>4, <2>1, FS_Singleton
<1>6. \A j \in K : i <= j
  <2> SUFFICES ASSUME NEW j \in K, ~(i <= j) PROVE FALSE
    OBVIOUS
  <2>1. j \in {k \in K : k <= i} /\ i \in {k \in K : k <= i} /\ i # j
    OBVIOUS
  <2> QED BY <1>5, <2>1
<1> QED BY <1>6

LEMMA AtTyped ==
    ASSUME NEW S, NEW s \in Seq(S), NEW K \in SUBSET (DOMAIN s), NEW T,
           \A i \in K : s[i] \in T
    PROVE  At(s, K) \in Seq(T)
<1>1. Len(s) \in Nat /\ K \in SUBSET (1..Len(s))
  BY LenProperties
<1>2. Cardinality(K) \in Nat
  BY <1>1, RanksAreOnto
<1>3. \A m \in 1..Cardinality(K) : \E i \in K : Cardinality({j \in K : j <= i}) = m
  BY <1>1, RanksAreOnto
<1>4. \A m \in 1..Cardinality(K) : At(s, K)[m] \in T
  <2> SUFFICES ASSUME NEW m \in 1..Cardinality(K) PROVE At(s, K)[m] \in T
    OBVIOUS
  <2>1. At(s, K)[m] = s[CHOOSE i \in K : Cardinality({j \in K : j <= i}) = m]
    BY DEF At
  <2>2. (CHOOSE i \in K : Cardinality({j \in K : j <= i}) = m) \in K
    BY <1>3
  <2> QED BY <2>1, <2>2
<1>5. At(s, K) = [m \in 1..Cardinality(K) |-> At(s, K)[m]]
  BY DEF At
<1> QED BY <1>2, <1>4, <1>5, IntervalSequence

LEMMA AtAllPlaces ==
    ASSUME NEW S, NEW s \in Seq(S)
    PROVE  At(s, DOMAIN s) = s
<1> DEFINE n == Len(s)
<1>1. n \in Nat /\ DOMAIN s = 1..n /\ s = [i \in 1..n |-> s[i]]
  BY LenProperties
<1> HIDE DEF n
<1>2. Cardinality(1..n) = n
  <2>1. 1 \in Int /\ n \in Int /\ (1 > n => n = 0)
    BY <1>1
  <2>2. Cardinality(1..n) = IF 1 > n THEN 0 ELSE n - 1 + 1
    BY <2>1, FS_Interval
  <2> QED BY <1>1, <2>1, <2>2
<1>3. \A i \in 1..n : Cardinality({j \in 1..n : j <= i}) = i
  <2> SUFFICES ASSUME NEW i \in 1..n PROVE Cardinality({j \in 1..n : j <= i}) = i
    OBVIOUS
  <2>1. {j \in 1..n : j <= i} = 1..i
    BY <1>1
  <2>2. 1 \in Int /\ i \in Int /\ i >= 1
    BY <1>1
  <2>3. Cardinality(1..i) = i
    BY <2>2, FS_Interval
  <2> QED BY <2>1, <2>3
<1>4. \A m \in 1..n : (CHOOSE i \in 1..n : Cardinality({j \in 1..n : j <= i}) = m) = m
  <2> SUFFICES ASSUME NEW m \in 1..n
               PROVE  (CHOOSE i \in 1..n : Cardinality({j \in 1..n : j <= i}) = m) = m
    OBVIOUS
  <2> DEFINE c == CHOOSE i \in 1..n : Cardinality({j \in 1..n : j <= i}) = m
  <2>1. c \in 1..n /\ Cardinality({j \in 1..n : j <= c}) = m
    BY <1>3
  <2> HIDE DEF c
  <2>2. c = m
    BY <1>3, <2>1
  <2> QED BY <2>2 DEF c
<1>5. At(s, 1..n) = [m \in 1..n |-> s[CHOOSE i \in 1..n : Cardinality({j \in 1..n : j <= i}) = m]]
  BY <1>2 DEF At
<1> QED BY <1>1, <1>4, <1>5

-----------------------------------------------------------------------------
(* MessagePack, there and back.                                            *)

LEMMA SeqFacts ==
    ASSUME NEW S, NEW s \in Seq(S)
    PROVE  /\ Len(s) \in Nat /\ DOMAIN s = 1..Len(s)
           /\ s = [i \in DOMAIN s |-> s[i]]
           /\ \A i \in DOMAIN s : s[i] \in S
BY LenProperties, ElementOfSeq

LEMMA IdsBack ==
    ASSUME NEW id \in ctrace_id \cup {NULL}
    PROVE  unpack_id(pack_id(id)) = id /\ IdReads(pack_id(id))
<1>1. CASE id = NULL
  BY <1>1 DEF unpack_id, pack_id, IdReads
<1>2. CASE id \in ctrace_id /\ id # NULL
  <2>1. /\ ctr_id_to_lower_base16(id) \in Seq(Nat)
        /\ ctr_id_from_base16(ctr_id_to_lower_base16(id)) = id
    BY <1>2, IdsComeBack
  <2>2. NULL \notin Seq(Nat)
    BY NullIsNoData
  <2> QED BY <1>2, <2>1, <2>2 DEF unpack_id, pack_id, IdReads
<1> QED BY <1>1, <1>2

LEMMA EventsBack ==
    ASSUME NEW s \in Seq(Event(Nat))
    PROVE  /\ DOMAIN pack_events(s) = DOMAIN s
           /\ [i \in DOMAIN pack_events(s) |-> unpack_event(pack_events(s)[i])] = s
           /\ \A i \in DOMAIN s : EventReads(pack_events(s)[i]) <=> KeysFit(s[i].attr)
<1>1. s = [i \in DOMAIN s |-> s[i]] /\ \A i \in DOMAIN s : s[i] \in Event(Nat)
  BY SeqFacts
<1>2. DOMAIN pack_events(s) = DOMAIN s
  BY DEF pack_events
<1>3. ASSUME NEW i \in DOMAIN s
      PROVE  /\ unpack_event(pack_events(s)[i]) = s[i]
             /\ EventReads(pack_events(s)[i]) <=> KeysFit(s[i].attr)
  <2>1. PICK e \in Event(Nat) : e = s[i]
    BY <1>1
  <2>2. pack_events(s)[i] = [time_unix_nano |-> e.time_unix_nano, name |-> e.name,
                             attributes |-> e.attr,
                             dropped_attributes_count |-> e.dropped_attr_count]
    BY <2>1 DEF pack_events
  <2>3. /\ e = [name |-> e.name, time_unix_nano |-> e.time_unix_nano, attr |-> e.attr,
                dropped_attr_count |-> e.dropped_attr_count]
        /\ e.attr \in AttributeSet
    BY DEF Event
  <2>4. e.attr # NULL
    BY <2>3, NullIsNoData
  <2> QED BY <2>1, <2>2, <2>3, <2>4 DEF unpack_event, unpack_attributes, EventReads
<1> QED BY <1>1, <1>2, <1>3

FlaglessLinks(s) == [i \in DOMAIN s |-> [s[i] EXCEPT !.flags = 0]]

LEMMA LinksBack ==
    ASSUME NEW s \in Seq(Link(Nat))
    PROVE  /\ DOMAIN pack_links(s) = DOMAIN s
           /\ [i \in DOMAIN pack_links(s) |-> unpack_link(pack_links(s)[i])] = FlaglessLinks(s)
           /\ \A i \in DOMAIN s : LinkReads(pack_links(s)[i]) <=> KeysFit(s[i].attr)
<1>1. s = [i \in DOMAIN s |-> s[i]] /\ \A i \in DOMAIN s : s[i] \in Link(Nat)
  BY SeqFacts
<1>2. DOMAIN pack_links(s) = DOMAIN s
  BY DEF pack_links
<1>3. ASSUME NEW i \in DOMAIN s
      PROVE  /\ unpack_link(pack_links(s)[i]) = [s[i] EXCEPT !.flags = 0]
             /\ LinkReads(pack_links(s)[i]) <=> KeysFit(s[i].attr)
  <2>1. PICK l \in Link(Nat) : l = s[i]
    BY <1>1
  <2>2. PICK m : m = pack_links(s)[i]
    OBVIOUS
  <2>3. m = [trace_id |-> pack_id(l.trace_id), span_id |-> pack_id(l.span_id),
             trace_state |-> l.trace_state, attributes |-> l.attr,
             dropped_attributes_count |-> l.dropped_attr_count]
    BY <2>1, <2>2 DEF pack_links
  <2>4. /\ l = [trace_id |-> l.trace_id, span_id |-> l.span_id, trace_state |-> l.trace_state,
                attr |-> l.attr, dropped_attr_count |-> l.dropped_attr_count, flags |-> l.flags]
        /\ l.trace_id \in ctrace_id \cup {NULL} /\ l.span_id \in ctrace_id \cup {NULL}
    BY DEF Link
  <2>5. /\ unpack_id(m.trace_id) = l.trace_id /\ IdReads(m.trace_id)
        /\ unpack_id(m.span_id) = l.span_id /\ IdReads(m.span_id)
    BY <2>3, <2>4, IdsBack
  <2>6. unpack_link(m) = [l EXCEPT !.flags = 0]
    BY <2>3, <2>4, <2>5 DEF unpack_link
  <2>7. LinkReads(m) <=> KeysFit(l.attr)
    BY <2>3, <2>5 DEF LinkReads
  <2> QED BY <2>1, <2>2, <2>6, <2>7
<1> QED BY <1>1, <1>2, <1>3 DEF FlaglessLinks

SpanFits(p) ==
    /\ KeysFit(p.attr)
    /\ \A i \in DOMAIN p.events : KeysFit(p.events[i].attr)
    /\ \A i \in DOMAIN p.links : KeysFit(p.links[i].attr)

LEMMA SpanFields ==
    ASSUME NEW p \in Span(Nat)
    PROVE  /\ p = [trace_id |-> p.trace_id, span_id |-> p.span_id,
                   parent_span_id |-> p.parent_span_id, trace_state |-> p.trace_state,
                   name |-> p.name, schema_url |-> p.schema_url, kind |-> p.kind,
                   flags |-> p.flags, start_time_unix_nano |-> p.start_time_unix_nano,
                   end_time_unix_nano |-> p.end_time_unix_nano, attr |-> p.attr,
                   dropped_attr_count |-> p.dropped_attr_count, events |-> p.events,
                   dropped_events_count |-> p.dropped_events_count, links |-> p.links,
                   dropped_links_count |-> p.dropped_links_count, status |-> p.status]
           /\ p.trace_id \in ctrace_id \cup {NULL}
           /\ p.span_id \in ctrace_id \cup {NULL}
           /\ p.parent_span_id \in ctrace_id \cup {NULL}
           /\ p.trace_state \in String /\ p.name \in String /\ p.schema_url \in String
           /\ p.kind \in Int /\ p.flags \in Nat
           /\ p.start_time_unix_nano \in Nat /\ p.end_time_unix_nano \in Nat
           /\ p.attr \in AttributeSet /\ p.attr # NULL
           /\ p.dropped_attr_count \in Nat
           /\ p.events \in Seq(Event(Nat)) /\ p.dropped_events_count \in Nat
           /\ p.links \in Seq(Link(Nat)) /\ p.dropped_links_count \in Nat
           /\ p.status \in [code : Int, message : String]
<1>1. NULL \notin AttributeSet
  BY NullIsNoData
<1> QED BY <1>1 DEF Span

LEMMA FlaglessFields ==
    ASSUME NEW p \in Span(Nat)
    PROVE  Flagless(p) =
              [trace_id |-> p.trace_id, span_id |-> p.span_id,
               parent_span_id |-> p.parent_span_id, trace_state |-> p.trace_state,
               name |-> p.name, schema_url |-> p.schema_url, kind |-> p.kind,
               flags |-> 0, start_time_unix_nano |-> p.start_time_unix_nano,
               end_time_unix_nano |-> p.end_time_unix_nano, attr |-> p.attr,
               dropped_attr_count |-> p.dropped_attr_count, events |-> p.events,
               dropped_events_count |-> p.dropped_events_count,
               links |-> FlaglessLinks(p.links),
               dropped_links_count |-> p.dropped_links_count, status |-> p.status]
<1>1. Flagless(p) = [p EXCEPT !.flags = 0, !.links = FlaglessLinks(p.links)]
  BY SpanFields DEF Flagless, FlaglessLinks
<1> QED BY <1>1, SpanFields

LEMMA SpanBack ==
    ASSUME NEW p \in Span(Nat)
    PROVE  /\ unpack_span(pack_span(p)) = Flagless(p)
           /\ SpanReads(pack_span(p)) <=> SpanFits(p)
<1>1. PICK m : m = pack_span(p)
  OBVIOUS
<1>2. PICK events, links : events = pack_events(p.events) /\ links = pack_links(p.links)
  OBVIOUS
<1>3. /\ p.events \in Seq(Event(Nat)) /\ p.links \in Seq(Link(Nat))
      /\ p.trace_id \in ctrace_id \cup {NULL}
      /\ p.span_id \in ctrace_id \cup {NULL}
      /\ p.parent_span_id \in ctrace_id \cup {NULL}
      /\ p.attr # NULL
  BY SpanFields
<1>4. /\ DOMAIN events = DOMAIN p.events
      /\ [i \in DOMAIN events |-> unpack_event(events[i])] = p.events
      /\ \A i \in DOMAIN events : EventReads(events[i]) <=> KeysFit(p.events[i].attr)
  BY <1>2, <1>3, EventsBack
<1>5. /\ DOMAIN links = DOMAIN p.links
      /\ [i \in DOMAIN links |-> unpack_link(links[i])] = FlaglessLinks(p.links)
      /\ \A i \in DOMAIN links : LinkReads(links[i]) <=> KeysFit(p.links[i].attr)
  BY <1>2, <1>3, LinksBack
<1>6. m = [trace_id                 |-> pack_id(p.trace_id),
           span_id                  |-> pack_id(p.span_id),
           parent_span_id           |-> pack_id(p.parent_span_id),
           trace_state              |-> p.trace_state,
           name                     |-> p.name,
           kind                     |-> p.kind,
           start_time_unix_nano     |-> p.start_time_unix_nano,
           end_time_unix_nano       |-> p.end_time_unix_nano,
           attributes               |-> p.attr,
           dropped_attributes_count |-> p.dropped_attr_count,
           dropped_events_count     |-> p.dropped_events_count,
           dropped_links_count      |-> p.dropped_links_count,
           events                   |-> events,
           links                    |-> links,
           schema_url               |-> p.schema_url,
           status                   |-> p.status]
  BY <1>1, <1>2 DEF pack_span
<1>7. /\ unpack_id(m.trace_id) = p.trace_id /\ IdReads(m.trace_id)
      /\ unpack_id(m.span_id) = p.span_id /\ IdReads(m.span_id)
      /\ unpack_id(m.parent_span_id) = p.parent_span_id /\ IdReads(m.parent_span_id)
  BY <1>3, <1>6, IdsBack
<1>8. m.attributes = p.attr /\ m.events = events /\ m.links = links
  BY <1>6
<1>9. SpanReads(m) <=> SpanFits(p)
  BY <1>4, <1>5, <1>7, <1>8 DEF SpanReads, SpanFits
<1>10. unpack_attributes(m.attributes) = p.attr
  BY <1>3, <1>8 DEF unpack_attributes
<1>11. /\ [i \in DOMAIN m.events |-> unpack_event(m.events[i])] = p.events
       /\ [i \in DOMAIN m.links |-> unpack_link(m.links[i])] = FlaglessLinks(p.links)
  BY <1>4, <1>5, <1>8
<1>12. unpack_span(m) =
          [trace_id             |-> unpack_id(m.trace_id),
           span_id              |-> unpack_id(m.span_id),
           parent_span_id       |-> unpack_id(m.parent_span_id),
           trace_state          |-> m.trace_state,
           name                 |-> m.name,
           schema_url           |-> m.schema_url,
           kind                 |-> m.kind,
           flags                |-> 0,
           start_time_unix_nano |-> m.start_time_unix_nano,
           end_time_unix_nano   |-> m.end_time_unix_nano,
           attr                 |-> p.attr,
           dropped_attr_count   |-> m.dropped_attributes_count,
           events               |-> p.events,
           dropped_events_count |-> m.dropped_events_count,
           links                |-> FlaglessLinks(p.links),
           dropped_links_count  |-> m.dropped_links_count,
           status               |-> m.status]
  BY <1>10, <1>11 DEF unpack_span
<1>13. unpack_span(m) = Flagless(p)
  BY <1>6, <1>7, <1>12, FlaglessFields
<1> QED BY <1>1, <1>9, <1>13

ScopeFits(scope) == scope = NULL \/ KeysFit(scope.attr)

LEMMA ScopeBack ==
    ASSUME NEW scope \in InstrumentationScope(Nat) \cup {NULL}
    PROVE  LET m == pack_instrumentation_scope(scope)
           IN  /\ unpack_instrumentation_scope(m) = scope
               /\ (m = NULL \/ KeysFit(m.attributes)) <=> ScopeFits(scope)
<1>1. CASE scope = NULL
  BY <1>1 DEF pack_instrumentation_scope, unpack_instrumentation_scope, ScopeFits
<1>2. CASE scope # NULL
  <2>1. /\ scope = [name |-> scope.name, version |-> scope.version, attr |-> scope.attr,
                    dropped_attr_count |-> scope.dropped_attr_count]
        /\ scope.name \in String /\ scope.version \in String
        /\ scope.attr \in AttributeSet \cup {NULL} /\ scope.dropped_attr_count \in Nat
    BY <1>2 DEF InstrumentationScope
  <2>2. PICK m : m = pack_instrumentation_scope(scope)
    OBVIOUS
  <2>3. m = [name |-> scope.name, version |-> scope.version, attributes |-> scope.attr,
             dropped_attributes_count |-> scope.dropped_attr_count]
    BY <1>2, <2>2 DEF pack_instrumentation_scope
  <2>4. m \in PackedScope(Nat)
    BY <2>1, <2>3 DEF PackedScope
  <2>5. m # NULL
    BY <2>4, NullIsNotPacked
  <2>6. unpack_instrumentation_scope(m) = scope
    BY <2>1, <2>3, <2>5 DEF unpack_instrumentation_scope
  <2>7. (m = NULL \/ KeysFit(m.attributes)) <=> ScopeFits(scope)
    BY <1>2, <2>3, <2>5 DEF ScopeFits
  <2> QED BY <2>2, <2>6, <2>7
<1> QED BY <1>1, <1>2

FlaglessSpans(s) == [k \in DOMAIN s |-> Flagless(s[k])]

FlaglessScopeSpans(s) == [j \in DOMAIN s |-> [s[j] EXCEPT !.spans = FlaglessSpans(@)]]

ScopeSpanFits(s) ==
    /\ ScopeFits(s.instrumentation_scope)
    /\ \A k \in DOMAIN s.spans : SpanFits(s.spans[k])

LEMMA ScopeSpansBack ==
    ASSUME NEW s \in Seq(ScopeSpan(Nat))
    PROVE  LET m == pack_scope_spans(s)
           IN  /\ DOMAIN m = DOMAIN s
               /\ [j \in DOMAIN m |-> unpack_scope_span(m[j])] = FlaglessScopeSpans(s)
               /\ \A j \in DOMAIN s : ScopeSpanReads(m[j]) <=> ScopeSpanFits(s[j])
<1>1. \A j \in DOMAIN s : s[j] \in ScopeSpan(Nat)
  BY SeqFacts
<1>2. PICK m : m = pack_scope_spans(s)
  OBVIOUS
<1>3. DOMAIN m = DOMAIN s
  BY <1>2 DEF pack_scope_spans
<1>4. ASSUME NEW j \in DOMAIN s
      PROVE  /\ unpack_scope_span(m[j]) = [s[j] EXCEPT !.spans = FlaglessSpans(@)]
             /\ ScopeSpanReads(m[j]) <=> ScopeSpanFits(s[j])
  <2>1. PICK t \in ScopeSpan(Nat) : t = s[j]
    BY <1>1
  <2>2. /\ t = [instrumentation_scope |-> t.instrumentation_scope,
                schema_url |-> t.schema_url, spans |-> t.spans]
        /\ t.instrumentation_scope \in InstrumentationScope(Nat) \cup {NULL}
        /\ t.spans \in Seq(Span(Nat))
    BY DEF ScopeSpan
  <2>3. PICK w, scope, spans :
          /\ w = m[j]
          /\ scope = pack_instrumentation_scope(t.instrumentation_scope)
          /\ spans = [k \in DOMAIN t.spans |-> pack_span(t.spans[k])]
    OBVIOUS
  <2>4. w = [scope |-> scope, spans |-> spans, schema_url |-> t.schema_url]
    BY <1>2, <2>1, <2>3 DEF pack_scope_spans
  <2>5. /\ unpack_instrumentation_scope(scope) = t.instrumentation_scope
        /\ (scope = NULL \/ KeysFit(scope.attributes)) <=> ScopeFits(t.instrumentation_scope)
    BY <2>2, <2>3, ScopeBack
  <2>6. DOMAIN spans = DOMAIN t.spans
    BY <2>3
  <2>7. \A k \in DOMAIN spans : /\ unpack_span(spans[k]) = Flagless(t.spans[k])
                                /\ SpanReads(spans[k]) <=> SpanFits(t.spans[k])
    <3> SUFFICES ASSUME NEW k \in DOMAIN spans
                 PROVE  /\ unpack_span(spans[k]) = Flagless(t.spans[k])
                        /\ SpanReads(spans[k]) <=> SpanFits(t.spans[k])
      OBVIOUS
    <3>1. spans[k] = pack_span(t.spans[k]) /\ t.spans[k] \in Span(Nat)
      BY <2>2, <2>3, <2>6, SeqFacts
    <3> QED BY <3>1, SpanBack
  <2>8. [k \in DOMAIN spans |-> unpack_span(spans[k])] = FlaglessSpans(t.spans)
    BY <2>6, <2>7 DEF FlaglessSpans
  <2>9. w.scope = scope /\ w.schema_url = t.schema_url /\ w.spans = spans
    BY <2>4
  <2>10. unpack_scope_span(w) = [instrumentation_scope |-> t.instrumentation_scope,
                                 schema_url |-> t.schema_url, spans |-> FlaglessSpans(t.spans)]
    BY <2>5, <2>8, <2>9 DEF unpack_scope_span
  <2>11. unpack_scope_span(w) = [t EXCEPT !.spans = FlaglessSpans(@)]
    BY <2>2, <2>10
  <2>12. ScopeSpanReads(w) <=> ScopeSpanFits(t)
    BY <2>5, <2>6, <2>7, <2>9 DEF ScopeSpanReads, ScopeSpanFits
  <2> QED BY <2>1, <2>3, <2>11, <2>12
<1>5. [j \in DOMAIN m |-> unpack_scope_span(m[j])] = FlaglessScopeSpans(s)
  BY <1>3, <1>4 DEF FlaglessScopeSpans
<1> QED BY <1>2, <1>3, <1>4, <1>5

ContextFits(ctx) ==
    \A i \in DOMAIN ctx :
        /\ KeysFit(ctx[i].resource.attr)
        /\ \A j \in DOMAIN ctx[i].scope_spans : ScopeSpanFits(ctx[i].scope_spans[j])

\* What is packed is unpacked again, all but the flags.
LEMMA ContextBack ==
    ASSUME NEW ctx \in Context(Nat)
    PROVE  MsgpackDecode(MsgpackEncode(ctx)) =
              IF ContextFits(ctx) THEN EachSpan(ctx, Flagless) ELSE NULL
<1>1. \A i \in DOMAIN ctx : ctx[i] \in ResourceSpan(Nat)
  BY SeqFacts DEF Context
<1>2. PICK m : m = MsgpackEncode(ctx)
  OBVIOUS
<1>3. DOMAIN m = DOMAIN ctx
  BY <1>2 DEF MsgpackEncode
<1>4. ASSUME NEW i \in DOMAIN ctx
      PROVE  /\ unpack_resource_span(m[i])
                  = [ctx[i] EXCEPT !.scope_spans = FlaglessScopeSpans(@)]
             /\ ResourceSpanReads(m[i]) <=>
                    /\ KeysFit(ctx[i].resource.attr)
                    /\ \A j \in DOMAIN ctx[i].scope_spans :
                          ScopeSpanFits(ctx[i].scope_spans[j])
  <2>1. PICK r \in ResourceSpan(Nat) : r = ctx[i]
    BY <1>1
  <2>2. /\ r = [resource |-> r.resource, schema_url |-> r.schema_url,
                scope_spans |-> r.scope_spans]
        /\ r.resource = [attr |-> r.resource.attr,
                         dropped_attr_count |-> r.resource.dropped_attr_count]
        /\ r.resource.attr \in AttributeSet
        /\ r.scope_spans \in Seq(ScopeSpan(Nat))
    BY DEF ResourceSpan
  <2>3. PICK w, l : w = m[i] /\ l = pack_scope_spans(r.scope_spans)
    OBVIOUS
  <2>4. w = [resource    |-> [attributes |-> r.resource.attr,
                              dropped_attributes_count |-> r.resource.dropped_attr_count],
             schema_url  |-> r.schema_url,
             scope_spans |-> l]
    BY <1>2, <2>1, <2>3 DEF MsgpackEncode
  <2>5. /\ DOMAIN l = DOMAIN r.scope_spans
        /\ [j \in DOMAIN l |-> unpack_scope_span(l[j])] = FlaglessScopeSpans(r.scope_spans)
        /\ \A j \in DOMAIN l : ScopeSpanReads(l[j]) <=> ScopeSpanFits(r.scope_spans[j])
    BY <2>2, <2>3, ScopeSpansBack
  <2>6. unpack_attributes(r.resource.attr) = r.resource.attr
    BY <2>2, NullIsNoData DEF unpack_attributes
  <2>7. /\ w.resource.attributes = r.resource.attr
        /\ w.resource.dropped_attributes_count = r.resource.dropped_attr_count
        /\ w.schema_url = r.schema_url /\ w.scope_spans = l
    BY <2>4
  <2>8. unpack_resource_span(w) = [resource |-> r.resource, schema_url |-> r.schema_url,
                                   scope_spans |-> FlaglessScopeSpans(r.scope_spans)]
    BY <2>2, <2>5, <2>6, <2>7 DEF unpack_resource_span
  <2>9. unpack_resource_span(w) = [r EXCEPT !.scope_spans = FlaglessScopeSpans(@)]
    BY <2>2, <2>8
  <2>10. ResourceSpanReads(w) <=>
            /\ KeysFit(r.resource.attr)
            /\ \A j \in DOMAIN r.scope_spans : ScopeSpanFits(r.scope_spans[j])
    BY <2>5, <2>7 DEF ResourceSpanReads
  <2> QED BY <2>1, <2>3, <2>9, <2>10
<1>5. (\A i \in DOMAIN m : ResourceSpanReads(m[i])) <=> ContextFits(ctx)
  BY <1>3, <1>4 DEF ContextFits
<1>6. [i \in DOMAIN m |-> unpack_resource_span(m[i])]
         = [i \in DOMAIN ctx |-> [ctx[i] EXCEPT !.scope_spans = FlaglessScopeSpans(@)]]
  BY <1>3, <1>4
<1>7. EachSpan(ctx, Flagless)
         = [i \in DOMAIN ctx |-> [ctx[i] EXCEPT !.scope_spans = FlaglessScopeSpans(@)]]
  BY DEF EachSpan, FlaglessScopeSpans, FlaglessSpans
<1> QED BY <1>2, <1>5, <1>6, <1>7 DEF MsgpackDecode

-----------------------------------------------------------------------------
(* Where the keys are too long.                                            *)

LEMMA ScopeSpansFacts ==
    ASSUME NEW ctx, NEW s
    PROVE  s \in ScopeSpansOf(ctx) <=>
              \E i \in DOMAIN ctx : \E j \in DOMAIN ctx[i].scope_spans : s = ctx[i].scope_spans[j]
BY DEF ScopeSpansOf

LEMMA SpansFacts ==
    ASSUME NEW ctx, NEW p
    PROVE  p \in SpansOf(ctx) <=>
              \E s \in ScopeSpansOf(ctx) : \E k \in DOMAIN s.spans : p = s.spans[k]
BY DEF SpansOf

LEMMA ScopesFacts ==
    ASSUME NEW ctx, NEW scope
    PROVE  scope \in ScopesOf(ctx) <=>
              scope # NULL /\ \E s \in ScopeSpansOf(ctx) : scope = s.instrumentation_scope
BY DEF ScopesOf

LEMMA AttributeSetsFacts ==
    ASSUME NEW ctx, NEW attr
    PROVE  attr \in AttributeSetsOf(ctx) <=>
              /\ attr # NULL
              /\ \/ \E i \in DOMAIN ctx : attr = ctx[i].resource.attr
                 \/ \E scope \in ScopesOf(ctx) : attr = scope.attr
                 \/ \E p \in SpansOf(ctx) : attr = p.attr
                 \/ \E p \in SpansOf(ctx) : \E i \in DOMAIN p.events : attr = p.events[i].attr
                 \/ \E p \in SpansOf(ctx) : \E i \in DOMAIN p.links : attr = p.links[i].attr
BY DEF AttributeSetsOf

HasLongKey(attr) == \E i \in DOMAIN attr : attr[i].key \in LongKey

LEMMA LongKeysDoNotFit ==
    ASSUME NEW ctx
    PROVE  ContextFits(ctx) <=> ~ \E attr \in AttributeSetsOf(ctx) : HasLongKey(attr)
<1>1. \A attr : KeysFit(attr) <=> attr = NULL \/ ~HasLongKey(attr)
  BY DEF KeysFit, HasLongKey
<1>2. ContextFits(ctx) <=>
        /\ \A i \in DOMAIN ctx : KeysFit(ctx[i].resource.attr)
        /\ \A s \in ScopeSpansOf(ctx) : ScopeSpanFits(s)
  BY ScopeSpansFacts DEF ContextFits
<1>3. (\A s \in ScopeSpansOf(ctx) : ScopeSpanFits(s)) <=>
        /\ \A scope \in ScopesOf(ctx) : KeysFit(scope.attr)
        /\ \A p \in SpansOf(ctx) : SpanFits(p)
  BY SpansFacts, ScopesFacts DEF ScopeSpanFits, ScopeFits
<1>4. ASSUME ContextFits(ctx), NEW attr \in AttributeSetsOf(ctx) PROVE ~HasLongKey(attr)
  <2>1. attr # NULL
    BY <1>4, AttributeSetsFacts
  <2>2. CASE \E i \in DOMAIN ctx : attr = ctx[i].resource.attr
    BY <1>1, <1>2, <1>4, <2>1, <2>2
  <2>3. CASE \E scope \in ScopesOf(ctx) : attr = scope.attr
    BY <1>1, <1>2, <1>3, <1>4, <2>1, <2>3
  <2>4. CASE \E p \in SpansOf(ctx) :
              \/ attr = p.attr
              \/ \E i \in DOMAIN p.events : attr = p.events[i].attr
              \/ \E i \in DOMAIN p.links : attr = p.links[i].attr
    BY <1>1, <1>2, <1>3, <1>4, <2>1, <2>4 DEF SpanFits
  <2> QED BY <1>4, <2>2, <2>3, <2>4, AttributeSetsFacts
<1>5. ASSUME \A attr \in AttributeSetsOf(ctx) : ~HasLongKey(attr) PROVE ContextFits(ctx)
  <2>1. \A i \in DOMAIN ctx : KeysFit(ctx[i].resource.attr)
    BY <1>1, <1>5, AttributeSetsFacts
  <2>2. \A scope \in ScopesOf(ctx) : KeysFit(scope.attr)
    BY <1>1, <1>5, AttributeSetsFacts
  <2>3. \A p \in SpansOf(ctx) : SpanFits(p)
    <3> SUFFICES ASSUME NEW p \in SpansOf(ctx) PROVE SpanFits(p)
      OBVIOUS
    <3>1. KeysFit(p.attr)
      BY <1>1, <1>5, AttributeSetsFacts
    <3>2. \A i \in DOMAIN p.events : KeysFit(p.events[i].attr)
      BY <1>1, <1>5, AttributeSetsFacts
    <3>3. \A i \in DOMAIN p.links : KeysFit(p.links[i].attr)
      BY <1>1, <1>5, AttributeSetsFacts
    <3> QED BY <3>1, <3>2, <3>3 DEF SpanFits
  <2> QED BY <1>2, <1>3, <2>1, <2>2, <2>3
<1> QED BY <1>4, <1>5

-----------------------------------------------------------------------------
(* OpenTelemetry: attribute sets, and how far a list is decoded.           *)

HasBytes(attr) == \E i \in DOMAIN attr : attr[i].value = "bytes"

LEMMA AttributesAreNotNull ==
    ASSUME NEW attr \in AttributeSet
    PROVE  attr # NULL
BY NullIsNoData

LEMMA AttributesSent ==
    ASSUME NEW attr \in AttributeSet \cup {NULL}
    PROVE  /\ set_attributes_from_ctr(attr) \in AttributeSet
           /\ set_attributes_from_ctr(attr) \in KeyValues
           /\ set_attributes_from_ctr(attr) = IF attr = NULL THEN <<>> ELSE attr
<1>1. <<>> \in AttributeSet
  BY EmptySeq DEF AttributeSet
<1>2. set_attributes_from_ctr(attr) \in AttributeSet
  BY <1>1 DEF set_attributes_from_ctr
<1>3. [key : Key, value : Value] \subseteq [key : Key, value : Value \cup {"none", "strindex"}]
  OBVIOUS
<1>4. AttributeSet \subseteq KeyValues
  BY <1>3, SeqMonotonic DEF AttributeSet, KeyValues
<1> QED BY <1>2, <1>4 DEF set_attributes_from_ctr

LEMMA OwnAttributes ==
    ASSUME NEW attr \in AttributeSet
    PROVE  /\ Accepted(attr) <=> ~HasBytes(attr)
           /\ convert_otel_attrs(attr) = IF HasBytes(attr) THEN NULL ELSE attr
<1>1. \A i \in DOMAIN attr : attr[i] \in [key : Key, value : Value]
  BY SeqFacts DEF AttributeSet
<1>2. \A i \in DOMAIN attr : attr[i].value \in {"plain", "bytes", "nested"}
  BY <1>1 DEF Value
<1>3. Accepted(attr) <=> ~HasBytes(attr)
  BY <1>2 DEF Accepted, HasBytes
<1>4. {i \in DOMAIN attr : attr[i].value # "strindex"} = DOMAIN attr
  BY <1>2
<1>5. At(attr, DOMAIN attr) = attr
  BY AtAllPlaces DEF AttributeSet
<1> QED BY <1>3, <1>4, <1>5 DEF convert_otel_attrs

\* The sets that the decoder makes.
ByteFree == Seq([key : Key, value : {"plain", "nested"}])

LEMMA ByteFreeFacts ==
    ASSUME NEW attr \in ByteFree
    PROVE  attr \in AttributeSet /\ attr # NULL /\ ~HasBytes(attr)
<1>1. /\ \A i \in DOMAIN attr : attr[i] \in [key : Key, value : {"plain", "nested"}]
      /\ attr = [i \in DOMAIN attr |-> attr[i]]
  BY SeqFacts DEF ByteFree
<1>2. \A i \in DOMAIN attr : attr[i] \in [key : Key, value : Value]
  BY <1>1 DEF Value
<1>3. PICK S, T : S = [key : Key, value : {"plain", "nested"}] /\ T = [key : Key, value : Value]
  OBVIOUS
<1>4. attr \in Seq(S) /\ \A i \in DOMAIN attr : attr[i] \in T
  BY <1>2, <1>3 DEF ByteFree
<1>5. attr \in Seq(T)
  BY <1>1, <1>4, IsSequence
<1>6. attr \in AttributeSet
  BY <1>3, <1>5 DEF AttributeSet
<1> QED BY <1>1, <1>6, AttributesAreNotNull DEF HasBytes

LEMMA AttributesReceived ==
    ASSUME NEW attr \in KeyValues
    PROVE  /\ convert_otel_attrs(attr) \in ByteFree \cup {NULL}
           /\ OrEmpty(convert_otel_attrs(attr)) \in ByteFree
           /\ Accepted(attr) <=> convert_otel_attrs(attr) # NULL
<1>1. \A i \in DOMAIN attr : attr[i] \in [key : Key, value : Value \cup {"none", "strindex"}]
  BY SeqFacts DEF KeyValues
<1>2. CASE Accepted(attr)
  <2> DEFINE K == {i \in DOMAIN attr : attr[i].value # "strindex"}
  <2>1. K \in SUBSET (DOMAIN attr)
    OBVIOUS
  <2>2. \A i \in K : attr[i] \in [key : Key, value : {"plain", "nested"}]
    BY <1>1, <1>2 DEF Accepted, Value
  <2>3. convert_otel_attrs(attr) = At(attr, K)
    BY <1>2 DEF convert_otel_attrs
  <2> HIDE DEF K
  <2>4. At(attr, K) \in ByteFree
    BY <2>1, <2>2, AtTyped DEF KeyValues, ByteFree
  <2> QED BY <1>2, <2>3, <2>4, ByteFreeFacts DEF OrEmpty
<1>3. CASE ~Accepted(attr)
  <2>1. <<>> \in ByteFree
    BY EmptySeq DEF ByteFree
  <2> QED BY <1>3, <2>1 DEF convert_otel_attrs, OrEmpty
<1> QED BY <1>2, <1>3

LEMMA ReachedFacts ==
    ASSUME NEW S, NEW s \in Seq(S)
    PROVE  /\ Reached(s) \in Nat /\ Reached(s) <= Len(s)
           /\ \A i \in 1..Reached(s) : i < Reached(s) => Accepted(s[i].attributes)
           /\ Reached(s) < Len(s) => /\ Reached(s) \in 1..Len(s)
                                     /\ ~Accepted(s[Reached(s)].attributes)
<1> DEFINE refused == {i \in DOMAIN s : ~Accepted(s[i].attributes)}
<1>1. Len(s) \in Nat /\ DOMAIN s = 1..Len(s)
  BY SeqFacts
<1>2. Reached(s) = IF refused = {} THEN Len(s)
                   ELSE CHOOSE i \in refused : \A j \in refused : i <= j
  BY DEF Reached
<1>3. CASE refused = {}
  <2>1. Reached(s) = Len(s) /\ \A i \in 1..Len(s) : Accepted(s[i].attributes)
    BY <1>1, <1>2, <1>3
  <2> QED BY <1>1, <2>1
<1>4. CASE refused # {}
  <2>1. refused \in SUBSET (1..Len(s))
    BY <1>1
  <2>2. \A i \in 1..Len(s) : i \in refused <=> ~Accepted(s[i].attributes)
    BY <1>1
  <2> HIDE DEF refused
  <2>3. \E i \in refused : \A j \in refused : i <= j
    BY <1>1, <1>4, <2>1, SomeIsFirst
  <2>4. Reached(s) \in refused /\ \A j \in refused : Reached(s) <= j
    BY <1>2, <1>4, <2>3
  <2>5. Reached(s) \in 1..Len(s)
    BY <2>1, <2>4
  <2>6. ASSUME NEW i \in 1..Reached(s), i < Reached(s) PROVE Accepted(s[i].attributes)
    BY <1>1, <2>2, <2>4, <2>5, <2>6
  <2> QED BY <1>1, <2>2, <2>4, <2>5, <2>6
<1> QED BY <1>3, <1>4

LEMMA IdsSent ==
    ASSUME NEW id \in ctrace_id \cup {NULL}
    PROVE  /\ BytesField(id) \in Seq(Byte)
           /\ DecodedId(BytesField(id)) = id
<1>1. <<>> \in Seq(Byte)
  BY EmptySeq
<1> QED BY <1>1 DEF BytesField, DecodedId, ctrace_id

LEMMA IdsReceived ==
    ASSUME NEW id \in Seq(Byte)
    PROVE  DecodedId(id) \in ctrace_id \cup {NULL}
BY DEF DecodedId, ctrace_id

LEMMA StringsSent ==
    ASSUME NEW s \in String
    PROVE  StringField(s) \in StringValue /\ StringField(s) \in String /\ StringField(s) # NULL
BY NullIsNoString DEF String, StringField, StringValue

-----------------------------------------------------------------------------
(* OpenTelemetry: what the encoder makes is a message.                     *)

LEMMA EventsSent ==
    ASSUME NEW s \in Seq(Event(Nat))
    PROVE  LET m == [i \in DOMAIN s |-> set_event(s[i])]
           IN  m \in Seq(EventMessage(Nat)) /\ Len(m) = Len(s)
<1>1. PICK m : m = [i \in DOMAIN s |-> set_event(s[i])]
  OBVIOUS
<1>2. ASSUME NEW i \in DOMAIN s
      PROVE  m[i] \in EventMessage(Nat)
  <2>1. PICK e \in Event(Nat) : e = s[i]
    BY SeqFacts
  <2>2. /\ e.name \in String /\ e.time_unix_nano \in Nat
        /\ e.attr \in AttributeSet \cup {NULL} /\ e.dropped_attr_count \in Nat
    BY DEF Event
  <2>3. PICK name, attr : name = StringField(e.name) /\ attr = set_attributes_from_ctr(e.attr)
    OBVIOUS
  <2>4. name \in StringValue /\ attr \in KeyValues
    BY <2>2, <2>3, StringsSent, AttributesSent
  <2>5. m[i] = [name |-> name, time_unix_nano |-> e.time_unix_nano, attributes |-> attr,
                dropped_attributes_count |-> e.dropped_attr_count]
    BY <1>1, <2>1, <2>3 DEF set_event
  <2> QED BY <2>2, <2>4, <2>5 DEF EventMessage
<1>3. DOMAIN m = DOMAIN s /\ m = [i \in DOMAIN m |-> m[i]]
  BY <1>1
<1> QED BY <1>1, <1>2, <1>3, IsSequence

LEMMA LinksSent ==
    ASSUME NEW s \in Seq(Link(Nat))
    PROVE  LET m == [i \in DOMAIN s |-> set_link(s[i])]
           IN  m \in Seq(LinkMessage(Nat)) /\ Len(m) = Len(s)
<1>1. PICK m : m = [i \in DOMAIN s |-> set_link(s[i])]
  OBVIOUS
<1>2. ASSUME NEW i \in DOMAIN s
      PROVE  m[i] \in LinkMessage(Nat)
  <2>1. PICK l \in Link(Nat) : l = s[i]
    BY SeqFacts
  <2>2. /\ l.trace_id \in ctrace_id \cup {NULL} /\ l.span_id \in ctrace_id \cup {NULL}
        /\ l.trace_state \in String
        /\ l.attr \in AttributeSet \cup {NULL} /\ l.dropped_attr_count \in Nat
    BY DEF Link
  <2>3. PICK trace, span, state, attr :
           /\ trace = BytesField(l.trace_id) /\ span = BytesField(l.span_id)
           /\ state = StringField(l.trace_state) /\ attr = set_attributes_from_ctr(l.attr)
    OBVIOUS
  <2>4. trace \in Seq(Byte) /\ span \in Seq(Byte) /\ state \in StringValue /\ attr \in KeyValues
    BY <2>2, <2>3, IdsSent, StringsSent, AttributesSent
  <2>5. m[i] = [trace_id |-> trace, span_id |-> span, trace_state |-> state,
                attributes |-> attr, dropped_attributes_count |-> l.dropped_attr_count]
    BY <1>1, <2>1, <2>3 DEF set_link
  <2> QED BY <2>2, <2>4, <2>5 DEF LinkMessage
<1>3. DOMAIN m = DOMAIN s /\ m = [i \in DOMAIN m |-> m[i]]
  BY <1>1
<1> QED BY <1>1, <1>2, <1>3, IsSequence

LEMMA SpanSent ==
    ASSUME NEW p \in Span(Nat)
    PROVE  set_span(p) \in SpanMessage(Nat)
<1>1. PICK name, trace, span, parent, kind, state, message, attr, events, links :
         /\ name = StringField(p.name)
         /\ trace = BytesField(p.trace_id) /\ span = BytesField(p.span_id)
         /\ parent = BytesField(p.parent_span_id)
         /\ kind = set_kind(p.kind) /\ state = StringField(p.trace_state)
         /\ message = StringField(p.status.message)
         /\ attr = set_attributes_from_ctr(p.attr)
         /\ events = [i \in DOMAIN p.events |-> set_event(p.events[i])]
         /\ links = [i \in DOMAIN p.links |-> set_link(p.links[i])]
  OBVIOUS
<1>2. /\ name \in StringValue /\ state \in StringValue
      /\ trace \in Seq(Byte) /\ span \in Seq(Byte) /\ parent \in Seq(Byte)
  BY <1>1, SpanFields, StringsSent, IdsSent
<1>3. kind \in Int
  BY <1>1, SpanFields DEF set_kind, CTRACE_SPAN_UNSPECIFIED
<1>4. p.status.code \in Int /\ p.status.message \in String
  BY SpanFields
<1>5. message \in StringValue
  BY <1>1, <1>4, StringsSent
<1>6. attr \in KeyValues
  BY <1>1, SpanFields, AttributesSent
<1>7. events \in Seq(EventMessage(Nat)) /\ links \in Seq(LinkMessage(Nat))
  BY <1>1, SpanFields, EventsSent, LinksSent
<1>8. [code |-> p.status.code, message |-> message] \in StatusMessage
  BY <1>4, <1>5 DEF StatusMessage
<1>9. set_span(p) =
        [name |-> name, trace_id |-> trace, span_id |-> span, parent_span_id |-> parent,
         kind |-> kind, trace_state |-> state,
         start_time_unix_nano     |-> p.start_time_unix_nano,
         end_time_unix_nano       |-> p.end_time_unix_nano,
         status                   |-> [code |-> p.status.code, message |-> message],
         attributes               |-> attr,
         dropped_attributes_count |-> p.dropped_attr_count,
         events                   |-> events,
         dropped_events_count     |-> p.dropped_events_count,
         links                    |-> links,
         dropped_links_count      |-> 0]
  BY <1>1 DEF set_span
<1>10. /\ p.start_time_unix_nano \in Nat /\ p.end_time_unix_nano \in Nat
       /\ p.dropped_attr_count \in Nat /\ p.dropped_events_count \in Nat
  BY SpanFields
<1> QED BY <1>2, <1>3, <1>6, <1>7, <1>8, <1>9, <1>10 DEF SpanMessage

LEMMA ScopeSent ==
    ASSUME NEW scope \in InstrumentationScope(Nat)
    PROVE  /\ set_instrumentation_scope(scope) \in ScopeMessage(Nat)
           /\ set_instrumentation_scope(scope) # NULL
<1>1. /\ scope.name \in String /\ scope.version \in String
      /\ scope.attr \in AttributeSet \cup {NULL} /\ scope.dropped_attr_count \in Nat
  BY DEF InstrumentationScope
<1>2. PICK name, version, attr :
        /\ name = StringField(scope.name) /\ version = StringField(scope.version)
        /\ attr = set_attributes_from_ctr(scope.attr)
  OBVIOUS
<1>3. name \in StringValue /\ version \in StringValue /\ attr \in KeyValues
  BY <1>1, <1>2, StringsSent, AttributesSent
<1>4. set_instrumentation_scope(scope) =
        [name |-> name, version |-> version, attributes |-> attr,
         dropped_attributes_count |-> scope.dropped_attr_count]
  BY <1>2 DEF set_instrumentation_scope
<1>5. set_instrumentation_scope(scope) \in ScopeMessage(Nat)
  BY <1>1, <1>3, <1>4 DEF ScopeMessage
<1> QED BY <1>5, NullIsNoMessage

LEMMA ScopeSpanSent ==
    ASSUME NEW s \in ScopeSpan(Nat)
    PROVE  set_scope_span(s) \in ScopeSpanMessage(Nat)
<1>1. /\ s.instrumentation_scope \in InstrumentationScope(Nat) \cup {NULL}
      /\ s.schema_url \in String /\ s.spans \in Seq(Span(Nat))
  BY DEF ScopeSpan
<1>2. PICK scope, url, spans :
        /\ scope = IF s.instrumentation_scope = NULL THEN NULL
                   ELSE set_instrumentation_scope(s.instrumentation_scope)
        /\ url = StringField(s.schema_url)
        /\ spans = [i \in DOMAIN s.spans |-> set_span(s.spans[i])]
  OBVIOUS
<1>3. scope \in ScopeMessage(Nat) \cup {NULL}
  BY <1>1, <1>2, ScopeSent
<1>4. url \in StringValue
  BY <1>1, <1>2, StringsSent
<1>5. \A i \in DOMAIN s.spans : spans[i] \in SpanMessage(Nat)
  <2> SUFFICES ASSUME NEW i \in DOMAIN s.spans
               PROVE  spans[i] \in SpanMessage(Nat)
    OBVIOUS
  <2>1. s.spans[i] \in Span(Nat) /\ spans[i] = set_span(s.spans[i])
    BY <1>1, <1>2, SeqFacts
  <2> QED BY <2>1, SpanSent
<1>6. DOMAIN spans = DOMAIN s.spans /\ spans = [i \in DOMAIN spans |-> spans[i]]
  BY <1>2
<1>7. spans \in Seq(SpanMessage(Nat))
  BY <1>1, <1>5, <1>6, IsSequence
<1>8. set_scope_span(s) = [scope |-> scope, schema_url |-> url, spans |-> spans]
  BY <1>2 DEF set_scope_span
<1> QED BY <1>3, <1>4, <1>7, <1>8 DEF ScopeSpanMessage

LEMMA ResourceSpanSent ==
    ASSUME NEW r \in ResourceSpan(Nat)
    PROVE  /\ set_resource_span(r) \in ResourceSpanMessage(Nat)
           /\ set_resource_span(r).resource # NULL
<1>1. /\ r.resource.attr \in AttributeSet /\ r.resource.dropped_attr_count \in Nat
      /\ r.schema_url \in String /\ r.scope_spans \in Seq(ScopeSpan(Nat))
  BY DEF ResourceSpan
<1>2. PICK attr, url, scope_spans :
        /\ attr = set_attributes_from_ctr(r.resource.attr)
        /\ url = StringField(r.schema_url)
        /\ scope_spans = [i \in DOMAIN r.scope_spans |-> set_scope_span(r.scope_spans[i])]
  OBVIOUS
<1>3. attr \in KeyValues /\ url \in StringValue
  BY <1>1, <1>2, AttributesSent, StringsSent
<1>4. \A i \in DOMAIN r.scope_spans : scope_spans[i] \in ScopeSpanMessage(Nat)
  <2> SUFFICES ASSUME NEW i \in DOMAIN r.scope_spans
               PROVE  scope_spans[i] \in ScopeSpanMessage(Nat)
    OBVIOUS
  <2>1. /\ r.scope_spans[i] \in ScopeSpan(Nat)
        /\ scope_spans[i] = set_scope_span(r.scope_spans[i])
    BY <1>1, <1>2, SeqFacts
  <2> QED BY <2>1, ScopeSpanSent
<1>5. /\ DOMAIN scope_spans = DOMAIN r.scope_spans
      /\ scope_spans = [i \in DOMAIN scope_spans |-> scope_spans[i]]
  BY <1>2
<1>6. scope_spans \in Seq(ScopeSpanMessage(Nat))
  BY <1>1, <1>4, <1>5, IsSequence
<1>7. PICK resource : resource = [attributes |-> attr,
                                  dropped_attributes_count |-> r.resource.dropped_attr_count]
  OBVIOUS
<1>8. resource \in ResourceMessage(Nat)
  BY <1>1, <1>3, <1>7 DEF ResourceMessage
<1>9. set_resource_span(r) =
        [resource |-> resource, schema_url |-> url, scope_spans |-> scope_spans]
  BY <1>2, <1>7 DEF set_resource_span
<1>10. resource # NULL
  BY <1>8, NullIsNoMessage
<1> QED BY <1>3, <1>6, <1>8, <1>9, <1>10 DEF ResourceSpanMessage

LEMMA ContextSent ==
    ASSUME NEW ctx \in Context(Nat)
    PROVE  /\ OtlpEncode(ctx) \in OtlpMessage(Nat)
           /\ Len(OtlpEncode(ctx)) = Len(ctx)
           /\ \A i \in DOMAIN ctx : OtlpEncode(ctx)[i] = set_resource_span(ctx[i])
           /\ \A i \in DOMAIN ctx : OtlpEncode(ctx)[i].resource # NULL
<1>1. PICK m : m = OtlpEncode(ctx)
  OBVIOUS
<1>2. ctx \in Seq(ResourceSpan(Nat))
  BY DEF Context
<1>3. /\ DOMAIN m = DOMAIN ctx /\ m = [i \in DOMAIN m |-> m[i]]
      /\ \A i \in DOMAIN ctx : m[i] = set_resource_span(ctx[i])
  BY <1>1 DEF OtlpEncode
<1>4. \A i \in DOMAIN ctx : m[i] \in ResourceSpanMessage(Nat) /\ m[i].resource # NULL
  <2> SUFFICES ASSUME NEW i \in DOMAIN ctx
               PROVE  m[i] \in ResourceSpanMessage(Nat) /\ m[i].resource # NULL
    OBVIOUS
  <2>1. ctx[i] \in ResourceSpan(Nat) /\ m[i] = set_resource_span(ctx[i])
    BY <1>2, <1>3, SeqFacts
  <2> QED BY <2>1, ResourceSpanSent
<1>5. m \in Seq(ResourceSpanMessage(Nat)) /\ Len(m) = Len(ctx)
  BY <1>2, <1>3, <1>4, IsSequence
<1> QED BY <1>1, <1>3, <1>4, <1>5 DEF OtlpMessage

-----------------------------------------------------------------------------
(* OpenTelemetry: what the decoder makes of any message, its own or that   *)
(* of another program, is a context of a special form.                     *)

ArrivedEvent ==
    [name : StringValue, time_unix_nano : Nat \ {0}, attr : ByteFree, dropped_attr_count : Nat]

ArrivedLink ==
    [trace_id : ctrace_id \cup {NULL}, span_id : ctrace_id \cup {NULL}, trace_state : {NULL},
     attr : ByteFree \cup {NULL}, dropped_attr_count : Nat, flags : {0}]

ArrivedSpan ==
    [trace_id : ctrace_id \cup {NULL}, span_id : ctrace_id \cup {NULL},
     parent_span_id : ctrace_id \cup {NULL}, trace_state : {NULL} \cup Text,
     name : StringValue, schema_url : {NULL}, kind : SpanKind, flags : {0},
     start_time_unix_nano : Nat, end_time_unix_nano : Nat, attr : ByteFree,
     dropped_attr_count : Nat, events : Seq(ArrivedEvent), dropped_events_count : Nat,
     links : Seq(ArrivedLink), dropped_links_count : Nat,
     status : [code : Int, message : String]]

ArrivedScope ==
    [name : StringValue, version : StringValue, attr : ByteFree, dropped_attr_count : Nat]

ArrivedScopeSpan ==
    [instrumentation_scope : ArrivedScope \cup {NULL}, schema_url : StringValue,
     spans : Seq(ArrivedSpan)]

ArrivedResourceSpan ==
    [resource : [attr : ByteFree, dropped_attr_count : Nat], schema_url : StringValue,
     scope_spans : Seq(ArrivedScopeSpan)]

Arrived == Seq(ArrivedResourceSpan)

LEMMA EventReceived ==
    ASSUME NEW e \in EventMessage(Nat), NEW now \in Nat \ {0}
    PROVE  decode_event(e, now) \in ArrivedEvent
<1>1. /\ e.name \in StringValue /\ e.time_unix_nano \in Nat /\ e.attributes \in KeyValues
      /\ e.dropped_attributes_count \in Nat
  BY DEF EventMessage
<1>2. PICK time, attr, count :
        /\ time = IF e.time_unix_nano = 0 THEN now ELSE e.time_unix_nano
        /\ attr = OrEmpty(convert_otel_attrs(e.attributes))
        /\ count = IF Accepted(e.attributes) THEN e.dropped_attributes_count ELSE 0
  OBVIOUS
<1>3. time \in Nat \ {0} /\ count \in Nat
  BY <1>1, <1>2
<1>4. attr \in ByteFree
  BY <1>1, <1>2, AttributesReceived
<1>5. decode_event(e, now) = [name |-> e.name, time_unix_nano |-> time, attr |-> attr,
                              dropped_attr_count |-> count]
  BY <1>2 DEF decode_event
<1> QED BY <1>1, <1>3, <1>4, <1>5 DEF ArrivedEvent

LEMMA LinkReceived ==
    ASSUME NEW l \in LinkMessage(Nat)
    PROVE  decode_link(l) \in ArrivedLink
<1>1. /\ l.trace_id \in Seq(Byte) /\ l.span_id \in Seq(Byte) /\ l.attributes \in KeyValues
      /\ l.dropped_attributes_count \in Nat
  BY DEF LinkMessage
<1>2. PICK trace, span, attr, count :
        /\ trace = DecodedId(l.trace_id) /\ span = DecodedId(l.span_id)
        /\ attr = convert_otel_attrs(l.attributes)
        /\ count = IF Accepted(l.attributes) THEN l.dropped_attributes_count ELSE 0
  OBVIOUS
<1>3. trace \in ctrace_id \cup {NULL} /\ span \in ctrace_id \cup {NULL} /\ count \in Nat
  BY <1>1, <1>2, IdsReceived
<1>4. attr \in ByteFree \cup {NULL}
  BY <1>1, <1>2, AttributesReceived
<1>5. decode_link(l) = [trace_id |-> trace, span_id |-> span, trace_state |-> NULL,
                        attr |-> attr, dropped_attr_count |-> count, flags |-> 0]
  BY <1>2 DEF decode_link
<1> QED BY <1>3, <1>4, <1>5 DEF ArrivedLink

LEMMA EventsReceived ==
    ASSUME NEW s \in Seq(EventMessage(Nat)), NEW now \in Nat \ {0}
    PROVE  LET d == [i \in 1..Reached(s) |-> decode_event(s[i], now)]
           IN  d \in Seq(ArrivedEvent) /\ Len(d) = Reached(s)
<1>1. PICK d : d = [i \in 1..Reached(s) |-> decode_event(s[i], now)]
  OBVIOUS
<1>2. Reached(s) \in Nat /\ Reached(s) <= Len(s) /\ Len(s) \in Nat /\ DOMAIN s = 1..Len(s)
  BY ReachedFacts, SeqFacts
<1>3. ASSUME NEW i \in 1..Reached(s)
      PROVE  d[i] \in ArrivedEvent
  <2>1. i \in DOMAIN s
    BY <1>2
  <2>2. s[i] \in EventMessage(Nat) /\ d[i] = decode_event(s[i], now)
    BY <1>1, <2>1, SeqFacts
  <2> QED BY <2>2, EventReceived
<1>4. d = [i \in 1..Reached(s) |-> d[i]]
  BY <1>1
<1> QED BY <1>1, <1>2, <1>3, <1>4, IntervalSequence

LEMMA LinksReceived ==
    ASSUME NEW s \in Seq(LinkMessage(Nat))
    PROVE  LET d == [i \in 1..Reached(s) |-> decode_link(s[i])]
           IN  d \in Seq(ArrivedLink) /\ Len(d) = Reached(s)
<1>1. PICK d : d = [i \in 1..Reached(s) |-> decode_link(s[i])]
  OBVIOUS
<1>2. Reached(s) \in Nat /\ Reached(s) <= Len(s) /\ Len(s) \in Nat /\ DOMAIN s = 1..Len(s)
  BY ReachedFacts, SeqFacts
<1>3. ASSUME NEW i \in 1..Reached(s)
      PROVE  d[i] \in ArrivedLink
  <2>1. i \in DOMAIN s
    BY <1>2
  <2>2. s[i] \in LinkMessage(Nat) /\ d[i] = decode_link(s[i])
    BY <1>1, <2>1, SeqFacts
  <2> QED BY <2>2, LinkReceived
<1>4. d = [i \in 1..Reached(s) |-> d[i]]
  BY <1>1
<1> QED BY <1>1, <1>2, <1>3, <1>4, IntervalSequence

LEMMA SpanReceived ==
    ASSUME NEW p \in SpanMessage(Nat), NEW now \in Nat \ {0}
    PROVE  decode_span(p, now) \in ArrivedSpan
<1>1. /\ p.name \in StringValue
      /\ p.trace_id \in Seq(Byte) /\ p.span_id \in Seq(Byte) /\ p.parent_span_id \in Seq(Byte)
      /\ p.kind \in Int /\ p.trace_state \in StringValue
      /\ p.start_time_unix_nano \in Nat /\ p.end_time_unix_nano \in Nat
      /\ p.status \in StatusMessage \cup {NULL} /\ p.attributes \in KeyValues
      /\ p.dropped_attributes_count \in Nat
      /\ p.events \in Seq(EventMessage(Nat)) /\ p.dropped_events_count \in Nat
      /\ p.links \in Seq(LinkMessage(Nat)) /\ p.dropped_links_count \in Nat
  BY DEF SpanMessage
<1>2. PICK trace, span, parent, state, kind, status, attr, events, links :
        /\ trace = DecodedId(p.trace_id) /\ span = DecodedId(p.span_id)
        /\ parent = DecodedId(p.parent_span_id)
        /\ state = IF p.trace_state = "" THEN NULL ELSE p.trace_state
        /\ kind = IF p.kind \in SpanKind THEN p.kind ELSE CTRACE_SPAN_INTERNAL
        /\ status = IF p.status = NULL THEN [code |-> 0, message |-> NULL] ELSE p.status
        /\ attr = OrEmpty(convert_otel_attrs(p.attributes))
        /\ events = [i \in 1..Reached(p.events) |-> decode_event(p.events[i], now)]
        /\ links = [i \in 1..Reached(p.links) |-> decode_link(p.links[i])]
  OBVIOUS
<1>3. /\ trace \in ctrace_id \cup {NULL} /\ span \in ctrace_id \cup {NULL}
      /\ parent \in ctrace_id \cup {NULL}
  BY <1>1, <1>2, IdsReceived
<1>4. state \in {NULL} \cup Text
  BY <1>1, <1>2 DEF StringValue
<1>5. kind \in SpanKind
  <2>1. CTRACE_SPAN_INTERNAL \in SpanKind
    BY DEF SpanKind, CTRACE_SPAN_INTERNAL, CTRACE_SPAN_UNSPECIFIED, CTRACE_SPAN_CONSUMER
  <2> QED BY <1>2, <2>1
<1>6. status \in [code : Int, message : String]
  <2>1. CASE p.status = NULL
    <3>1. status = [code |-> 0, message |-> NULL]
      BY <1>2, <2>1
    <3>2. 0 \in Int /\ NULL \in String
      BY DEF String
    <3> QED BY <3>1, <3>2
  <2>2. CASE p.status # NULL
    BY <1>1, <1>2, <2>2 DEF String, StatusMessage, StringValue
  <2> QED BY <2>1, <2>2
<1>7. attr \in ByteFree
  BY <1>1, <1>2, AttributesReceived
<1>8. events \in Seq(ArrivedEvent) /\ links \in Seq(ArrivedLink)
  BY <1>1, <1>2, EventsReceived, LinksReceived
<1>9. decode_span(p, now) =
        [name                 |-> p.name,
         trace_id             |-> trace,
         span_id              |-> span,
         parent_span_id       |-> parent,
         trace_state          |-> state,
         schema_url           |-> NULL,
         kind                 |-> kind,
         flags                |-> 0,
         start_time_unix_nano |-> p.start_time_unix_nano,
         end_time_unix_nano   |-> p.end_time_unix_nano,
         status               |-> status,
         attr                 |-> attr,
         dropped_attr_count   |-> p.dropped_attributes_count,
         events               |-> events,
         dropped_events_count |-> p.dropped_events_count,
         links                |-> links,
         dropped_links_count  |-> p.dropped_links_count]
  BY <1>2 DEF decode_span
<1> QED BY <1>1, <1>3, <1>4, <1>5, <1>6, <1>7, <1>8, <1>9 DEF ArrivedSpan

LEMMA ScopeReceived ==
    ASSUME NEW scope \in ScopeMessage(Nat) \cup {NULL}
    PROVE  decode_scope(scope) \in ArrivedScope \cup {NULL}
<1>1. CASE scope = NULL \/ ~Accepted(scope.attributes)
  BY <1>1 DEF decode_scope
<1>2. CASE scope # NULL /\ Accepted(scope.attributes)
  <2>1. /\ scope.name \in StringValue /\ scope.version \in StringValue
        /\ scope.attributes \in KeyValues /\ scope.dropped_attributes_count \in Nat
    BY <1>2 DEF ScopeMessage
  <2>2. PICK attr : attr = convert_otel_attrs(scope.attributes)
    OBVIOUS
  <2>3. attr \in ByteFree
    BY <1>2, <2>1, <2>2, AttributesReceived
  <2>4. decode_scope(scope) = [name |-> scope.name, version |-> scope.version, attr |-> attr,
                               dropped_attr_count |-> scope.dropped_attributes_count]
    BY <1>2, <2>2 DEF decode_scope
  <2> QED BY <2>1, <2>3, <2>4 DEF ArrivedScope
<1> QED BY <1>1, <1>2

LEMMA ScopeSpanReceived ==
    ASSUME NEW s \in ScopeSpanMessage(Nat), NEW now \in Nat \ {0}
    PROVE  decode_scope_span(s, now) \in ArrivedScopeSpan
<1>1. /\ s.scope \in ScopeMessage(Nat) \cup {NULL} /\ s.schema_url \in StringValue
      /\ s.spans \in Seq(SpanMessage(Nat))
  BY DEF ScopeSpanMessage
<1>2. PICK scope, spans :
        /\ scope = decode_scope(s.scope)
        /\ spans = [i \in DOMAIN s.spans |-> decode_span(s.spans[i], now)]
  OBVIOUS
<1>3. scope \in ArrivedScope \cup {NULL}
  BY <1>1, <1>2, ScopeReceived
<1>4. \A i \in DOMAIN s.spans : spans[i] \in ArrivedSpan
  <2> SUFFICES ASSUME NEW i \in DOMAIN s.spans
               PROVE  spans[i] \in ArrivedSpan
    OBVIOUS
  <2>1. s.spans[i] \in SpanMessage(Nat) /\ spans[i] = decode_span(s.spans[i], now)
    BY <1>1, <1>2, SeqFacts
  <2> QED BY <2>1, SpanReceived
<1>5. DOMAIN spans = DOMAIN s.spans /\ spans = [i \in DOMAIN spans |-> spans[i]]
  BY <1>2
<1>6. spans \in Seq(ArrivedSpan)
  BY <1>1, <1>4, <1>5, IsSequence
<1>7. decode_scope_span(s, now) =
        [instrumentation_scope |-> scope, schema_url |-> s.schema_url, spans |-> spans]
  BY <1>2 DEF decode_scope_span
<1> QED BY <1>1, <1>3, <1>6, <1>7 DEF ArrivedScopeSpan

LEMMA ResourceSpanReceived ==
    ASSUME NEW r \in ResourceSpanMessage(Nat), r.resource # NULL, NEW now \in Nat \ {0}
    PROVE  decode_resource_span(r, now) \in ArrivedResourceSpan
<1>1. /\ r.resource \in ResourceMessage(Nat) /\ r.schema_url \in StringValue
      /\ r.scope_spans \in Seq(ScopeSpanMessage(Nat))
  BY DEF ResourceSpanMessage
<1>2. /\ r.resource.attributes \in KeyValues
      /\ r.resource.dropped_attributes_count \in Nat
  BY <1>1 DEF ResourceMessage
<1>3. PICK attr, scope_spans :
        /\ attr = OrEmpty(convert_otel_attrs(r.resource.attributes))
        /\ scope_spans = [i \in DOMAIN r.scope_spans |->
                             decode_scope_span(r.scope_spans[i], now)]
  OBVIOUS
<1>4. attr \in ByteFree
  BY <1>2, <1>3, AttributesReceived
<1>5. \A i \in DOMAIN r.scope_spans : scope_spans[i] \in ArrivedScopeSpan
  <2> SUFFICES ASSUME NEW i \in DOMAIN r.scope_spans
               PROVE  scope_spans[i] \in ArrivedScopeSpan
    OBVIOUS
  <2>1. /\ r.scope_spans[i] \in ScopeSpanMessage(Nat)
        /\ scope_spans[i] = decode_scope_span(r.scope_spans[i], now)
    BY <1>1, <1>3, SeqFacts
  <2> QED BY <2>1, ScopeSpanReceived
<1>6. /\ DOMAIN scope_spans = DOMAIN r.scope_spans
      /\ scope_spans = [i \in DOMAIN scope_spans |-> scope_spans[i]]
  BY <1>3
<1>7. scope_spans \in Seq(ArrivedScopeSpan)
  BY <1>1, <1>5, <1>6, IsSequence
<1>8. decode_resource_span(r, now) =
        [resource    |-> [attr |-> attr,
                          dropped_attr_count |-> r.resource.dropped_attributes_count],
         schema_url  |-> r.schema_url,
         scope_spans |-> scope_spans]
  BY <1>3 DEF decode_resource_span
<1> QED BY <1>1, <1>2, <1>4, <1>7, <1>8 DEF ArrivedResourceSpan

LEMMA ContextReceived ==
    ASSUME NEW m \in OtlpMessage(Nat), NEW now \in Nat \ {0}
    PROVE  OtlpDecode(m, now) \in Arrived \cup {NULL}
<1>1. CASE m = <<>> \/ \E i \in DOMAIN m : m[i].resource = NULL
  BY <1>1 DEF OtlpDecode
<1>2. CASE m # <<>> /\ \A i \in DOMAIN m : m[i].resource # NULL
  <2>1. PICK d : d = [i \in DOMAIN m |-> decode_resource_span(m[i], now)]
    OBVIOUS
  <2>2. \A i \in DOMAIN m : d[i] \in ArrivedResourceSpan
    <3> SUFFICES ASSUME NEW i \in DOMAIN m
                 PROVE  d[i] \in ArrivedResourceSpan
      OBVIOUS
    <3>1. m[i] \in ResourceSpanMessage(Nat) /\ d[i] = decode_resource_span(m[i], now)
      BY <2>1, SeqFacts DEF OtlpMessage
    <3> QED BY <1>2, <3>1, ResourceSpanReceived
  <2>3. DOMAIN d = DOMAIN m /\ d = [i \in DOMAIN d |-> d[i]]
    BY <2>1
  <2>4. d \in Arrived
    BY <2>2, <2>3, IsSequence DEF Arrived, OtlpMessage
  <2>5. OtlpDecode(m, now) = d
    BY <1>2, <2>1 DEF OtlpDecode
  <2> QED BY <2>4, <2>5
<1> QED BY <1>1, <1>2

LEMMA WiderSeq ==
    ASSUME NEW S, NEW T, \A x \in S : x \in T, NEW s \in Seq(S)
    PROVE  s \in Seq(T)
<1>1. S \subseteq T
  OBVIOUS
<1> QED BY <1>1, SeqMonotonic

LEMMA ArrivedEventIsEvent ==
    ASSUME NEW e \in ArrivedEvent
    PROVE  e \in Event(Nat)
<1>1. /\ e = [name |-> e.name, time_unix_nano |-> e.time_unix_nano, attr |-> e.attr,
              dropped_attr_count |-> e.dropped_attr_count]
      /\ e.name \in StringValue /\ e.time_unix_nano \in Nat /\ e.attr \in ByteFree
      /\ e.dropped_attr_count \in Nat
  BY DEF ArrivedEvent
<1>2. e.name \in String /\ e.attr \in AttributeSet
  BY <1>1, ByteFreeFacts DEF String, StringValue
<1> QED BY <1>1, <1>2 DEF Event

LEMMA ArrivedLinkIsLink ==
    ASSUME NEW l \in ArrivedLink
    PROVE  l \in Link(Nat)
<1>1. /\ l = [trace_id |-> l.trace_id, span_id |-> l.span_id, trace_state |-> l.trace_state,
              attr |-> l.attr, dropped_attr_count |-> l.dropped_attr_count, flags |-> l.flags]
      /\ l.trace_id \in ctrace_id \cup {NULL} /\ l.span_id \in ctrace_id \cup {NULL}
      /\ l.trace_state = NULL /\ l.attr \in ByteFree \cup {NULL}
      /\ l.dropped_attr_count \in Nat /\ l.flags = 0
  BY DEF ArrivedLink
<1>2. l.trace_state \in String /\ l.attr \in AttributeSet \cup {NULL} /\ l.flags \in Nat
  BY <1>1, ByteFreeFacts DEF String
<1> QED BY <1>1, <1>2 DEF Link

LEMMA ArrivedSpanFields ==
    ASSUME NEW p \in ArrivedSpan
    PROVE  /\ p = [trace_id |-> p.trace_id, span_id |-> p.span_id,
                   parent_span_id |-> p.parent_span_id, trace_state |-> p.trace_state,
                   name |-> p.name, schema_url |-> p.schema_url, kind |-> p.kind,
                   flags |-> p.flags, start_time_unix_nano |-> p.start_time_unix_nano,
                   end_time_unix_nano |-> p.end_time_unix_nano, attr |-> p.attr,
                   dropped_attr_count |-> p.dropped_attr_count, events |-> p.events,
                   dropped_events_count |-> p.dropped_events_count, links |-> p.links,
                   dropped_links_count |-> p.dropped_links_count, status |-> p.status]
           /\ p.trace_id \in ctrace_id \cup {NULL} /\ p.span_id \in ctrace_id \cup {NULL}
           /\ p.parent_span_id \in ctrace_id \cup {NULL}
           /\ p.trace_state \in {NULL} \cup Text /\ p.name \in StringValue
           /\ p.schema_url = NULL /\ p.kind \in SpanKind /\ p.flags = 0
           /\ p.start_time_unix_nano \in Nat /\ p.end_time_unix_nano \in Nat
           /\ p.attr \in ByteFree /\ p.dropped_attr_count \in Nat
           /\ p.events \in Seq(ArrivedEvent) /\ p.dropped_events_count \in Nat
           /\ p.links \in Seq(ArrivedLink) /\ p.dropped_links_count \in Nat
           /\ p.status \in [code : Int, message : String]
BY DEF ArrivedSpan

LEMMA ArrivedSpanIsSpan ==
    ASSUME NEW p \in ArrivedSpan
    PROVE  p \in Span(Nat)
<1>1. p.trace_state \in String /\ p.name \in String /\ p.schema_url \in String
  BY ArrivedSpanFields DEF String, StringValue
<1>2. p.kind \in Int /\ p.flags \in Nat
  BY ArrivedSpanFields DEF SpanKind, CTRACE_SPAN_UNSPECIFIED, CTRACE_SPAN_CONSUMER
<1>3. p.attr \in AttributeSet
  BY ArrivedSpanFields, ByteFreeFacts
<1>4. p.events \in Seq(Event(Nat))
  BY ArrivedSpanFields, ArrivedEventIsEvent, WiderSeq
<1>5. p.links \in Seq(Link(Nat))
  BY ArrivedSpanFields, ArrivedLinkIsLink, WiderSeq
<1> QED BY ArrivedSpanFields, <1>1, <1>2, <1>3, <1>4, <1>5 DEF Span

LEMMA ArrivedScopeIsScope ==
    ASSUME NEW scope \in ArrivedScope
    PROVE  scope \in InstrumentationScope(Nat)
<1>1. /\ scope = [name |-> scope.name, version |-> scope.version, attr |-> scope.attr,
                  dropped_attr_count |-> scope.dropped_attr_count]
      /\ scope.name \in StringValue /\ scope.version \in StringValue
      /\ scope.attr \in ByteFree /\ scope.dropped_attr_count \in Nat
  BY DEF ArrivedScope
<1>2. /\ scope.name \in String /\ scope.version \in String
      /\ scope.attr \in AttributeSet \cup {NULL}
  BY <1>1, ByteFreeFacts DEF String, StringValue
<1> QED BY <1>1, <1>2 DEF InstrumentationScope

LEMMA ArrivedScopeSpanIsScopeSpan ==
    ASSUME NEW s \in ArrivedScopeSpan
    PROVE  s \in ScopeSpan(Nat)
<1>1. /\ s = [instrumentation_scope |-> s.instrumentation_scope, schema_url |-> s.schema_url,
              spans |-> s.spans]
      /\ s.instrumentation_scope \in ArrivedScope \cup {NULL}
      /\ s.schema_url \in StringValue /\ s.spans \in Seq(ArrivedSpan)
  BY DEF ArrivedScopeSpan
<1>2. s.schema_url \in String
  BY <1>1 DEF String, StringValue
<1>3. s.instrumentation_scope \in InstrumentationScope(Nat) \cup {NULL}
  BY <1>1, ArrivedScopeIsScope
<1>4. s.spans \in Seq(Span(Nat))
  BY <1>1, ArrivedSpanIsSpan, WiderSeq
<1> QED BY <1>1, <1>2, <1>3, <1>4 DEF ScopeSpan

LEMMA ArrivedResourceSpanFields ==
    ASSUME NEW r \in ArrivedResourceSpan
    PROVE  /\ r = [resource |-> [attr |-> r.resource.attr,
                                 dropped_attr_count |-> r.resource.dropped_attr_count],
                   schema_url |-> r.schema_url, scope_spans |-> r.scope_spans]
           /\ r.resource.attr \in ByteFree /\ r.resource.dropped_attr_count \in Nat
           /\ r.schema_url \in StringValue /\ r.scope_spans \in Seq(ArrivedScopeSpan)
BY DEF ArrivedResourceSpan

LEMMA ArrivedResourceSpanIsResourceSpan ==
    ASSUME NEW r \in ArrivedResourceSpan
    PROVE  r \in ResourceSpan(Nat)
<1>1. r.schema_url \in String
  BY ArrivedResourceSpanFields DEF String, StringValue
<1>2. r.resource.attr \in AttributeSet
  BY ArrivedResourceSpanFields, ByteFreeFacts
<1>3. r.scope_spans \in Seq(ScopeSpan(Nat))
  BY ArrivedResourceSpanFields, ArrivedScopeSpanIsScopeSpan, WiderSeq
<1> QED BY ArrivedResourceSpanFields, <1>1, <1>2, <1>3 DEF ResourceSpan

LEMMA ArrivedIsContext ==
    ASSUME NEW d \in Arrived
    PROVE  d \in Context(Nat)
BY ArrivedResourceSpanIsResourceSpan, WiderSeq DEF Arrived, Context

-----------------------------------------------------------------------------
(* MessagePack: what the decoder makes of any message is a context.        *)

LEMMA PackedIdReceived ==
    ASSUME NEW digits \in Digits \cup {NULL}, IdReads(digits)
    PROVE  unpack_id(digits) \in ctrace_id \cup {NULL}
BY ReadIdsAreTyped DEF unpack_id, IdReads, Digits

LEMMA PackedAttributesReceived ==
    ASSUME NEW attr \in AttributeSet \cup {NULL}
    PROVE  unpack_attributes(attr) \in AttributeSet
<1>1. <<>> \in AttributeSet
  BY EmptySeq DEF AttributeSet
<1> QED BY <1>1 DEF unpack_attributes

LEMMA PackedEventsReceived ==
    ASSUME NEW s \in Seq(PackedEvent(Nat))
    PROVE  [i \in DOMAIN s |-> unpack_event(s[i])] \in Seq(Event(Nat))
<1>1. PICK d : d = [i \in DOMAIN s |-> unpack_event(s[i])]
  OBVIOUS
<1>2. ASSUME NEW i \in DOMAIN s
      PROVE  d[i] \in Event(Nat)
  <2>1. PICK e \in PackedEvent(Nat) : e = s[i]
    BY SeqFacts
  <2>2. /\ e.name \in String /\ e.time_unix_nano \in Nat
        /\ e.attributes \in AttributeSet \cup {NULL} /\ e.dropped_attributes_count \in Nat
    BY DEF PackedEvent
  <2>3. unpack_attributes(e.attributes) \in AttributeSet
    BY <2>2, PackedAttributesReceived
  <2>4. d[i] = unpack_event(e)
    BY <1>1, <2>1
  <2> QED BY <2>2, <2>3, <2>4 DEF unpack_event, Event
<1>3. DOMAIN d = DOMAIN s /\ d = [i \in DOMAIN d |-> d[i]]
  BY <1>1
<1> QED BY <1>1, <1>2, <1>3, IsSequence

LEMMA PackedLinksReceived ==
    ASSUME NEW s \in Seq(PackedLink(Nat)), \A i \in DOMAIN s : LinkReads(s[i])
    PROVE  [i \in DOMAIN s |-> unpack_link(s[i])] \in Seq(Link(Nat))
<1>1. PICK d : d = [i \in DOMAIN s |-> unpack_link(s[i])]
  OBVIOUS
<1>2. ASSUME NEW i \in DOMAIN s
      PROVE  d[i] \in Link(Nat)
  <2>1. PICK l \in PackedLink(Nat) : l = s[i]
    BY SeqFacts
  <2>2. /\ l.trace_id \in Digits \cup {NULL} /\ l.span_id \in Digits \cup {NULL}
        /\ l.trace_state \in String
        /\ l.attributes \in AttributeSet \cup {NULL} /\ l.dropped_attributes_count \in Nat
    BY DEF PackedLink
  <2>3. IdReads(l.trace_id) /\ IdReads(l.span_id)
    BY <2>1 DEF LinkReads
  <2>4. PICK trace, span : trace = unpack_id(l.trace_id) /\ span = unpack_id(l.span_id)
    OBVIOUS
  <2>5. trace \in ctrace_id \cup {NULL} /\ span \in ctrace_id \cup {NULL}
    BY <2>2, <2>3, <2>4, PackedIdReceived
  <2>6. d[i] = [trace_id |-> trace, span_id |-> span, trace_state |-> l.trace_state,
                attr |-> l.attributes, dropped_attr_count |-> l.dropped_attributes_count,
                flags |-> 0]
    BY <1>1, <2>1, <2>4 DEF unpack_link
  <2> QED BY <2>2, <2>5, <2>6 DEF Link
<1>3. DOMAIN d = DOMAIN s /\ d = [i \in DOMAIN d |-> d[i]]
  BY <1>1
<1> QED BY <1>1, <1>2, <1>3, IsSequence

LEMMA PackedSpanReceived ==
    ASSUME NEW p \in PackedSpan(Nat), SpanReads(p)
    PROVE  unpack_span(p) \in Span(Nat)
<1>1. /\ p.trace_id \in Digits \cup {NULL} /\ p.span_id \in Digits \cup {NULL}
      /\ p.parent_span_id \in Digits \cup {NULL}
      /\ p.trace_state \in String /\ p.name \in String /\ p.schema_url \in String
      /\ p.kind \in Int
      /\ p.start_time_unix_nano \in Nat /\ p.end_time_unix_nano \in Nat
      /\ p.attributes \in AttributeSet \cup {NULL} /\ p.dropped_attributes_count \in Nat
      /\ p.dropped_events_count \in Nat /\ p.dropped_links_count \in Nat
      /\ p.events \in Seq(PackedEvent(Nat)) /\ p.links \in Seq(PackedLink(Nat))
      /\ p.status \in [code : Int, message : String]
  BY DEF PackedSpan
<1>2. /\ IdReads(p.trace_id) /\ IdReads(p.span_id) /\ IdReads(p.parent_span_id)
      /\ \A i \in DOMAIN p.links : LinkReads(p.links[i])
  BY DEF SpanReads
<1>3. PICK trace, span, parent, attr, events, links :
        /\ trace = unpack_id(p.trace_id) /\ span = unpack_id(p.span_id)
        /\ parent = unpack_id(p.parent_span_id)
        /\ attr = unpack_attributes(p.attributes)
        /\ events = [i \in DOMAIN p.events |-> unpack_event(p.events[i])]
        /\ links = [i \in DOMAIN p.links |-> unpack_link(p.links[i])]
  OBVIOUS
<1>4. /\ trace \in ctrace_id \cup {NULL} /\ span \in ctrace_id \cup {NULL}
      /\ parent \in ctrace_id \cup {NULL}
  BY <1>1, <1>2, <1>3, PackedIdReceived
<1>5. attr \in AttributeSet
  BY <1>1, <1>3, PackedAttributesReceived
<1>6. events \in Seq(Event(Nat)) /\ links \in Seq(Link(Nat))
  BY <1>1, <1>2, <1>3, PackedEventsReceived, PackedLinksReceived
<1>7. unpack_span(p) =
        [trace_id             |-> trace,
         span_id              |-> span,
         parent_span_id       |-> parent,
         trace_state          |-> p.trace_state,
         name                 |-> p.name,
         schema_url           |-> p.schema_url,
         kind                 |-> p.kind,
         flags                |-> 0,
         start_time_unix_nano |-> p.start_time_unix_nano,
         end_time_unix_nano   |-> p.end_time_unix_nano,
         attr                 |-> attr,
         dropped_attr_count   |-> p.dropped_attributes_count,
         events               |-> events,
         dropped_events_count |-> p.dropped_events_count,
         links                |-> links,
         dropped_links_count  |-> p.dropped_links_count,
         status               |-> p.status]
  BY <1>3 DEF unpack_span
<1> QED BY <1>1, <1>4, <1>5, <1>6, <1>7 DEF Span

LEMMA PackedScopeSpanReceived ==
    ASSUME NEW s \in PackedScopeSpan(Nat), ScopeSpanReads(s)
    PROVE  unpack_scope_span(s) \in ScopeSpan(Nat)
<1>1. /\ s.scope \in PackedScope(Nat) \cup {NULL} /\ s.schema_url \in String
      /\ s.spans \in Seq(PackedSpan(Nat))
  BY DEF PackedScopeSpan
<1>2. PICK scope, spans :
        /\ scope = unpack_instrumentation_scope(s.scope)
        /\ spans = [i \in DOMAIN s.spans |-> unpack_span(s.spans[i])]
  OBVIOUS
<1>3. scope \in InstrumentationScope(Nat) \cup {NULL}
  <2>1. CASE s.scope = NULL
    BY <1>2, <2>1 DEF unpack_instrumentation_scope
  <2>2. CASE s.scope # NULL
    <3>1. /\ s.scope.name \in String /\ s.scope.version \in String
          /\ s.scope.attributes \in AttributeSet \cup {NULL}
          /\ s.scope.dropped_attributes_count \in Nat
      BY <1>1, <2>2 DEF PackedScope
    <3>2. scope = [name |-> s.scope.name, version |-> s.scope.version,
                   attr |-> s.scope.attributes,
                   dropped_attr_count |-> s.scope.dropped_attributes_count]
      BY <1>2, <2>2 DEF unpack_instrumentation_scope
    <3> QED BY <3>1, <3>2 DEF InstrumentationScope
  <2> QED BY <2>1, <2>2
<1>4. \A i \in DOMAIN s.spans : spans[i] \in Span(Nat)
  <2> SUFFICES ASSUME NEW i \in DOMAIN s.spans
               PROVE  spans[i] \in Span(Nat)
    OBVIOUS
  <2>1. s.spans[i] \in PackedSpan(Nat) /\ spans[i] = unpack_span(s.spans[i])
    BY <1>1, <1>2, SeqFacts
  <2>2. SpanReads(s.spans[i])
    BY DEF ScopeSpanReads
  <2> QED BY <2>1, <2>2, PackedSpanReceived
<1>5. DOMAIN spans = DOMAIN s.spans /\ spans = [i \in DOMAIN spans |-> spans[i]]
  BY <1>2
<1>6. spans \in Seq(Span(Nat))
  BY <1>1, <1>4, <1>5, IsSequence
<1>7. unpack_scope_span(s) =
        [instrumentation_scope |-> scope, schema_url |-> s.schema_url, spans |-> spans]
  BY <1>2 DEF unpack_scope_span
<1> QED BY <1>1, <1>3, <1>6, <1>7 DEF ScopeSpan

LEMMA PackedResourceSpanReceived ==
    ASSUME NEW r \in PackedResourceSpan(Nat), ResourceSpanReads(r)
    PROVE  unpack_resource_span(r) \in ResourceSpan(Nat)
<1>1. /\ r.resource.attributes \in AttributeSet \cup {NULL}
      /\ r.resource.dropped_attributes_count \in Nat
      /\ r.schema_url \in String /\ r.scope_spans \in Seq(PackedScopeSpan(Nat))
  BY DEF PackedResourceSpan
<1>2. PICK attr, scope_spans :
        /\ attr = unpack_attributes(r.resource.attributes)
        /\ scope_spans = [i \in DOMAIN r.scope_spans |-> unpack_scope_span(r.scope_spans[i])]
  OBVIOUS
<1>3. attr \in AttributeSet
  BY <1>1, <1>2, PackedAttributesReceived
<1>4. \A i \in DOMAIN r.scope_spans : scope_spans[i] \in ScopeSpan(Nat)
  <2> SUFFICES ASSUME NEW i \in DOMAIN r.scope_spans
               PROVE  scope_spans[i] \in ScopeSpan(Nat)
    OBVIOUS
  <2>1. /\ r.scope_spans[i] \in PackedScopeSpan(Nat)
        /\ scope_spans[i] = unpack_scope_span(r.scope_spans[i])
    BY <1>1, <1>2, SeqFacts
  <2>2. ScopeSpanReads(r.scope_spans[i])
    BY DEF ResourceSpanReads
  <2> QED BY <2>1, <2>2, PackedScopeSpanReceived
<1>5. /\ DOMAIN scope_spans = DOMAIN r.scope_spans
      /\ scope_spans = [i \in DOMAIN scope_spans |-> scope_spans[i]]
  BY <1>2
<1>6. scope_spans \in Seq(ScopeSpan(Nat))
  BY <1>1, <1>4, <1>5, IsSequence
<1>7. unpack_resource_span(r) =
        [resource    |-> [attr |-> attr,
                          dropped_attr_count |-> r.resource.dropped_attributes_count],
         schema_url  |-> r.schema_url,
         scope_spans |-> scope_spans]
  BY <1>2 DEF unpack_resource_span
<1> QED BY <1>1, <1>3, <1>6, <1>7 DEF ResourceSpan

LEMMA PackedContextReceived ==
    ASSUME NEW m \in MsgpackMessage(Nat)
    PROVE  MsgpackDecode(m) \in Context(Nat) \cup {NULL}
<1>1. CASE \A i \in DOMAIN m : ResourceSpanReads(m[i])
  <2>1. PICK d : d = [i \in DOMAIN m |-> unpack_resource_span(m[i])]
    OBVIOUS
  <2>2. \A i \in DOMAIN m : d[i] \in ResourceSpan(Nat)
    <3> SUFFICES ASSUME NEW i \in DOMAIN m
                 PROVE  d[i] \in ResourceSpan(Nat)
      OBVIOUS
    <3>1. m[i] \in PackedResourceSpan(Nat) /\ d[i] = unpack_resource_span(m[i])
      BY <2>1, SeqFacts DEF MsgpackMessage
    <3> QED BY <1>1, <3>1, PackedResourceSpanReceived
  <2>3. DOMAIN d = DOMAIN m /\ d = [i \in DOMAIN d |-> d[i]]
    BY <2>1
  <2>4. d \in Context(Nat)
    BY <2>2, <2>3, IsSequence DEF Context, MsgpackMessage
  <2> QED BY <1>1, <2>1, <2>4 DEF MsgpackDecode
<1>2. CASE ~ \A i \in DOMAIN m : ResourceSpanReads(m[i])
  BY <1>2 DEF MsgpackDecode
<1> QED BY <1>1, <1>2

-----------------------------------------------------------------------------
(* What is left of a context without its flags is a context.               *)

LEMMA FlaglessSpanTyped ==
    ASSUME NEW p \in Span(Nat)
    PROVE  Flagless(p) \in Span(Nat)
<1>1. FlaglessLinks(p.links) \in Seq(Link(Nat))
  <2>1. PICK links : links = FlaglessLinks(p.links)
    OBVIOUS
  <2>2. DOMAIN links = DOMAIN p.links /\ links = [i \in DOMAIN links |-> links[i]]
    BY <2>1 DEF FlaglessLinks
  <2>3. ASSUME NEW i \in DOMAIN p.links
        PROVE  links[i] \in Link(Nat)
    <3>1. PICK l \in Link(Nat) : l = p.links[i]
      BY SpanFields, SeqFacts
    <3>2. links[i] = [l EXCEPT !.flags = 0]
      BY <2>1, <3>1 DEF FlaglessLinks
    <3> QED BY <3>2 DEF Link
  <2> QED BY <2>1, <2>2, <2>3, SpanFields, IsSequence
<1>2. PICK links \in Seq(Link(Nat)) : links = FlaglessLinks(p.links)
  BY <1>1
<1>3. Flagless(p) =
              [trace_id |-> p.trace_id, span_id |-> p.span_id,
               parent_span_id |-> p.parent_span_id, trace_state |-> p.trace_state,
               name |-> p.name, schema_url |-> p.schema_url, kind |-> p.kind,
               flags |-> 0, start_time_unix_nano |-> p.start_time_unix_nano,
               end_time_unix_nano |-> p.end_time_unix_nano, attr |-> p.attr,
               dropped_attr_count |-> p.dropped_attr_count, events |-> p.events,
               dropped_events_count |-> p.dropped_events_count, links |-> links,
               dropped_links_count |-> p.dropped_links_count, status |-> p.status]
  BY <1>2, FlaglessFields
<1> QED BY <1>3, SpanFields DEF Span

LEMMA FlaglessScopeSpanTyped ==
    ASSUME NEW s \in ScopeSpan(Nat)
    PROVE  [s EXCEPT !.spans = FlaglessSpans(@)] \in ScopeSpan(Nat)
<1>1. PICK spans : spans = FlaglessSpans(s.spans)
  OBVIOUS
<1>2. s.spans \in Seq(Span(Nat))
  BY DEF ScopeSpan
<1>3. DOMAIN spans = DOMAIN s.spans /\ spans = [k \in DOMAIN spans |-> spans[k]]
  BY <1>1 DEF FlaglessSpans
<1>4. \A k \in DOMAIN s.spans : spans[k] \in Span(Nat)
  <2> SUFFICES ASSUME NEW k \in DOMAIN s.spans
               PROVE  spans[k] \in Span(Nat)
    OBVIOUS
  <2>1. s.spans[k] \in Span(Nat) /\ spans[k] = Flagless(s.spans[k])
    BY <1>1, <1>2, SeqFacts DEF FlaglessSpans
  <2> QED BY <2>1, FlaglessSpanTyped
<1>5. spans \in Seq(Span(Nat))
  BY <1>2, <1>3, <1>4, IsSequence
<1>6. [s EXCEPT !.spans = FlaglessSpans(@)] = [s EXCEPT !.spans = spans]
  BY <1>1
<1> QED BY <1>5, <1>6 DEF ScopeSpan

LEMMA FlaglessResourceSpanTyped ==
    ASSUME NEW r \in ResourceSpan(Nat)
    PROVE  [r EXCEPT !.scope_spans = FlaglessScopeSpans(@)] \in ResourceSpan(Nat)
<1>1. PICK scope_spans : scope_spans = FlaglessScopeSpans(r.scope_spans)
  OBVIOUS
<1>2. r.scope_spans \in Seq(ScopeSpan(Nat))
  BY DEF ResourceSpan
<1>3. /\ DOMAIN scope_spans = DOMAIN r.scope_spans
      /\ scope_spans = [j \in DOMAIN scope_spans |-> scope_spans[j]]
  BY <1>1 DEF FlaglessScopeSpans
<1>4. \A j \in DOMAIN r.scope_spans : scope_spans[j] \in ScopeSpan(Nat)
  <2> SUFFICES ASSUME NEW j \in DOMAIN r.scope_spans
               PROVE  scope_spans[j] \in ScopeSpan(Nat)
    OBVIOUS
  <2>1. PICK s \in ScopeSpan(Nat) : s = r.scope_spans[j]
    BY <1>2, SeqFacts
  <2>2. scope_spans[j] = [s EXCEPT !.spans = FlaglessSpans(@)]
    BY <1>1, <2>1 DEF FlaglessScopeSpans
  <2> QED BY <2>2, FlaglessScopeSpanTyped
<1>5. scope_spans \in Seq(ScopeSpan(Nat))
  BY <1>2, <1>3, <1>4, IsSequence
<1>6. [r EXCEPT !.scope_spans = FlaglessScopeSpans(@)] = [r EXCEPT !.scope_spans = scope_spans]
  BY <1>1
<1> QED BY <1>5, <1>6 DEF ResourceSpan

LEMMA FlaglessContext ==
    ASSUME NEW ctx \in Context(Nat)
    PROVE  /\ EachSpan(ctx, Flagless)
                 = [i \in DOMAIN ctx |-> [ctx[i] EXCEPT !.scope_spans = FlaglessScopeSpans(@)]]
           /\ EachSpan(ctx, Flagless) \in Context(Nat)
<1>1. PICK d : d = [i \in DOMAIN ctx |-> [ctx[i] EXCEPT !.scope_spans = FlaglessScopeSpans(@)]]
  OBVIOUS
<1>2. EachSpan(ctx, Flagless) = d
  BY <1>1 DEF EachSpan, FlaglessScopeSpans, FlaglessSpans
<1>3. DOMAIN d = DOMAIN ctx /\ d = [i \in DOMAIN d |-> d[i]]
  BY <1>1
<1>4. \A i \in DOMAIN ctx : d[i] \in ResourceSpan(Nat)
  <2> SUFFICES ASSUME NEW i \in DOMAIN ctx
               PROVE  d[i] \in ResourceSpan(Nat)
    OBVIOUS
  <2>1. PICK r \in ResourceSpan(Nat) : r = ctx[i]
    BY SeqFacts DEF Context
  <2>2. d[i] = [r EXCEPT !.scope_spans = FlaglessScopeSpans(@)]
    BY <1>1, <2>1
  <2> QED BY <2>2, FlaglessResourceSpanTyped
<1>5. d \in Context(Nat)
  BY <1>3, <1>4, IsSequence DEF Context
<1> QED BY <1>1, <1>2, <1>5

-----------------------------------------------------------------------------
(* The way of a context: what is on the wire, and what comes of it.        *)

\* A message that arrives is the one that was made of the context at hand, or of
\* another program, and then nothing is at hand yet.
InFlight ==
    wire # NULL =>
        /\ doc # NULL => wire.body = IF wire.codec = "otlp" THEN OtlpEncode(doc)
                                     ELSE MsgpackEncode(doc)
        /\ doc = NULL => wire.body \in IF wire.codec = "otlp" THEN OtlpMessage(Nat)
                                       ELSE MsgpackMessage(Nat)

\* What came by OpenTelemetry last has the form that its decoder gives.
LastHop == via # <<>> /\ via[Len(via)] = "otlp" /\ doc # NULL => doc \in Arrived

Course == TypeOK /\ InFlight /\ LastHop

LEMMA WayExtended ==
    ASSUME via \in Seq(Codec), NEW codec \in Codec, via' = Append(via, codec)
    PROVE  via' \in Seq(Codec) /\ via' # <<>> /\ via'[Len(via')] = codec
BY AppendProperties

LEMMA OtlpArrives ==
    ASSUME Course, ctr_decode_opentelemetry_create
    PROVE  /\ wire # NULL /\ wire.codec = "otlp" /\ wire' = NULL
           /\ \E now \in Nat \ {0} :
                 /\ doc # NULL => doc \in Context(Nat) /\ doc' = OtlpDecode(OtlpEncode(doc), now)
                 /\ doc = NULL => wire.body \in OtlpMessage(Nat) /\ doc' = OtlpDecode(wire.body, now)
                 /\ now \in Clock
           /\ doc' \in Arrived \cup {NULL}
           /\ via' = Append(via, "otlp") /\ origin' = origin
<1>1. /\ wire # NULL /\ wire.codec = "otlp" /\ wire' = NULL
      /\ via' = Append(via, "otlp") /\ origin' = origin
  BY DEF ctr_decode_opentelemetry_create, Receive
<1>2. PICK now \in Clock : doc' = OtlpDecode(wire.body, now)
  BY DEF ctr_decode_opentelemetry_create, Receive
<1>3. now \in Nat \ {0}
  BY TimeHasBegun DEF Num
<1>4. doc # NULL => doc \in Context(Nat) /\ wire.body = OtlpEncode(doc)
  BY <1>1 DEF Course, TypeOK, InFlight, Num
<1>5. wire.body \in OtlpMessage(Nat)
  BY <1>1, <1>4, ContextSent DEF Course, InFlight
<1>6. doc' \in Arrived \cup {NULL}
  BY <1>2, <1>3, <1>5, ContextReceived
<1> QED BY <1>1, <1>2, <1>3, <1>4, <1>5, <1>6

LEMMA MsgpackArrives ==
    ASSUME Course, ctr_decode_msgpack_create
    PROVE  /\ wire # NULL /\ wire.codec = "msgpack" /\ wire' = NULL
           /\ doc # NULL => /\ doc \in Context(Nat)
                            /\ doc' = IF ContextFits(doc) THEN EachSpan(doc, Flagless) ELSE NULL
           /\ doc' \in Context(Nat) \cup {NULL}
           /\ via' = Append(via, "msgpack") /\ origin' = origin
<1>1. /\ wire # NULL /\ wire.codec = "msgpack" /\ wire' = NULL
      /\ doc' = MsgpackDecode(wire.body)
      /\ via' = Append(via, "msgpack") /\ origin' = origin
  BY DEF ctr_decode_msgpack_create, Receive
<1>2. CASE doc # NULL
  <2>1. doc \in Context(Nat) /\ wire.body = MsgpackEncode(doc)
    BY <1>1, <1>2 DEF Course, TypeOK, InFlight, Num
  <2>2. doc' = IF ContextFits(doc) THEN EachSpan(doc, Flagless) ELSE NULL
    BY <1>1, <2>1, ContextBack
  <2> QED BY <1>1, <1>2, <2>1, <2>2, FlaglessContext
<1>3. CASE doc = NULL
  <2>1. wire.body \in MsgpackMessage(Nat)
    BY <1>1, <1>3 DEF Course, InFlight
  <2> QED BY <1>1, <1>3, <2>1, PackedContextReceived
<1> QED BY <1>2, <1>3

LEMMA CourseHoldsAtFirst == Init => Course
<1> SUFFICES ASSUME Init PROVE Course
  OBVIOUS
<1>1. via \in Seq(Codec) /\ LastHop
  BY EmptySeq DEF Init, LastHop
<1>2. CASE wire = NULL /\ origin \in Contexts /\ doc = origin
  BY <1>1, <1>2, ContextsAreBuilt DEF Course, TypeOK, InFlight, Num
<1>3. CASE /\ doc = NULL /\ origin = NULL
           /\ wire \in [codec : {"otlp"}, body : ForeignOtlp]
  <2>1. wire.codec = "otlp" /\ wire.body \in OtlpMessage(Nat)
    BY <1>3, MessagesAreTyped DEF Num
  <2> QED BY <1>1, <1>3, <2>1 DEF Course, TypeOK, InFlight, Codec
<1>4. CASE /\ doc = NULL /\ origin = NULL
           /\ wire \in [codec : {"msgpack"}, body : ForeignMsgpack]
  <2>1. wire.codec = "msgpack" /\ wire.body \in MsgpackMessage(Nat)
    BY <1>4, MessagesAreTyped DEF Num
  <2> QED BY <1>1, <1>4, <2>1 DEF Course, TypeOK, InFlight, Codec
<1> QED BY <1>2, <1>3, <1>4 DEF Init

LEMMA CourseIsKept == Course /\ [Next]_vars => Course'
<1> SUFFICES ASSUME Course, [Next]_vars PROVE Course'
  OBVIOUS
<1>1. CASE ctr_encode_opentelemetry_create
  <2>1. /\ doc # NULL /\ doc' = doc /\ origin' = origin /\ via' = via
        /\ wire' = [codec |-> "otlp", body |-> OtlpEncode(doc)]
    BY <1>1 DEF ctr_encode_opentelemetry_create, Send
  <2>2. wire'.codec = "otlp" /\ wire'.body = OtlpEncode(doc)
    BY <2>1
  <2>3. "otlp" \in Codec
    BY DEF Codec
  <2> QED BY <2>1, <2>2, <2>3 DEF Course, TypeOK, InFlight, LastHop
<1>2. CASE ctr_encode_msgpack_create
  <2>1. /\ doc # NULL /\ doc' = doc /\ origin' = origin /\ via' = via
        /\ wire' = [codec |-> "msgpack", body |-> MsgpackEncode(doc)]
    BY <1>2 DEF ctr_encode_msgpack_create, Send
  <2>2. wire'.codec = "msgpack" /\ wire'.body = MsgpackEncode(doc)
    BY <2>1
  <2>3. "msgpack" \in Codec
    BY DEF Codec
  <2> QED BY <2>1, <2>2, <2>3 DEF Course, TypeOK, InFlight, LastHop
<1>3. CASE ctr_decode_opentelemetry_create
  <2>1. /\ wire' = NULL /\ doc' \in Arrived \cup {NULL}
        /\ via' = Append(via, "otlp") /\ origin' = origin
    BY <1>3, OtlpArrives
  <2>2. "otlp" \in Codec
    BY DEF Codec
  <2>3. via' \in Seq(Codec)
    BY <2>1, <2>2, WayExtended DEF Course, TypeOK
  <2>4. doc' \in Context(Nat) \cup {NULL}
    BY <2>1, ArrivedIsContext
  <2> QED BY <2>1, <2>3, <2>4 DEF Course, TypeOK, InFlight, LastHop, Num
<1>4. CASE ctr_decode_msgpack_create
  <2>1. /\ wire' = NULL /\ doc' \in Context(Nat) \cup {NULL}
        /\ via' = Append(via, "msgpack") /\ origin' = origin
    BY <1>4, MsgpackArrives
  <2>2. "msgpack" \in Codec
    BY DEF Codec
  <2>3. via' \in Seq(Codec) /\ via'[Len(via')] = "msgpack"
    BY <2>1, <2>2, WayExtended DEF Course, TypeOK
  <2> QED BY <2>1, <2>3 DEF Course, TypeOK, InFlight, LastHop, Num
<1>5. CASE UNCHANGED vars
  BY <1>5 DEF vars, Course, TypeOK, InFlight, LastHop
<1> QED BY <1>1, <1>2, <1>3, <1>4, <1>5 DEF Next

LEMMA CourseHolds == Spec => []Course
BY CourseHoldsAtFirst, CourseIsKept, PTL DEF Spec

\* Nothing that only a message can hold ever gets into a context: not an attribute
\* without a value, not an empty identifier, not a kind or a string of another
\* sort.  The decoders see to it, whatever another program sent.
THEOREM ContextsStayContexts == Spec => []TypeOK
<1>1. Course => TypeOK
  BY DEF Course
<1> QED BY <1>1, CourseHolds, PTL

\* The message that arrives by MessagePack.
LEMMA ArrivesByMsgpack ==
    ASSUME Next, Arrives("msgpack")
    PROVE  ctr_decode_msgpack_create
BY DEF Next, Arrives, ctr_encode_opentelemetry_create, ctr_encode_msgpack_create, Send,
       ctr_decode_opentelemetry_create, ctr_decode_msgpack_create

LEMMA MsgpackHop ==
    ASSUME Course, [Next]_vars, Arrives("msgpack")
    PROVE  /\ doc # NULL /\ doc \in Context(Nat)
           /\ doc' = IF ContextFits(doc) THEN EachSpan(doc, Flagless) ELSE NULL
<1>1. doc # NULL /\ wire # NULL /\ wire' = NULL
  BY DEF Arrives
<1>2. Next
  BY <1>1 DEF vars
<1>3. ctr_decode_msgpack_create
  BY <1>2, ArrivesByMsgpack
<1> QED BY <1>1, <1>3, MsgpackArrives

\* A hop by MessagePack loses the flags of the spans and the links and nothing
\* else, or the decoder refuses the message, and this if and only if the context
\* has a key of 256 bytes or more somewhere.
THEOREM MsgpackLosesNothingElse == Spec => MsgpackLosesOnlyFlags
<1>1. Course /\ [Next]_vars =>
        (Arrives("msgpack") =>
           IF \E attr \in AttributeSetsOf(doc) : \E i \in DOMAIN attr : attr[i].key \in LongKey
           THEN doc' = NULL
           ELSE doc' = EachSpan(doc, Flagless))
  <2> SUFFICES ASSUME Course, [Next]_vars, Arrives("msgpack")
               PROVE  IF \E attr \in AttributeSetsOf(doc) :
                             \E i \in DOMAIN attr : attr[i].key \in LongKey
                      THEN doc' = NULL
                      ELSE doc' = EachSpan(doc, Flagless)
    OBVIOUS
  <2>1. doc' = IF ContextFits(doc) THEN EachSpan(doc, Flagless) ELSE NULL
    BY MsgpackHop
  <2>2. ContextFits(doc) <=>
          ~ \E attr \in AttributeSetsOf(doc) : \E i \in DOMAIN attr : attr[i].key \in LongKey
    BY LongKeysDoNotFit DEF HasLongKey
  <2> QED BY <2>1, <2>2
<1> QED BY <1>1, CourseHolds, PTL DEF Spec, MsgpackLosesOnlyFlags

-----------------------------------------------------------------------------
(* OpenTelemetry: what becomes of a context that is encoded and decoded    *)
(* again.                                                                  *)

Lost(attr) == attr # NULL /\ HasBytes(attr)

ThroughAttributes(attr) == IF Lost(attr) THEN NULL ELSE set_attributes_from_ctr(attr)

ThroughEvent(e, now) ==
    [name               |-> StringField(e.name),
     time_unix_nano     |-> IF e.time_unix_nano = 0 THEN now ELSE e.time_unix_nano,
     attr               |-> OrEmpty(ThroughAttributes(e.attr)),
     dropped_attr_count |-> IF Lost(e.attr) THEN 0 ELSE e.dropped_attr_count]

ThroughLink(l) ==
    [trace_id           |-> l.trace_id,
     span_id            |-> l.span_id,
     trace_state        |-> NULL,
     attr               |-> ThroughAttributes(l.attr),
     dropped_attr_count |-> IF Lost(l.attr) THEN 0 ELSE l.dropped_attr_count,
     flags              |-> 0]

ThroughEvents(s, now) ==
    LET m == [i \in DOMAIN s |-> set_event(s[i])]
    IN  [i \in 1..Reached(m) |-> decode_event(m[i], now)]

ThroughLinks(s) ==
    LET m == [i \in DOMAIN s |-> set_link(s[i])]
    IN  [i \in 1..Reached(m) |-> decode_link(m[i])]

LEMMA AttributesThrough ==
    ASSUME NEW attr \in AttributeSet \cup {NULL}
    PROVE  /\ convert_otel_attrs(set_attributes_from_ctr(attr)) = ThroughAttributes(attr)
           /\ Accepted(set_attributes_from_ctr(attr)) <=> ~Lost(attr)
           /\ ThroughAttributes(attr) \in AttributeSet \cup {NULL}
           /\ ~Lost(attr) => ThroughAttributes(attr) \in AttributeSet
<1>1. <<>> \in AttributeSet
  BY EmptySeq DEF AttributeSet
<1>2. CASE attr = NULL
  <2>1. ~HasBytes(<<>>)
    BY <1>1, EmptySeq, SeqFacts DEF HasBytes
  <2> QED BY <1>1, <1>2, <2>1, OwnAttributes DEF set_attributes_from_ctr, ThroughAttributes, Lost
<1>3. CASE attr \in AttributeSet /\ attr # NULL
  BY <1>3, OwnAttributes DEF set_attributes_from_ctr, ThroughAttributes, Lost
<1> QED BY <1>2, <1>3

LEMMA EventThrough ==
    ASSUME NEW e \in Event(Nat), NEW now
    PROVE  /\ decode_event(set_event(e), now) = ThroughEvent(e, now)
           /\ Accepted(set_event(e).attributes) <=> ~Lost(e.attr)
<1>1. e.attr \in AttributeSet \cup {NULL}
  BY DEF Event
<1>2. PICK m : m = set_event(e)
  OBVIOUS
<1>3. /\ m.name = StringField(e.name) /\ m.time_unix_nano = e.time_unix_nano
      /\ m.attributes = set_attributes_from_ctr(e.attr)
      /\ m.dropped_attributes_count = e.dropped_attr_count
  BY <1>2 DEF set_event
<1>4. /\ convert_otel_attrs(m.attributes) = ThroughAttributes(e.attr)
      /\ Accepted(m.attributes) <=> ~Lost(e.attr)
  BY <1>1, <1>3, AttributesThrough
<1>5. decode_event(m, now) = ThroughEvent(e, now)
  BY <1>3, <1>4 DEF decode_event, ThroughEvent
<1> QED BY <1>2, <1>4, <1>5

LEMMA LinkThrough ==
    ASSUME NEW l \in Link(Nat)
    PROVE  /\ decode_link(set_link(l)) = ThroughLink(l)
           /\ Accepted(set_link(l).attributes) <=> ~Lost(l.attr)
<1>1. /\ l.attr \in AttributeSet \cup {NULL}
      /\ l.trace_id \in ctrace_id \cup {NULL} /\ l.span_id \in ctrace_id \cup {NULL}
  BY DEF Link
<1>2. PICK m : m = set_link(l)
  OBVIOUS
<1>3. /\ m.trace_id = BytesField(l.trace_id) /\ m.span_id = BytesField(l.span_id)
      /\ m.attributes = set_attributes_from_ctr(l.attr)
      /\ m.dropped_attributes_count = l.dropped_attr_count
  BY <1>2 DEF set_link
<1>4. /\ convert_otel_attrs(m.attributes) = ThroughAttributes(l.attr)
      /\ Accepted(m.attributes) <=> ~Lost(l.attr)
  BY <1>1, <1>3, AttributesThrough
<1>5. DecodedId(m.trace_id) = l.trace_id /\ DecodedId(m.span_id) = l.span_id
  BY <1>1, <1>3, IdsSent
<1>6. decode_link(m) = ThroughLink(l)
  BY <1>3, <1>4, <1>5 DEF decode_link, ThroughLink
<1> QED BY <1>2, <1>4, <1>6

LEMMA EventsThrough ==
    ASSUME NEW s \in Seq(Event(Nat)), NEW now \in Nat \ {0}
    PROVE  LET d == ThroughEvents(s, now)
           IN  /\ d \in Seq(ArrivedEvent) /\ Len(d) <= Len(s)
               /\ \A i \in DOMAIN d : i \in DOMAIN s /\ d[i] = ThroughEvent(s[i], now)
               /\ Len(d) < Len(s) => Len(d) \in DOMAIN s /\ Lost(s[Len(d)].attr)
<1>1. PICK m : m = [i \in DOMAIN s |-> set_event(s[i])]
  OBVIOUS
<1>2. m \in Seq(EventMessage(Nat)) /\ Len(m) = Len(s)
  BY <1>1, EventsSent
<1>3. PICK d : d = [i \in 1..Reached(m) |-> decode_event(m[i], now)]
  OBVIOUS
<1>4. d \in Seq(ArrivedEvent) /\ Len(d) = Reached(m)
  BY <1>2, <1>3, EventsReceived
<1>5. /\ Reached(m) \in Nat /\ Reached(m) <= Len(m)
      /\ Reached(m) < Len(m) => Reached(m) \in 1..Len(m) /\ ~Accepted(m[Reached(m)].attributes)
  BY <1>2, ReachedFacts
<1>6. Len(s) \in Nat /\ DOMAIN s = 1..Len(s)
  BY SeqFacts
<1>7. \A i \in DOMAIN s : /\ decode_event(m[i], now) = ThroughEvent(s[i], now)
                          /\ Accepted(m[i].attributes) <=> ~Lost(s[i].attr)
  <2> SUFFICES ASSUME NEW i \in DOMAIN s
               PROVE  /\ decode_event(m[i], now) = ThroughEvent(s[i], now)
                      /\ Accepted(m[i].attributes) <=> ~Lost(s[i].attr)
    OBVIOUS
  <2>1. s[i] \in Event(Nat) /\ m[i] = set_event(s[i])
    BY <1>1, SeqFacts
  <2> QED BY <2>1, EventThrough
<1>8. \A i \in DOMAIN d : i \in DOMAIN s /\ d[i] = ThroughEvent(s[i], now)
  BY <1>2, <1>3, <1>5, <1>6, <1>7
<1>9. Len(d) < Len(s) => Len(d) \in DOMAIN s /\ Lost(s[Len(d)].attr)
  BY <1>2, <1>4, <1>5, <1>6, <1>7
<1>10. Len(d) <= Len(s)
  BY <1>2, <1>4, <1>5
<1>11. d = ThroughEvents(s, now)
  BY <1>1, <1>3 DEF ThroughEvents
<1> QED BY <1>4, <1>8, <1>9, <1>10, <1>11

LEMMA LinksThrough ==
    ASSUME NEW s \in Seq(Link(Nat))
    PROVE  LET d == ThroughLinks(s)
           IN  /\ d \in Seq(ArrivedLink) /\ Len(d) <= Len(s)
               /\ \A i \in DOMAIN d : i \in DOMAIN s /\ d[i] = ThroughLink(s[i])
               /\ Len(d) < Len(s) => Len(d) \in DOMAIN s /\ Lost(s[Len(d)].attr)
<1>1. PICK m : m = [i \in DOMAIN s |-> set_link(s[i])]
  OBVIOUS
<1>2. m \in Seq(LinkMessage(Nat)) /\ Len(m) = Len(s)
  BY <1>1, LinksSent
<1>3. PICK d : d = [i \in 1..Reached(m) |-> decode_link(m[i])]
  OBVIOUS
<1>4. d \in Seq(ArrivedLink) /\ Len(d) = Reached(m)
  BY <1>2, <1>3, LinksReceived
<1>5. /\ Reached(m) \in Nat /\ Reached(m) <= Len(m)
      /\ Reached(m) < Len(m) => Reached(m) \in 1..Len(m) /\ ~Accepted(m[Reached(m)].attributes)
  BY <1>2, ReachedFacts
<1>6. Len(s) \in Nat /\ DOMAIN s = 1..Len(s)
  BY SeqFacts
<1>7. \A i \in DOMAIN s : /\ decode_link(m[i]) = ThroughLink(s[i])
                          /\ Accepted(m[i].attributes) <=> ~Lost(s[i].attr)
  <2> SUFFICES ASSUME NEW i \in DOMAIN s
               PROVE  /\ decode_link(m[i]) = ThroughLink(s[i])
                      /\ Accepted(m[i].attributes) <=> ~Lost(s[i].attr)
    OBVIOUS
  <2>1. s[i] \in Link(Nat) /\ m[i] = set_link(s[i])
    BY <1>1, SeqFacts
  <2> QED BY <2>1, LinkThrough
<1>8. \A i \in DOMAIN d : i \in DOMAIN s /\ d[i] = ThroughLink(s[i])
  BY <1>2, <1>3, <1>5, <1>6, <1>7
<1>9. Len(d) < Len(s) => Len(d) \in DOMAIN s /\ Lost(s[Len(d)].attr)
  BY <1>2, <1>4, <1>5, <1>6, <1>7
<1>10. Len(d) <= Len(s)
  BY <1>2, <1>4, <1>5
<1>11. d = ThroughLinks(s)
  BY <1>1, <1>3 DEF ThroughLinks
<1> QED BY <1>4, <1>8, <1>9, <1>10, <1>11

ThroughSpan(p, now) ==
    [name                 |-> StringField(p.name),
     trace_id             |-> p.trace_id,
     span_id              |-> p.span_id,
     parent_span_id       |-> p.parent_span_id,
     trace_state          |-> IF p.trace_state = "" THEN NULL ELSE p.trace_state,
     schema_url           |-> NULL,
     kind                 |-> set_kind(p.kind),
     flags                |-> 0,
     start_time_unix_nano |-> p.start_time_unix_nano,
     end_time_unix_nano   |-> p.end_time_unix_nano,
     status               |-> [code |-> p.status.code, message |-> StringField(p.status.message)],
     attr                 |-> OrEmpty(ThroughAttributes(p.attr)),
     dropped_attr_count   |-> p.dropped_attr_count,
     events               |-> ThroughEvents(p.events, now),
     dropped_events_count |-> p.dropped_events_count,
     links                |-> ThroughLinks(p.links),
     dropped_links_count  |-> 0]

LEMMA SpanThrough ==
    ASSUME NEW p \in Span(Nat), NEW now \in Nat \ {0}
    PROVE  decode_span(set_span(p), now) = ThroughSpan(p, now)
<1>1. PICK m, sent, links : /\ m = set_span(p)
                            /\ sent = [i \in DOMAIN p.events |-> set_event(p.events[i])]
                            /\ links = [i \in DOMAIN p.links |-> set_link(p.links[i])]
  OBVIOUS
<1>2. /\ m.name = StringField(p.name) /\ m.trace_id = BytesField(p.trace_id)
      /\ m.span_id = BytesField(p.span_id) /\ m.parent_span_id = BytesField(p.parent_span_id)
      /\ m.kind = set_kind(p.kind) /\ m.trace_state = StringField(p.trace_state)
      /\ m.start_time_unix_nano = p.start_time_unix_nano
      /\ m.end_time_unix_nano = p.end_time_unix_nano
      /\ m.status = [code |-> p.status.code, message |-> StringField(p.status.message)]
      /\ m.attributes = set_attributes_from_ctr(p.attr)
      /\ m.dropped_attributes_count = p.dropped_attr_count
      /\ m.events = sent /\ m.dropped_events_count = p.dropped_events_count
      /\ m.links = links /\ m.dropped_links_count = 0
  BY <1>1 DEF set_span
<1>3. /\ DecodedId(m.trace_id) = p.trace_id /\ DecodedId(m.span_id) = p.span_id
      /\ DecodedId(m.parent_span_id) = p.parent_span_id
  BY <1>2, SpanFields, IdsSent
<1>4. (IF m.trace_state = "" THEN NULL ELSE m.trace_state)
        = IF p.trace_state = "" THEN NULL ELSE p.trace_state
  BY <1>2, NullIsNoString DEF StringField
<1>5. m.kind \in SpanKind
  BY <1>2 DEF set_kind, SpanKind, CTRACE_SPAN_UNSPECIFIED, CTRACE_SPAN_CONSUMER
<1>6. m.status # NULL
  <2>1. p.status.code \in Int /\ p.status.message \in String
    BY SpanFields
  <2>2. StringField(p.status.message) \in StringValue
    BY <2>1, StringsSent
  <2>3. m.status \in StatusMessage
    BY <1>2, <2>1, <2>2 DEF StatusMessage
  <2> QED BY <2>3, NullIsNoMessage
<1>7. convert_otel_attrs(m.attributes) = ThroughAttributes(p.attr)
  BY <1>2, SpanFields, AttributesThrough
<1>8. /\ [i \in 1..Reached(m.events) |-> decode_event(m.events[i], now)]
            = ThroughEvents(p.events, now)
      /\ [i \in 1..Reached(m.links) |-> decode_link(m.links[i])] = ThroughLinks(p.links)
  BY <1>1, <1>2 DEF ThroughEvents, ThroughLinks
<1>9. PICK state, attr, events, ties :
        /\ state = IF p.trace_state = "" THEN NULL ELSE p.trace_state
        /\ attr = OrEmpty(ThroughAttributes(p.attr))
        /\ events = ThroughEvents(p.events, now) /\ ties = ThroughLinks(p.links)
  OBVIOUS
<1>10. decode_span(m, now) =
    [name                 |-> m.name,
     trace_id             |-> p.trace_id,
     span_id              |-> p.span_id,
     parent_span_id       |-> p.parent_span_id,
     trace_state          |-> state,
     schema_url           |-> NULL,
     kind                 |-> m.kind,
     flags                |-> 0,
     start_time_unix_nano |-> m.start_time_unix_nano,
     end_time_unix_nano   |-> m.end_time_unix_nano,
     status               |-> m.status,
     attr                 |-> attr,
     dropped_attr_count   |-> m.dropped_attributes_count,
     events               |-> events,
     dropped_events_count |-> m.dropped_events_count,
     links                |-> ties,
     dropped_links_count  |-> m.dropped_links_count]
  BY <1>3, <1>4, <1>5, <1>6, <1>7, <1>8, <1>9 DEF decode_span
<1> QED BY <1>1, <1>2, <1>9, <1>10 DEF ThroughSpan

ThroughScope(scope) ==
    IF scope = NULL \/ Lost(scope.attr) THEN NULL
    ELSE [name               |-> StringField(scope.name),
          version            |-> StringField(scope.version),
          attr               |-> ThroughAttributes(scope.attr),
          dropped_attr_count |-> scope.dropped_attr_count]

LEMMA ScopeThrough ==
    ASSUME NEW scope \in InstrumentationScope(Nat) \cup {NULL}
    PROVE  decode_scope(IF scope = NULL THEN NULL ELSE set_instrumentation_scope(scope))
              = ThroughScope(scope)
<1>1. CASE scope = NULL
  BY <1>1 DEF decode_scope, ThroughScope
<1>2. CASE scope # NULL
  <2>1. scope.attr \in AttributeSet \cup {NULL}
    BY <1>2 DEF InstrumentationScope
  <2>2. PICK m : m = set_instrumentation_scope(scope)
    OBVIOUS
  <2>3. m # NULL
    BY <1>2, <2>2, ScopeSent
  <2>4. /\ m.name = StringField(scope.name) /\ m.version = StringField(scope.version)
        /\ m.attributes = set_attributes_from_ctr(scope.attr)
        /\ m.dropped_attributes_count = scope.dropped_attr_count
    BY <2>2 DEF set_instrumentation_scope
  <2>5. /\ convert_otel_attrs(m.attributes) = ThroughAttributes(scope.attr)
        /\ Accepted(m.attributes) <=> ~Lost(scope.attr)
    BY <2>1, <2>4, AttributesThrough
  <2>6. decode_scope(m) = ThroughScope(scope)
    BY <1>2, <2>3, <2>4, <2>5 DEF decode_scope, ThroughScope
  <2> QED BY <1>2, <2>2, <2>6
<1> QED BY <1>1, <1>2

ThroughScopeSpan(s, now) ==
    [instrumentation_scope |-> ThroughScope(s.instrumentation_scope),
     schema_url            |-> StringField(s.schema_url),
     spans                 |-> [k \in DOMAIN s.spans |-> ThroughSpan(s.spans[k], now)]]

LEMMA ScopeSpanThrough ==
    ASSUME NEW s \in ScopeSpan(Nat), NEW now \in Nat \ {0}
    PROVE  decode_scope_span(set_scope_span(s), now) = ThroughScopeSpan(s, now)
<1>1. /\ s.instrumentation_scope \in InstrumentationScope(Nat) \cup {NULL}
      /\ s.spans \in Seq(Span(Nat))
  BY DEF ScopeSpan
<1>2. PICK m, scope : /\ m = set_scope_span(s)
                      /\ scope = IF s.instrumentation_scope = NULL THEN NULL
                                 ELSE set_instrumentation_scope(s.instrumentation_scope)
  OBVIOUS
<1>3. /\ m.scope = scope /\ m.schema_url = StringField(s.schema_url)
      /\ m.spans = [i \in DOMAIN s.spans |-> set_span(s.spans[i])]
  BY <1>2 DEF set_scope_span
<1>4. decode_scope(m.scope) = ThroughScope(s.instrumentation_scope)
  BY <1>1, <1>2, <1>3, ScopeThrough
<1>5. \A k \in DOMAIN s.spans : decode_span(m.spans[k], now) = ThroughSpan(s.spans[k], now)
  <2> SUFFICES ASSUME NEW k \in DOMAIN s.spans
               PROVE  decode_span(m.spans[k], now) = ThroughSpan(s.spans[k], now)
    OBVIOUS
  <2>1. s.spans[k] \in Span(Nat) /\ m.spans[k] = set_span(s.spans[k])
    BY <1>1, <1>3, SeqFacts
  <2> QED BY <2>1, SpanThrough
<1>6. [i \in DOMAIN m.spans |-> decode_span(m.spans[i], now)]
         = [k \in DOMAIN s.spans |-> ThroughSpan(s.spans[k], now)]
  BY <1>3, <1>5
<1>7. decode_scope_span(m, now) = ThroughScopeSpan(s, now)
  BY <1>3, <1>4, <1>6 DEF decode_scope_span, ThroughScopeSpan
<1> QED BY <1>2, <1>7

ThroughResourceSpan(r, now) ==
    [resource    |-> [attr |-> OrEmpty(ThroughAttributes(r.resource.attr)),
                      dropped_attr_count |-> r.resource.dropped_attr_count],
     schema_url  |-> StringField(r.schema_url),
     scope_spans |-> [j \in DOMAIN r.scope_spans |-> ThroughScopeSpan(r.scope_spans[j], now)]]

LEMMA ResourceSpanThrough ==
    ASSUME NEW r \in ResourceSpan(Nat), NEW now \in Nat \ {0}
    PROVE  decode_resource_span(set_resource_span(r), now) = ThroughResourceSpan(r, now)
<1>1. r.resource.attr \in AttributeSet /\ r.scope_spans \in Seq(ScopeSpan(Nat))
  BY DEF ResourceSpan
<1>2. PICK m, attr : m = set_resource_span(r) /\ attr = set_attributes_from_ctr(r.resource.attr)
  OBVIOUS
<1>3. /\ m.resource = [attributes |-> attr,
                       dropped_attributes_count |-> r.resource.dropped_attr_count]
      /\ m.schema_url = StringField(r.schema_url)
      /\ m.scope_spans = [i \in DOMAIN r.scope_spans |-> set_scope_span(r.scope_spans[i])]
  BY <1>2 DEF set_resource_span
<1>4. /\ m.resource.attributes = attr
      /\ m.resource.dropped_attributes_count = r.resource.dropped_attr_count
  BY <1>3
<1>5. convert_otel_attrs(attr) = ThroughAttributes(r.resource.attr)
  BY <1>1, <1>2, AttributesThrough
<1>6. \A j \in DOMAIN r.scope_spans :
         decode_scope_span(m.scope_spans[j], now) = ThroughScopeSpan(r.scope_spans[j], now)
  <2> SUFFICES ASSUME NEW j \in DOMAIN r.scope_spans
               PROVE  decode_scope_span(m.scope_spans[j], now)
                         = ThroughScopeSpan(r.scope_spans[j], now)
    OBVIOUS
  <2>1. r.scope_spans[j] \in ScopeSpan(Nat) /\ m.scope_spans[j] = set_scope_span(r.scope_spans[j])
    BY <1>1, <1>3, SeqFacts
  <2> QED BY <2>1, ScopeSpanThrough
<1>7. [i \in DOMAIN m.scope_spans |-> decode_scope_span(m.scope_spans[i], now)]
         = [j \in DOMAIN r.scope_spans |-> ThroughScopeSpan(r.scope_spans[j], now)]
  BY <1>3, <1>6
<1>8. decode_resource_span(m, now) = ThroughResourceSpan(r, now)
  BY <1>3, <1>4, <1>5, <1>7 DEF decode_resource_span, ThroughResourceSpan
<1> QED BY <1>2, <1>8

\* An empty context takes no bytes and is not decoded; every other one comes back
\* with what each structure keeps.
LEMMA ContextThrough ==
    ASSUME NEW ctx \in Context(Nat), NEW now \in Nat \ {0}
    PROVE  /\ ctx = <<>> => OtlpDecode(OtlpEncode(ctx), now) = NULL
           /\ ctx # <<>> => /\ OtlpDecode(OtlpEncode(ctx), now)
                                 = [i \in DOMAIN ctx |-> ThroughResourceSpan(ctx[i], now)]
                            /\ OtlpDecode(OtlpEncode(ctx), now) \in Arrived
<1>1. PICK m : m = OtlpEncode(ctx)
  OBVIOUS
<1>2. /\ m \in Seq(ResourceSpanMessage(Nat)) /\ Len(m) = Len(ctx)
      /\ \A i \in DOMAIN ctx : m[i] = set_resource_span(ctx[i]) /\ m[i].resource # NULL
  BY <1>1, ContextSent DEF OtlpMessage
<1>3. ctx \in Seq(ResourceSpan(Nat))
  BY DEF Context
<1>4. DOMAIN m = DOMAIN ctx
  BY <1>2, <1>3, SeqFacts
<1>5. CASE ctx = <<>>
  <2>1. m = <<>>
    BY <1>2, <1>5, EmptySeq
  <2> QED BY <1>1, <1>5, <2>1 DEF OtlpDecode
<1>6. CASE ctx # <<>>
  <2>1. m # <<>>
    BY <1>2, <1>3, <1>6, EmptySeq
  <2>2. OtlpDecode(m, now) = [i \in DOMAIN m |-> decode_resource_span(m[i], now)]
    BY <1>2, <1>4, <2>1 DEF OtlpDecode
  <2>3. \A i \in DOMAIN ctx : decode_resource_span(m[i], now) = ThroughResourceSpan(ctx[i], now)
    <3> SUFFICES ASSUME NEW i \in DOMAIN ctx
                 PROVE  decode_resource_span(m[i], now) = ThroughResourceSpan(ctx[i], now)
      OBVIOUS
    <3>1. ctx[i] \in ResourceSpan(Nat) /\ m[i] = set_resource_span(ctx[i])
      BY <1>2, <1>3, SeqFacts
    <3> QED BY <3>1, ResourceSpanThrough
  <2>4. OtlpDecode(m, now) = [i \in DOMAIN ctx |-> ThroughResourceSpan(ctx[i], now)]
    BY <1>4, <2>2, <2>3
  <2>5. m \in OtlpMessage(Nat)
    BY <1>2 DEF OtlpMessage
  <2>6. \A i \in DOMAIN ctx : ThroughResourceSpan(ctx[i], now) \in ArrivedResourceSpan
    <3> SUFFICES ASSUME NEW i \in DOMAIN ctx
                 PROVE  ThroughResourceSpan(ctx[i], now) \in ArrivedResourceSpan
      OBVIOUS
    <3>1. /\ m[i] \in ResourceSpanMessage(Nat) /\ m[i].resource # NULL
          /\ decode_resource_span(m[i], now) = ThroughResourceSpan(ctx[i], now)
      BY <1>2, <1>4, <2>3, SeqFacts
    <3> QED BY <3>1, ResourceSpanReceived
  <2>7. PICK d : d = OtlpDecode(m, now)
    OBVIOUS
  <2>8. /\ DOMAIN d = DOMAIN ctx /\ d = [i \in DOMAIN d |-> d[i]]
        /\ \A i \in DOMAIN ctx : d[i] \in ArrivedResourceSpan
    BY <2>4, <2>6, <2>7
  <2>9. d \in Arrived
    BY <1>3, <2>8, IsSequence DEF Arrived
  <2> QED BY <1>1, <1>6, <2>4, <2>7, <2>9
<1> QED BY <1>5, <1>6

-----------------------------------------------------------------------------
(* The two routes.                                                         *)

\* The encoder for OpenTelemetry does not look at the flags.
LEMMA FlagsAreNotSent ==
    ASSUME NEW p \in Span(Nat)
    PROVE  set_span(Flagless(p)) = set_span(p)
<1>1. PICK q : q = Flagless(p)
  OBVIOUS
<1>2. PICK links : links = FlaglessLinks(p.links)
  OBVIOUS
<1>3. q = [trace_id |-> p.trace_id, span_id |-> p.span_id,
           parent_span_id |-> p.parent_span_id, trace_state |-> p.trace_state,
           name |-> p.name, schema_url |-> p.schema_url, kind |-> p.kind,
           flags |-> 0, start_time_unix_nano |-> p.start_time_unix_nano,
           end_time_unix_nano |-> p.end_time_unix_nano, attr |-> p.attr,
           dropped_attr_count |-> p.dropped_attr_count, events |-> p.events,
           dropped_events_count |-> p.dropped_events_count, links |-> links,
           dropped_links_count |-> p.dropped_links_count, status |-> p.status]
  BY <1>1, <1>2, FlaglessFields
<1>4. /\ q.trace_id = p.trace_id /\ q.span_id = p.span_id
      /\ q.parent_span_id = p.parent_span_id /\ q.trace_state = p.trace_state
      /\ q.name = p.name /\ q.kind = p.kind
      /\ q.start_time_unix_nano = p.start_time_unix_nano
      /\ q.end_time_unix_nano = p.end_time_unix_nano
      /\ q.attr = p.attr /\ q.dropped_attr_count = p.dropped_attr_count
      /\ q.events = p.events /\ q.dropped_events_count = p.dropped_events_count
      /\ q.links = links /\ q.status = p.status
  BY <1>3
<1>5. DOMAIN links = DOMAIN p.links
  BY <1>2 DEF FlaglessLinks
<1>6. ASSUME NEW i \in DOMAIN p.links
      PROVE  set_link(links[i]) = set_link(p.links[i])
  <2>1. PICK l \in Link(Nat) : l = p.links[i]
    BY SpanFields, SeqFacts
  <2>2. links[i] = [l EXCEPT !.flags = 0]
    BY <1>2, <2>1 DEF FlaglessLinks
  <2>3. PICK k : k = links[i]
    OBVIOUS
  <2>4. /\ k.trace_id = l.trace_id /\ k.span_id = l.span_id /\ k.trace_state = l.trace_state
        /\ k.attr = l.attr /\ k.dropped_attr_count = l.dropped_attr_count
    BY <2>2, <2>3 DEF Link
  <2>5. set_link(k) = set_link(l)
    BY <2>4 DEF set_link
  <2> QED BY <2>1, <2>3, <2>5
<1>7. [i \in DOMAIN q.links |-> set_link(q.links[i])]
         = [i \in DOMAIN p.links |-> set_link(p.links[i])]
  BY <1>4, <1>5, <1>6
<1>8. set_span(q) = set_span(p)
  BY <1>4, <1>7 DEF set_span
<1> QED BY <1>1, <1>8

LEMMA FlagsOfScopeSpanAreNotSent ==
    ASSUME NEW s \in ScopeSpan(Nat)
    PROVE  set_scope_span([s EXCEPT !.spans = FlaglessSpans(@)]) = set_scope_span(s)
<1>1. PICK q : q = [s EXCEPT !.spans = FlaglessSpans(@)]
  OBVIOUS
<1>2. /\ q.instrumentation_scope = s.instrumentation_scope /\ q.schema_url = s.schema_url
      /\ q.spans = FlaglessSpans(s.spans) /\ s.spans \in Seq(Span(Nat))
  BY <1>1 DEF ScopeSpan
<1>3. PICK spans : spans = FlaglessSpans(s.spans)
  OBVIOUS
<1>4. ASSUME NEW k \in DOMAIN s.spans
      PROVE  set_span(spans[k]) = set_span(s.spans[k])
  <2>1. s.spans[k] \in Span(Nat) /\ spans[k] = Flagless(s.spans[k])
    BY <1>2, <1>3, SeqFacts DEF FlaglessSpans
  <2> QED BY <2>1, FlagsAreNotSent
<1>5. DOMAIN spans = DOMAIN s.spans
  BY <1>3 DEF FlaglessSpans
<1>6. [i \in DOMAIN q.spans |-> set_span(q.spans[i])]
         = [i \in DOMAIN s.spans |-> set_span(s.spans[i])]
  BY <1>2, <1>3, <1>4, <1>5
<1>7. set_scope_span(q) = set_scope_span(s)
  BY <1>2, <1>6 DEF set_scope_span
<1> QED BY <1>1, <1>7

LEMMA FlagsOfResourceSpanAreNotSent ==
    ASSUME NEW r \in ResourceSpan(Nat)
    PROVE  set_resource_span([r EXCEPT !.scope_spans = FlaglessScopeSpans(@)])
              = set_resource_span(r)
<1>1. PICK q : q = [r EXCEPT !.scope_spans = FlaglessScopeSpans(@)]
  OBVIOUS
<1>2. /\ q.resource = r.resource /\ q.schema_url = r.schema_url
      /\ q.scope_spans = FlaglessScopeSpans(r.scope_spans)
      /\ r.scope_spans \in Seq(ScopeSpan(Nat))
  BY <1>1 DEF ResourceSpan
<1>3. PICK scope_spans : scope_spans = FlaglessScopeSpans(r.scope_spans)
  OBVIOUS
<1>4. ASSUME NEW j \in DOMAIN r.scope_spans
      PROVE  set_scope_span(scope_spans[j]) = set_scope_span(r.scope_spans[j])
  <2>1. PICK s \in ScopeSpan(Nat) : s = r.scope_spans[j]
    BY <1>2, SeqFacts
  <2>2. scope_spans[j] = [s EXCEPT !.spans = FlaglessSpans(@)]
    BY <1>3, <2>1 DEF FlaglessScopeSpans
  <2> QED BY <2>1, <2>2, FlagsOfScopeSpanAreNotSent
<1>5. DOMAIN scope_spans = DOMAIN r.scope_spans
  BY <1>3 DEF FlaglessScopeSpans
<1>6. [i \in DOMAIN q.scope_spans |-> set_scope_span(q.scope_spans[i])]
         = [i \in DOMAIN r.scope_spans |-> set_scope_span(r.scope_spans[i])]
  BY <1>2, <1>3, <1>4, <1>5
<1>7. set_resource_span(q) = set_resource_span(r)
  BY <1>2, <1>6 DEF set_resource_span
<1> QED BY <1>1, <1>7

LEMMA FlagsOfContextAreNotSent ==
    ASSUME NEW ctx \in Context(Nat)
    PROVE  OtlpEncode(EachSpan(ctx, Flagless)) = OtlpEncode(ctx)
<1>1. PICK d : d = EachSpan(ctx, Flagless)
  OBVIOUS
<1>2. d = [i \in DOMAIN ctx |-> [ctx[i] EXCEPT !.scope_spans = FlaglessScopeSpans(@)]]
  BY <1>1, FlaglessContext
<1>3. ASSUME NEW i \in DOMAIN ctx
      PROVE  set_resource_span(d[i]) = set_resource_span(ctx[i])
  <2>1. PICK r \in ResourceSpan(Nat) : r = ctx[i]
    BY SeqFacts DEF Context
  <2>2. d[i] = [r EXCEPT !.scope_spans = FlaglessScopeSpans(@)]
    BY <1>2, <2>1
  <2> QED BY <2>1, <2>2, FlagsOfResourceSpanAreNotSent
<1>4. DOMAIN d = DOMAIN ctx
  BY <1>2
<1>5. OtlpEncode(d) = OtlpEncode(ctx)
  BY <1>3, <1>4 DEF OtlpEncode
<1> QED BY <1>1, <1>5

\* What came by OpenTelemetry has no flags to lose.
LEMMA ArrivedSpanHasNoFlags ==
    ASSUME NEW p \in ArrivedSpan
    PROVE  Flagless(p) = p
<1>1. FlaglessLinks(p.links) = p.links
  <2>1. p.links = [i \in DOMAIN p.links |-> p.links[i]]
    BY ArrivedSpanFields, SeqFacts
  <2>2. ASSUME NEW i \in DOMAIN p.links
        PROVE  [p.links[i] EXCEPT !.flags = 0] = p.links[i]
    <3>1. PICK l \in ArrivedLink : l = p.links[i]
      BY ArrivedSpanFields, SeqFacts
    <3>2. /\ l = [trace_id |-> l.trace_id, span_id |-> l.span_id,
                  trace_state |-> l.trace_state, attr |-> l.attr,
                  dropped_attr_count |-> l.dropped_attr_count, flags |-> l.flags]
          /\ l.flags = 0
      BY DEF ArrivedLink
    <3>3. [l EXCEPT !.flags = 0] = l
      BY <3>2
    <3> QED BY <3>1, <3>3
  <2> QED BY <2>1, <2>2 DEF FlaglessLinks
<1>2. p.flags = 0
  BY ArrivedSpanFields
<1>3. p \in Span(Nat)
  BY ArrivedSpanIsSpan
<1>4. PICK links : links = FlaglessLinks(p.links)
  OBVIOUS
<1>5. Flagless(p) =
              [trace_id |-> p.trace_id, span_id |-> p.span_id,
               parent_span_id |-> p.parent_span_id, trace_state |-> p.trace_state,
               name |-> p.name, schema_url |-> p.schema_url, kind |-> p.kind,
               flags |-> 0, start_time_unix_nano |-> p.start_time_unix_nano,
               end_time_unix_nano |-> p.end_time_unix_nano, attr |-> p.attr,
               dropped_attr_count |-> p.dropped_attr_count, events |-> p.events,
               dropped_events_count |-> p.dropped_events_count, links |-> links,
               dropped_links_count |-> p.dropped_links_count, status |-> p.status]
  BY <1>3, <1>4, FlaglessFields
<1>6. p =     [trace_id |-> p.trace_id, span_id |-> p.span_id,
               parent_span_id |-> p.parent_span_id, trace_state |-> p.trace_state,
               name |-> p.name, schema_url |-> p.schema_url, kind |-> p.kind,
               flags |-> p.flags, start_time_unix_nano |-> p.start_time_unix_nano,
               end_time_unix_nano |-> p.end_time_unix_nano, attr |-> p.attr,
               dropped_attr_count |-> p.dropped_attr_count, events |-> p.events,
               dropped_events_count |-> p.dropped_events_count, links |-> p.links,
               dropped_links_count |-> p.dropped_links_count, status |-> p.status]
  BY <1>3, SpanFields
<1>7. links = p.links
  BY <1>1, <1>4
<1> QED BY <1>2, <1>5, <1>6, <1>7

LEMMA ArrivedHasNoFlags ==
    ASSUME NEW d \in Arrived
    PROVE  EachSpan(d, Flagless) = d
<1>1. ASSUME NEW s \in ArrivedScopeSpan
      PROVE  [s EXCEPT !.spans = FlaglessSpans(@)] = s
  <2>1. /\ s = [instrumentation_scope |-> s.instrumentation_scope, schema_url |-> s.schema_url,
                spans |-> s.spans]
        /\ s.spans \in Seq(ArrivedSpan)
    BY DEF ArrivedScopeSpan
  <2>2. s.spans = [k \in DOMAIN s.spans |-> s.spans[k]]
    BY <2>1, SeqFacts
  <2>3. \A k \in DOMAIN s.spans : Flagless(s.spans[k]) = s.spans[k]
    BY <2>1, SeqFacts, ArrivedSpanHasNoFlags
  <2>4. FlaglessSpans(s.spans) = s.spans
    BY <2>2, <2>3 DEF FlaglessSpans
  <2> QED BY <2>1, <2>4
<1>2. ASSUME NEW r \in ArrivedResourceSpan
      PROVE  [r EXCEPT !.scope_spans = FlaglessScopeSpans(@)] = r
  <2>1. r.scope_spans \in Seq(ArrivedScopeSpan)
    BY ArrivedResourceSpanFields
  <2>2. r.scope_spans = [j \in DOMAIN r.scope_spans |-> r.scope_spans[j]]
    BY <2>1, SeqFacts
  <2>3. \A j \in DOMAIN r.scope_spans :
           [r.scope_spans[j] EXCEPT !.spans = FlaglessSpans(@)] = r.scope_spans[j]
    BY <1>1, <2>1, SeqFacts
  <2>4. FlaglessScopeSpans(r.scope_spans) = r.scope_spans
    BY <2>2, <2>3 DEF FlaglessScopeSpans
  <2> QED BY <2>4, ArrivedResourceSpanFields
<1>3. d = [i \in DOMAIN d |-> d[i]] /\ \A i \in DOMAIN d : d[i] \in ArrivedResourceSpan
  BY SeqFacts DEF Arrived
<1>4. EachSpan(d, Flagless)
         = [i \in DOMAIN d |-> [d[i] EXCEPT !.scope_spans = FlaglessScopeSpans(@)]]
  BY ArrivedIsContext, FlaglessContext
<1> QED BY <1>2, <1>3, <1>4

\* A context that MessagePack can carry is still one after a hop by OpenTelemetry.
LEMMA FitsThrough ==
    ASSUME NEW attr, KeysFit(attr)
    PROVE  KeysFit(ThroughAttributes(attr)) /\ KeysFit(OrEmpty(ThroughAttributes(attr)))
<1>1. KeysFit(<<>>)
  BY DEF KeysFit
<1>2. KeysFit(ThroughAttributes(attr))
  BY <1>1 DEF ThroughAttributes, set_attributes_from_ctr, KeysFit
<1> QED BY <1>1, <1>2 DEF OrEmpty

LEMMA SpanFitsThrough ==
    ASSUME NEW p \in Span(Nat), SpanFits(p), NEW now \in Nat \ {0}
    PROVE  SpanFits(ThroughSpan(p, now))
<1>1. PICK q, events, links, attr : /\ q = ThroughSpan(p, now)
                                    /\ events = ThroughEvents(p.events, now)
                                    /\ links = ThroughLinks(p.links)
                                    /\ attr = OrEmpty(ThroughAttributes(p.attr))
  OBVIOUS
<1>2. q.attr = attr /\ q.events = events /\ q.links = links
  BY <1>1 DEF ThroughSpan
<1>3. KeysFit(attr)
  BY <1>1, FitsThrough DEF SpanFits
<1>4. ASSUME NEW i \in DOMAIN events PROVE KeysFit(events[i].attr)
  <2>1. i \in DOMAIN p.events /\ events[i] = ThroughEvent(p.events[i], now)
    BY <1>1, SpanFields, EventsThrough
  <2>2. events[i].attr = OrEmpty(ThroughAttributes(p.events[i].attr))
    BY <2>1 DEF ThroughEvent
  <2>3. KeysFit(p.events[i].attr)
    BY <2>1 DEF SpanFits
  <2> QED BY <2>2, <2>3, FitsThrough
<1>5. ASSUME NEW i \in DOMAIN links PROVE KeysFit(links[i].attr)
  <2>1. i \in DOMAIN p.links /\ links[i] = ThroughLink(p.links[i])
    BY <1>1, SpanFields, LinksThrough
  <2>2. links[i].attr = ThroughAttributes(p.links[i].attr)
    BY <2>1 DEF ThroughLink
  <2>3. KeysFit(p.links[i].attr)
    BY <2>1 DEF SpanFits
  <2> QED BY <2>2, <2>3, FitsThrough
<1> QED BY <1>1, <1>2, <1>3, <1>4, <1>5 DEF SpanFits

LEMMA ScopeSpanFitsThrough ==
    ASSUME NEW s \in ScopeSpan(Nat), ScopeSpanFits(s), NEW now \in Nat \ {0}
    PROVE  ScopeSpanFits(ThroughScopeSpan(s, now))
<1>1. PICK q, scope, spans : /\ q = ThroughScopeSpan(s, now)
                             /\ scope = ThroughScope(s.instrumentation_scope)
                             /\ spans = [k \in DOMAIN s.spans |-> ThroughSpan(s.spans[k], now)]
  OBVIOUS
<1>2. q.instrumentation_scope = scope /\ q.spans = spans
  BY <1>1 DEF ThroughScopeSpan
<1>3. ScopeFits(scope)
  <2>1. CASE scope = NULL
    BY <2>1 DEF ScopeFits
  <2>2. CASE scope # NULL
    <3>1. /\ s.instrumentation_scope # NULL
          /\ scope.attr = ThroughAttributes(s.instrumentation_scope.attr)
      BY <1>1, <2>2 DEF ThroughScope
    <3>2. KeysFit(s.instrumentation_scope.attr)
      BY <3>1 DEF ScopeSpanFits, ScopeFits
    <3> QED BY <3>1, <3>2, FitsThrough DEF ScopeFits
  <2> QED BY <2>1, <2>2
<1>4. ASSUME NEW k \in DOMAIN spans PROVE SpanFits(spans[k])
  <2>1. /\ s.spans \in Seq(Span(Nat)) /\ k \in DOMAIN s.spans
        /\ spans[k] = ThroughSpan(s.spans[k], now)
    BY <1>1 DEF ScopeSpan
  <2>2. s.spans[k] \in Span(Nat) /\ SpanFits(s.spans[k])
    BY <2>1, SeqFacts DEF ScopeSpanFits
  <2> QED BY <2>1, <2>2, SpanFitsThrough
<1> QED BY <1>1, <1>2, <1>3, <1>4 DEF ScopeSpanFits

LEMMA ContextFitsThrough ==
    ASSUME NEW ctx \in Context(Nat), ctx # <<>>, ContextFits(ctx), NEW now \in Nat \ {0}
    PROVE  ContextFits(OtlpDecode(OtlpEncode(ctx), now))
<1>1. PICK d : d = OtlpDecode(OtlpEncode(ctx), now)
  OBVIOUS
<1>2. d = [i \in DOMAIN ctx |-> ThroughResourceSpan(ctx[i], now)]
  BY <1>1, ContextThrough
<1>3. ASSUME NEW i \in DOMAIN ctx
      PROVE  /\ KeysFit(d[i].resource.attr)
             /\ \A j \in DOMAIN d[i].scope_spans : ScopeSpanFits(d[i].scope_spans[j])
  <2>1. PICK r \in ResourceSpan(Nat) : r = ctx[i]
    BY SeqFacts DEF Context
  <2>2. PICK q, scope_spans, attr :
          /\ q = d[i] /\ attr = OrEmpty(ThroughAttributes(r.resource.attr))
          /\ scope_spans = [j \in DOMAIN r.scope_spans |-> ThroughScopeSpan(r.scope_spans[j], now)]
    OBVIOUS
  <2>3. /\ q.resource = [attr |-> attr, dropped_attr_count |-> r.resource.dropped_attr_count]
        /\ q.scope_spans = scope_spans
    BY <1>2, <2>1, <2>2 DEF ThroughResourceSpan
  <2>4. q.resource.attr = attr
    BY <2>3
  <2>5. /\ KeysFit(r.resource.attr) /\ r.scope_spans \in Seq(ScopeSpan(Nat))
        /\ \A j \in DOMAIN r.scope_spans : ScopeSpanFits(r.scope_spans[j])
    BY <2>1 DEF ContextFits, ResourceSpan
  <2>6. KeysFit(attr)
    BY <2>2, <2>5, FitsThrough
  <2>7. ASSUME NEW j \in DOMAIN scope_spans PROVE ScopeSpanFits(scope_spans[j])
    <3>1. /\ j \in DOMAIN r.scope_spans
          /\ scope_spans[j] = ThroughScopeSpan(r.scope_spans[j], now)
      BY <2>2
    <3>2. r.scope_spans[j] \in ScopeSpan(Nat) /\ ScopeSpanFits(r.scope_spans[j])
      BY <2>5, <3>1, SeqFacts
    <3> QED BY <3>1, <3>2, ScopeSpanFitsThrough
  <2> QED BY <2>2, <2>3, <2>4, <2>6, <2>7
<1>4. DOMAIN d = DOMAIN ctx
  BY <1>2
<1>5. ContextFits(d)
  BY <1>3, <1>4 DEF ContextFits
<1> QED BY <1>1, <1>5

\* Whatever a gateway holds, if MessagePack can carry it at all, the same context
\* comes out of a hop by MessagePack and one by OpenTelemetry as out of the same
\* hops in the other order.
THEOREM TheRoutesCommute == Spec => []RoutesCommute
<1>1. Course => RoutesCommute
  <2> SUFFICES ASSUME Course, NEW now \in Clock, doc # NULL,
                      MsgpackDecode(MsgpackEncode(doc)) # NULL, doc # <<>>
               PROVE  OtlpDecode(OtlpEncode(MsgpackDecode(MsgpackEncode(doc))), now)
                         = MsgpackDecode(MsgpackEncode(OtlpDecode(OtlpEncode(doc), now)))
    BY DEF RoutesCommute
  <2>1. doc \in Context(Nat)
    BY DEF Course, TypeOK, Num
  <2>2. now \in Nat \ {0}
    BY TimeHasBegun DEF Num
  <2>3. ContextFits(doc) /\ MsgpackDecode(MsgpackEncode(doc)) = EachSpan(doc, Flagless)
    BY <2>1, ContextBack
  <2>4. PICK d : d = OtlpDecode(OtlpEncode(doc), now)
    OBVIOUS
  <2>5. OtlpDecode(OtlpEncode(MsgpackDecode(MsgpackEncode(doc))), now) = d
    BY <2>1, <2>3, <2>4, FlagsOfContextAreNotSent
  <2>6. d \in Arrived /\ ContextFits(d)
    BY <2>1, <2>2, <2>3, <2>4, ContextThrough, ContextFitsThrough
  <2>7. MsgpackDecode(MsgpackEncode(d)) = EachSpan(d, Flagless)
    BY <2>6, ArrivedIsContext, ContextBack
  <2>8. EachSpan(d, Flagless) = d
    BY <2>6, ArrivedHasNoFlags
  <2> QED BY <2>4, <2>5, <2>7, <2>8
<1> QED BY <1>1, CourseHolds, PTL

-----------------------------------------------------------------------------
(* The second hop by OpenTelemetry.                                        *)

LEMMA ArrivedAttributesStay ==
    ASSUME NEW attr \in ByteFree
    PROVE  /\ ~Lost(attr) /\ ThroughAttributes(attr) = attr
           /\ OrEmpty(ThroughAttributes(attr)) = attr
BY ByteFreeFacts DEF Lost, ThroughAttributes, set_attributes_from_ctr, OrEmpty

LEMMA ArrivedStringsStay ==
    ASSUME NEW s \in StringValue
    PROVE  StringField(s) = s
BY NullIsNoString DEF StringField, StringValue

\* Nothing is lost, and so as many events come out as go in.
LEMMA NothingLost ==
    ASSUME NEW S, NEW T, NEW s \in Seq(S), NEW d \in Seq(T), Len(d) <= Len(s),
           Len(d) < Len(s) => Len(d) \in DOMAIN s /\ Lost(s[Len(d)].attr),
           \A i \in DOMAIN s : ~Lost(s[i].attr)
    PROVE  DOMAIN d = DOMAIN s
<1>1. Len(s) \in Nat /\ Len(d) \in Nat /\ DOMAIN s = 1..Len(s) /\ DOMAIN d = 1..Len(d)
  BY SeqFacts
<1>2. ASSUME Len(d) < Len(s) PROVE FALSE
  <2>1. PICK i \in DOMAIN s : i = Len(d) /\ Lost(s[i].attr)
    BY <1>2
  <2> QED BY <2>1
<1>3. Len(d) = Len(s)
  <2>1. PICK m \in Nat, n \in Nat : m = Len(d) /\ n = Len(s)
    BY <1>1
  <2>2. m <= n /\ ~(m < n)
    BY <1>2, <2>1
  <2>3. m = n
    BY <2>2
  <2> QED BY <2>1, <2>3
<1> QED BY <1>1, <1>3

LEMMA ArrivedEventsStay ==
    ASSUME NEW s \in Seq(ArrivedEvent), NEW now \in Nat \ {0}
    PROVE  ThroughEvents(s, now) = s
<1>1. s \in Seq(Event(Nat))
  BY ArrivedEventIsEvent, WiderSeq
<1>2. PICK d : d = ThroughEvents(s, now)
  OBVIOUS
<1>3. /\ d \in Seq(ArrivedEvent) /\ Len(d) <= Len(s)
      /\ \A i \in DOMAIN d : i \in DOMAIN s /\ d[i] = ThroughEvent(s[i], now)
      /\ Len(d) < Len(s) => Len(d) \in DOMAIN s /\ Lost(s[Len(d)].attr)
  BY <1>1, <1>2, EventsThrough
<1>4. ASSUME NEW i \in DOMAIN s
      PROVE  ~Lost(s[i].attr) /\ ThroughEvent(s[i], now) = s[i]
  <2>1. PICK e \in ArrivedEvent : e = s[i]
    BY SeqFacts
  <2>2. /\ e = [name |-> e.name, time_unix_nano |-> e.time_unix_nano, attr |-> e.attr,
                dropped_attr_count |-> e.dropped_attr_count]
        /\ e.name \in StringValue /\ e.time_unix_nano # 0 /\ e.attr \in ByteFree
    BY DEF ArrivedEvent
  <2>3. /\ ~Lost(e.attr) /\ OrEmpty(ThroughAttributes(e.attr)) = e.attr
        /\ StringField(e.name) = e.name
    BY <2>2, ArrivedAttributesStay, ArrivedStringsStay
  <2>4. ThroughEvent(e, now) = e
    BY <2>2, <2>3 DEF ThroughEvent
  <2> QED BY <2>1, <2>3, <2>4
<1>5. DOMAIN d = DOMAIN s
  BY <1>3, <1>4, NothingLost
<1>6. d = [i \in DOMAIN d |-> d[i]] /\ s = [i \in DOMAIN s |-> s[i]]
  BY <1>3, SeqFacts
<1> QED BY <1>2, <1>3, <1>4, <1>5, <1>6

SettledLink(l) == [l EXCEPT !.attr = IF l.attr = NULL THEN <<>> ELSE l.attr]

LEMMA ArrivedLinksStay ==
    ASSUME NEW s \in Seq(ArrivedLink)
    PROVE  ThroughLinks(s) = [i \in DOMAIN s |-> SettledLink(s[i])]
<1>1. s \in Seq(Link(Nat))
  BY ArrivedLinkIsLink, WiderSeq
<1>2. PICK d : d = ThroughLinks(s)
  OBVIOUS
<1>3. /\ d \in Seq(ArrivedLink) /\ Len(d) <= Len(s)
      /\ \A i \in DOMAIN d : i \in DOMAIN s /\ d[i] = ThroughLink(s[i])
      /\ Len(d) < Len(s) => Len(d) \in DOMAIN s /\ Lost(s[Len(d)].attr)
  BY <1>1, <1>2, LinksThrough
<1>4. ASSUME NEW i \in DOMAIN s
      PROVE  ~Lost(s[i].attr) /\ ThroughLink(s[i]) = SettledLink(s[i])
  <2>1. PICK l \in ArrivedLink : l = s[i]
    BY SeqFacts
  <2>2. /\ l = [trace_id |-> l.trace_id, span_id |-> l.span_id, trace_state |-> l.trace_state,
                attr |-> l.attr, dropped_attr_count |-> l.dropped_attr_count,
                flags |-> l.flags]
        /\ l.trace_state = NULL /\ l.flags = 0 /\ l.attr \in ByteFree \cup {NULL}
    BY DEF ArrivedLink
  <2>3. ~Lost(l.attr) /\ ThroughAttributes(l.attr) = IF l.attr = NULL THEN <<>> ELSE l.attr
    <3>1. CASE l.attr = NULL
      BY <3>1 DEF Lost, ThroughAttributes, set_attributes_from_ctr
    <3>2. CASE l.attr \in ByteFree /\ l.attr # NULL
      BY <3>2, ArrivedAttributesStay
    <3> QED BY <2>2, <3>1, <3>2
  <2>4. ThroughLink(l) = SettledLink(l)
    BY <2>2, <2>3 DEF ThroughLink, SettledLink
  <2> QED BY <2>1, <2>3, <2>4
<1>5. DOMAIN d = DOMAIN s
  BY <1>3, <1>4, NothingLost
<1>6. d = [i \in DOMAIN d |-> d[i]]
  BY <1>3, SeqFacts
<1> QED BY <1>2, <1>3, <1>4, <1>5, <1>6

LEMMA SettledFields ==
    ASSUME NEW p \in Span(Nat)
    PROVE  Settled(p) =
              [trace_id |-> p.trace_id, span_id |-> p.span_id,
               parent_span_id |-> p.parent_span_id, trace_state |-> p.trace_state,
               name |-> p.name, schema_url |-> p.schema_url, kind |-> p.kind,
               flags |-> p.flags, start_time_unix_nano |-> p.start_time_unix_nano,
               end_time_unix_nano |-> p.end_time_unix_nano, attr |-> p.attr,
               dropped_attr_count |-> p.dropped_attr_count, events |-> p.events,
               dropped_events_count |-> p.dropped_events_count,
               links |-> [i \in DOMAIN p.links |-> SettledLink(p.links[i])],
               dropped_links_count |-> 0,
               status |-> [code |-> p.status.code, message |-> StringField(p.status.message)]]
<1>1. PICK links, status :
        /\ links = [i \in DOMAIN p.links |-> SettledLink(p.links[i])]
        /\ status = [code |-> p.status.code, message |-> StringField(p.status.message)]
  OBVIOUS
<1>2. p.status = [code |-> p.status.code, message |-> p.status.message]
  BY SpanFields
<1>3. [p.status EXCEPT !.message = StringField(p.status.message)] = status
  BY <1>1, <1>2
<1>4. Settled(p) = [p EXCEPT !.dropped_links_count = 0,
                             !.status = [p.status EXCEPT !.message = StringField(p.status.message)],
                             !.links = links]
  BY <1>1, SpanFields DEF Settled, SettledLink, StringField
<1>5. Settled(p) = [p EXCEPT !.dropped_links_count = 0, !.status = status, !.links = links]
  BY <1>3, <1>4
<1>6. Settled(p) =
              [trace_id |-> p.trace_id, span_id |-> p.span_id,
               parent_span_id |-> p.parent_span_id, trace_state |-> p.trace_state,
               name |-> p.name, schema_url |-> p.schema_url, kind |-> p.kind,
               flags |-> p.flags, start_time_unix_nano |-> p.start_time_unix_nano,
               end_time_unix_nano |-> p.end_time_unix_nano, attr |-> p.attr,
               dropped_attr_count |-> p.dropped_attr_count, events |-> p.events,
               dropped_events_count |-> p.dropped_events_count, links |-> links,
               dropped_links_count |-> 0, status |-> status]
  BY <1>5 DEF Span
<1> QED BY <1>1, <1>6

LEMMA ArrivedSpanSettles ==
    ASSUME NEW p \in ArrivedSpan, NEW now \in Nat \ {0}
    PROVE  ThroughSpan(p, now) = Settled(p)
<1>1. PICK events, links, status :
        /\ events = ThroughEvents(p.events, now) /\ links = ThroughLinks(p.links)
        /\ status = [code |-> p.status.code, message |-> StringField(p.status.message)]
  OBVIOUS
<1>2. events = p.events /\ links = [i \in DOMAIN p.links |-> SettledLink(p.links[i])]
  BY <1>1, ArrivedSpanFields, ArrivedEventsStay, ArrivedLinksStay
<1>3. StringField(p.name) = p.name /\ OrEmpty(ThroughAttributes(p.attr)) = p.attr
  BY ArrivedSpanFields, ArrivedStringsStay, ArrivedAttributesStay
<1>4. (IF p.trace_state = "" THEN NULL ELSE p.trace_state) = p.trace_state
  BY ArrivedSpanFields, TextIsNotEmpty
<1>5. set_kind(p.kind) = p.kind
  BY ArrivedSpanFields DEF set_kind
<1>6. p.schema_url = NULL /\ p.flags = 0
  BY ArrivedSpanFields
<1>7. ThroughSpan(p, now) =
              [trace_id |-> p.trace_id, span_id |-> p.span_id,
               parent_span_id |-> p.parent_span_id, trace_state |-> p.trace_state,
               name |-> p.name, schema_url |-> p.schema_url, kind |-> p.kind,
               flags |-> p.flags, start_time_unix_nano |-> p.start_time_unix_nano,
               end_time_unix_nano |-> p.end_time_unix_nano, attr |-> p.attr,
               dropped_attr_count |-> p.dropped_attr_count, events |-> events,
               dropped_events_count |-> p.dropped_events_count,
               links |-> links, dropped_links_count |-> 0, status |-> status]
  BY <1>1, <1>3, <1>4, <1>5, <1>6 DEF ThroughSpan
<1>8. Settled(p) =
              [trace_id |-> p.trace_id, span_id |-> p.span_id,
               parent_span_id |-> p.parent_span_id, trace_state |-> p.trace_state,
               name |-> p.name, schema_url |-> p.schema_url, kind |-> p.kind,
               flags |-> p.flags, start_time_unix_nano |-> p.start_time_unix_nano,
               end_time_unix_nano |-> p.end_time_unix_nano, attr |-> p.attr,
               dropped_attr_count |-> p.dropped_attr_count, events |-> p.events,
               dropped_events_count |-> p.dropped_events_count,
               links |-> links, dropped_links_count |-> 0, status |-> status]
  BY <1>1, <1>2, ArrivedSpanIsSpan, SettledFields
<1> QED BY <1>2, <1>7, <1>8

SettledSpans(s) == [k \in DOMAIN s |-> Settled(s[k])]

SettledScopeSpans(s) == [j \in DOMAIN s |-> [s[j] EXCEPT !.spans = SettledSpans(@)]]

LEMMA ArrivedScopeSettles ==
    ASSUME NEW scope \in ArrivedScope \cup {NULL}
    PROVE  ThroughScope(scope) = scope
<1>1. CASE scope = NULL
  BY <1>1 DEF ThroughScope
<1>2. CASE scope \in ArrivedScope /\ scope # NULL
  <2>1. /\ scope = [name |-> scope.name, version |-> scope.version, attr |-> scope.attr,
                    dropped_attr_count |-> scope.dropped_attr_count]
        /\ scope.name \in StringValue /\ scope.version \in StringValue
        /\ scope.attr \in ByteFree
    BY <1>2 DEF ArrivedScope
  <2>2. /\ StringField(scope.name) = scope.name /\ StringField(scope.version) = scope.version
        /\ ~Lost(scope.attr) /\ ThroughAttributes(scope.attr) = scope.attr
    BY <2>1, ArrivedStringsStay, ArrivedAttributesStay
  <2> QED BY <1>2, <2>1, <2>2 DEF ThroughScope
<1> QED BY <1>1, <1>2

LEMMA ArrivedScopeSpanSettles ==
    ASSUME NEW s \in ArrivedScopeSpan, NEW now \in Nat \ {0}
    PROVE  ThroughScopeSpan(s, now) = [s EXCEPT !.spans = SettledSpans(@)]
<1>1. /\ s = [instrumentation_scope |-> s.instrumentation_scope, schema_url |-> s.schema_url,
              spans |-> s.spans]
      /\ s.instrumentation_scope \in ArrivedScope \cup {NULL}
      /\ s.schema_url \in StringValue /\ s.spans \in Seq(ArrivedSpan)
  BY DEF ArrivedScopeSpan
<1>2. /\ ThroughScope(s.instrumentation_scope) = s.instrumentation_scope
      /\ StringField(s.schema_url) = s.schema_url
  BY <1>1, ArrivedScopeSettles, ArrivedStringsStay
<1>3. \A k \in DOMAIN s.spans : ThroughSpan(s.spans[k], now) = Settled(s.spans[k])
  BY <1>1, SeqFacts, ArrivedSpanSettles
<1>4. [k \in DOMAIN s.spans |-> ThroughSpan(s.spans[k], now)] = SettledSpans(s.spans)
  BY <1>3 DEF SettledSpans
<1>5. ThroughScopeSpan(s, now) = [instrumentation_scope |-> s.instrumentation_scope,
                                  schema_url |-> s.schema_url, spans |-> SettledSpans(s.spans)]
  BY <1>2, <1>4 DEF ThroughScopeSpan
<1> QED BY <1>1, <1>5

LEMMA ArrivedResourceSpanSettles ==
    ASSUME NEW r \in ArrivedResourceSpan, NEW now \in Nat \ {0}
    PROVE  ThroughResourceSpan(r, now) = [r EXCEPT !.scope_spans = SettledScopeSpans(@)]
<1>1. /\ r = [resource |-> [attr |-> r.resource.attr,
                            dropped_attr_count |-> r.resource.dropped_attr_count],
              schema_url |-> r.schema_url, scope_spans |-> r.scope_spans]
      /\ r.resource.attr \in ByteFree
      /\ r.schema_url \in StringValue /\ r.scope_spans \in Seq(ArrivedScopeSpan)
  BY ArrivedResourceSpanFields
<1>2. /\ OrEmpty(ThroughAttributes(r.resource.attr)) = r.resource.attr
      /\ StringField(r.schema_url) = r.schema_url
  BY <1>1, ArrivedAttributesStay, ArrivedStringsStay
<1>3. \A j \in DOMAIN r.scope_spans :
         ThroughScopeSpan(r.scope_spans[j], now)
            = [r.scope_spans[j] EXCEPT !.spans = SettledSpans(@)]
  BY <1>1, SeqFacts, ArrivedScopeSpanSettles
<1>4. [j \in DOMAIN r.scope_spans |-> ThroughScopeSpan(r.scope_spans[j], now)]
         = SettledScopeSpans(r.scope_spans)
  BY <1>3 DEF SettledScopeSpans
<1>5. ThroughResourceSpan(r, now) =
        [resource |-> [attr |-> r.resource.attr,
                       dropped_attr_count |-> r.resource.dropped_attr_count],
         schema_url |-> r.schema_url, scope_spans |-> SettledScopeSpans(r.scope_spans)]
  BY <1>2, <1>4 DEF ThroughResourceSpan
<1> QED BY <1>1, <1>5

LEMMA ArrivedContextSettles ==
    ASSUME NEW d \in Arrived, d # <<>>, NEW now \in Nat \ {0}
    PROVE  OtlpDecode(OtlpEncode(d), now) = EachSpan(d, Settled)
<1>1. \A i \in DOMAIN d :
         ThroughResourceSpan(d[i], now) = [d[i] EXCEPT !.scope_spans = SettledScopeSpans(@)]
  BY SeqFacts, ArrivedResourceSpanSettles DEF Arrived
<1>2. OtlpDecode(OtlpEncode(d), now) = [i \in DOMAIN d |-> ThroughResourceSpan(d[i], now)]
  BY ArrivedIsContext, ContextThrough
<1>3. EachSpan(d, Settled) = [i \in DOMAIN d |-> [d[i] EXCEPT !.scope_spans = SettledScopeSpans(@)]]
  BY DEF EachSpan, SettledScopeSpans, SettledSpans
<1> QED BY <1>1, <1>2, <1>3

\* What OpenTelemetry loses it loses at the first hop: a context that came by it
\* goes by it again unchanged, but that a link without attributes gets an empty
\* set, a status a message and the count of dropped links is 0.
THEOREM OpenTelemetrySettles == Spec => OtlpSettles
<1>1. Course /\ [Next]_vars =>
        (Arrives("otlp") /\ via # <<>> /\ via[Len(via)] = "otlp" /\ doc # <<>>
           => doc' = EachSpan(doc, Settled))
  <2> SUFFICES ASSUME Course, [Next]_vars, Arrives("otlp"), via # <<>>,
                      via[Len(via)] = "otlp", doc # <<>>
               PROVE  doc' = EachSpan(doc, Settled)
    OBVIOUS
  <2>1. doc # NULL /\ wire # NULL /\ wire' = NULL /\ wire.codec = "otlp"
    BY DEF Arrives
  <2>2. Next
    BY <2>1 DEF vars
  <2>3. ctr_decode_opentelemetry_create
    BY <2>1, <2>2 DEF Next, ctr_encode_opentelemetry_create, ctr_encode_msgpack_create, Send,
          ctr_decode_msgpack_create
  <2>4. doc \in Arrived
    BY <2>1 DEF Course, LastHop
  <2>5. PICK now \in Nat \ {0} : doc' = OtlpDecode(OtlpEncode(doc), now)
    BY <2>1, <2>3, OtlpArrives
  <2> QED BY <2>4, <2>5, ArrivedContextSettles
<1> QED BY <1>1, CourseHolds, PTL DEF Spec, OtlpSettles

-----------------------------------------------------------------------------
(* What is kept of the context that was built.                             *)

LEMMA AlikeThrough ==
    ASSUME NEW s, NEW was, Alike(s, was)
    PROVE  Alike(StringField(s), was) /\ Alike(IF s = "" THEN NULL ELSE s, was)
BY DEF Alike, StringField

LEMMA NoAttributesNoBytes == NULL # <<>> /\ ~HasBytes(<<>>)
<1>1. <<>> \in AttributeSet
  BY EmptySeq DEF AttributeSet
<1>2. DOMAIN <<>> = {}
  BY EmptySeq, SeqFacts
<1> QED BY <1>1, <1>2, AttributesAreNotNull DEF HasBytes

\* What has bytes was never lost.
LEMMA BytesAreOld ==
    ASSUME NEW attr, NEW was, AttributesKept(attr, was), Lost(attr)
    PROVE  attr = was
BY NoAttributesNoBytes DEF AttributesKept, Lost

LEMMA AttributesKeptThrough ==
    ASSUME NEW attr, NEW was, AttributesKept(attr, was)
    PROVE  /\ AttributesKept(ThroughAttributes(attr), was)
           /\ AttributesKept(OrEmpty(ThroughAttributes(attr)), was)
<1>1. CASE Lost(attr)
  <2>1. attr = was /\ was # NULL /\ HasBytes(was)
    BY <1>1, BytesAreOld DEF Lost
  <2>2. ThroughAttributes(attr) = NULL /\ OrEmpty(ThroughAttributes(attr)) = <<>>
    BY <1>1 DEF ThroughAttributes, OrEmpty
  <2> QED BY <2>1, <2>2 DEF AttributesKept, HasBytes
<1>2. CASE ~Lost(attr) /\ attr = NULL
  <2>1. ThroughAttributes(attr) = <<>> /\ OrEmpty(ThroughAttributes(attr)) = <<>>
    BY <1>2, NoAttributesNoBytes DEF ThroughAttributes, set_attributes_from_ctr, OrEmpty
  <2> QED BY <1>2, <2>1, NoAttributesNoBytes DEF AttributesKept
<1>3. CASE ~Lost(attr) /\ attr # NULL
  BY <1>3 DEF ThroughAttributes, set_attributes_from_ctr, OrEmpty
<1> QED BY <1>1, <1>2, <1>3

\* The end of a list that comes out of a hop: what was lost before stays lost, and
\* what is lost now had bytes from the start.
LEMMA ListKeptThrough ==
    ASSUME NEW S, NEW T, NEW U, NEW was \in Seq(U), NEW mid \in Seq(S), NEW d \in Seq(T),
           Len(d) <= Len(mid),
           Len(d) < Len(mid) => Len(d) \in DOMAIN mid /\ Lost(mid[Len(d)].attr),
           Len(mid) <= Len(was),
           \A i \in DOMAIN mid : AttributesKept(mid[i].attr, was[i].attr),
           Len(mid) < Len(was) => Len(mid) > 0 /\ HasBytes(was[Len(mid)].attr)
    PROVE  /\ Len(d) <= Len(was)
           /\ Len(d) < Len(was) => Len(d) > 0 /\ HasBytes(was[Len(d)].attr)
<1>1. PICK l \in Nat, m \in Nat, n \in Nat :
        /\ l = Len(d) /\ m = Len(mid) /\ n = Len(was)
        /\ DOMAIN mid = 1..m
  BY SeqFacts
<1>2. l <= m /\ m <= n
  BY <1>1
<1>3. ASSUME l < m PROVE l > 0 /\ HasBytes(was[l].attr)
  <2>1. l \in DOMAIN mid /\ Lost(mid[l].attr)
    BY <1>1, <1>3
  <2>2. AttributesKept(mid[l].attr, was[l].attr)
    BY <2>1
  <2>3. mid[l].attr = was[l].attr
    BY <2>1, <2>2, BytesAreOld
  <2> QED BY <1>1, <2>1, <2>3 DEF Lost
<1>4. ASSUME l = m, l < n PROVE l > 0 /\ HasBytes(was[l].attr)
  BY <1>1, <1>4
<1>5. l <= n /\ (l < n => l > 0 /\ HasBytes(was[l].attr))
  <2>1. l < m \/ l = m
    BY <1>2
  <2> QED BY <1>2, <1>3, <1>4, <2>1
<1> QED BY <1>1, <1>5

SameFields(p, was) ==
    /\ p.trace_id = was.trace_id /\ p.span_id = was.span_id
    /\ p.parent_span_id = was.parent_span_id /\ p.kind = was.kind
    /\ p.start_time_unix_nano = was.start_time_unix_nano
    /\ p.end_time_unix_nano = was.end_time_unix_nano
    /\ p.dropped_attr_count = was.dropped_attr_count
    /\ p.dropped_events_count = was.dropped_events_count

LEMMA SpanKeptFacts ==
    ASSUME NEW p, NEW was
    PROVE  SpanKept(p, was) <=>
             /\ SameFields(p, was)
             /\ Alike(p.name, was.name) /\ Alike(p.trace_state, was.trace_state)
             /\ p.status.code = was.status.code /\ Alike(p.status.message, was.status.message)
             /\ AttributesKept(p.attr, was.attr)
             /\ Len(p.events) <= Len(was.events)
             /\ \A i \in DOMAIN p.events : /\ EventKept(p.events[i], was.events[i])
                                           /\ AttributesKept(p.events[i].attr, was.events[i].attr)
             /\ Len(p.events) < Len(was.events) =>
                   Len(p.events) > 0 /\ HasBytes(was.events[Len(p.events)].attr)
             /\ Len(p.links) <= Len(was.links)
             /\ \A i \in DOMAIN p.links : /\ LinkKept(p.links[i], was.links[i])
                                          /\ AttributesKept(p.links[i].attr, was.links[i].attr)
             /\ Len(p.links) < Len(was.links) =>
                   Len(p.links) > 0 /\ HasBytes(was.links[Len(p.links)].attr)
<1>1. (\A f \in {"trace_id", "span_id", "parent_span_id", "kind", "start_time_unix_nano",
                 "end_time_unix_nano", "dropped_attr_count", "dropped_events_count"} :
          p[f] = was[f])
        <=> SameFields(p, was)
  BY DEF SameFields
<1>2. ListKept(p.events, was.events, EventKept) <=>
         /\ Len(p.events) <= Len(was.events)
         /\ \A i \in DOMAIN p.events : /\ EventKept(p.events[i], was.events[i])
                                       /\ AttributesKept(p.events[i].attr, was.events[i].attr)
         /\ Len(p.events) < Len(was.events) =>
               Len(p.events) > 0 /\ HasBytes(was.events[Len(p.events)].attr)
  BY DEF ListKept, HasBytes
<1>3. ListKept(p.links, was.links, LinkKept) <=>
         /\ Len(p.links) <= Len(was.links)
         /\ \A i \in DOMAIN p.links : /\ LinkKept(p.links[i], was.links[i])
                                      /\ AttributesKept(p.links[i].attr, was.links[i].attr)
         /\ Len(p.links) < Len(was.links) =>
               Len(p.links) > 0 /\ HasBytes(was.links[Len(p.links)].attr)
  BY DEF ListKept, HasBytes
<1> QED BY <1>1, <1>2, <1>3 DEF SpanKept

LEMMA SpanKeptAtFirst ==
    ASSUME NEW was \in Span(Nat)
    PROVE  SpanKept(was, was)
<1>1. SameFields(was, was)
  BY DEF SameFields
<1>2. \A s : Alike(s, s)
  BY DEF Alike
<1>3. \A attr : AttributesKept(attr, attr)
  BY DEF AttributesKept
<1>4. Len(was.events) \in Nat /\ Len(was.links) \in Nat
  BY SpanFields, SeqFacts
<1>5. /\ \A i \in DOMAIN was.events : EventKept(was.events[i], was.events[i])
      /\ \A i \in DOMAIN was.links : LinkKept(was.links[i], was.links[i])
  BY <1>2 DEF EventKept, LinkKept
<1>6. /\ Len(was.events) <= Len(was.events) /\ ~(Len(was.events) < Len(was.events))
      /\ Len(was.links) <= Len(was.links) /\ ~(Len(was.links) < Len(was.links))
  BY <1>4
<1> QED BY <1>1, <1>2, <1>3, <1>5, <1>6, SpanKeptFacts

LEMMA SpanKeptFlagless ==
    ASSUME NEW p \in Span(Nat), NEW was, SpanKept(p, was)
    PROVE  SpanKept(Flagless(p), was)
<1>1. PICK q, links : q = Flagless(p) /\ links = FlaglessLinks(p.links)
  OBVIOUS
<1>2. q = [trace_id |-> p.trace_id, span_id |-> p.span_id,
           parent_span_id |-> p.parent_span_id, trace_state |-> p.trace_state,
           name |-> p.name, schema_url |-> p.schema_url, kind |-> p.kind,
           flags |-> 0, start_time_unix_nano |-> p.start_time_unix_nano,
           end_time_unix_nano |-> p.end_time_unix_nano, attr |-> p.attr,
           dropped_attr_count |-> p.dropped_attr_count, events |-> p.events,
           dropped_events_count |-> p.dropped_events_count, links |-> links,
           dropped_links_count |-> p.dropped_links_count, status |-> p.status]
  BY <1>1, FlaglessFields
<1>3. /\ SameFields(q, p) /\ q.name = p.name /\ q.trace_state = p.trace_state
      /\ q.status = p.status /\ q.attr = p.attr /\ q.events = p.events /\ q.links = links
  BY <1>2 DEF SameFields
<1>4. Len(links) = Len(p.links) /\ DOMAIN links = DOMAIN p.links
  <2>1. /\ p.links \in Seq(Link(Nat))
        /\ DOMAIN links = DOMAIN p.links /\ links = [i \in DOMAIN links |-> links[i]]
    BY <1>1, SpanFields DEF FlaglessLinks
  <2>2. PICK T : T = {links[i] : i \in DOMAIN links}
    OBVIOUS
  <2>3. \A i \in DOMAIN p.links : links[i] \in T
    BY <2>1, <2>2
  <2> QED BY <2>1, <2>3, IsSequence
<1>5. ASSUME NEW i \in DOMAIN links
      PROVE  /\ links[i].trace_id = p.links[i].trace_id
             /\ links[i].span_id = p.links[i].span_id
             /\ links[i].attr = p.links[i].attr
  <2>1. PICK l \in Link(Nat) : l = p.links[i]
    BY <1>4, SpanFields, SeqFacts
  <2>2. links[i] = [l EXCEPT !.flags = 0]
    BY <1>1, <1>4, <2>1 DEF FlaglessLinks
  <2> QED BY <2>1, <2>2 DEF Link
<1>6. \A i \in DOMAIN links : /\ LinkKept(links[i], was.links[i])
                              /\ AttributesKept(links[i].attr, was.links[i].attr)
  <2>1. \A i \in DOMAIN p.links : /\ LinkKept(p.links[i], was.links[i])
                                  /\ AttributesKept(p.links[i].attr, was.links[i].attr)
    BY SpanKeptFacts
  <2> QED BY <1>4, <1>5, <2>1 DEF LinkKept
<1>7. SameFields(q, was)
  <2>1. SameFields(p, was)
    BY SpanKeptFacts
  <2> QED BY <1>3, <2>1 DEF SameFields
<1>8. SpanKept(q, was)
  BY <1>3, <1>4, <1>6, <1>7, SpanKeptFacts
<1> QED BY <1>1, <1>8

LEMMA SpanKeptThrough ==
    ASSUME NEW p \in Span(Nat), NEW was \in Span(Nat), NEW now \in Nat \ {0},
           BuiltSpan(p), SpanKept(p, was)
    PROVE  SpanKept(ThroughSpan(p, now), was)
<1>1. PICK q, events, links, attr, message, state :
        /\ q = ThroughSpan(p, now)
        /\ events = ThroughEvents(p.events, now) /\ links = ThroughLinks(p.links)
        /\ attr = OrEmpty(ThroughAttributes(p.attr)) /\ message = StringField(p.status.message)
        /\ state = IF p.trace_state = "" THEN NULL ELSE p.trace_state
  OBVIOUS
<1>2. /\ q.trace_id = p.trace_id /\ q.span_id = p.span_id
      /\ q.parent_span_id = p.parent_span_id /\ q.trace_state = state
      /\ q.name = StringField(p.name) /\ q.kind = set_kind(p.kind)
      /\ q.start_time_unix_nano = p.start_time_unix_nano
      /\ q.end_time_unix_nano = p.end_time_unix_nano
      /\ q.attr = attr /\ q.dropped_attr_count = p.dropped_attr_count
      /\ q.events = events /\ q.dropped_events_count = p.dropped_events_count
      /\ q.links = links /\ q.status = [code |-> p.status.code, message |-> message]
  BY <1>1 DEF ThroughSpan
<1>3. q.kind = p.kind
  BY <1>2 DEF set_kind, BuiltSpan
<1>4. SameFields(q, was)
  <2>1. SameFields(p, was)
    BY SpanKeptFacts
  <2> QED BY <1>2, <1>3, <2>1 DEF SameFields
<1>5. q.status.code = p.status.code /\ q.status.message = message
  BY <1>2
<1>6. /\ Alike(p.name, was.name) /\ Alike(p.trace_state, was.trace_state)
      /\ p.status.code = was.status.code /\ Alike(p.status.message, was.status.message)
      /\ AttributesKept(p.attr, was.attr)
  BY SpanKeptFacts
<1>7. /\ Alike(q.name, was.name) /\ Alike(q.trace_state, was.trace_state)
      /\ q.status.code = was.status.code /\ Alike(q.status.message, was.status.message)
      /\ AttributesKept(q.attr, was.attr)
  <2>1. Alike(StringField(p.name), was.name) /\ Alike(message, was.status.message)
    BY <1>1, <1>6, AlikeThrough
  <2>2. Alike(IF p.trace_state = "" THEN NULL ELSE p.trace_state, was.trace_state)
    BY <1>6, AlikeThrough
  <2>3. AttributesKept(attr, was.attr)
    BY <1>1, <1>6, AttributesKeptThrough
  <2> QED BY <1>1, <1>2, <1>5, <1>6, <2>1, <2>2, <2>3
<1>8. /\ p.events \in Seq(Event(Nat)) /\ was.events \in Seq(Event(Nat))
      /\ p.links \in Seq(Link(Nat)) /\ was.links \in Seq(Link(Nat))
  BY SpanFields
<1>9. /\ events \in Seq(ArrivedEvent) /\ Len(events) <= Len(p.events)
      /\ \A i \in DOMAIN events : i \in DOMAIN p.events /\ events[i] = ThroughEvent(p.events[i], now)
      /\ Len(events) < Len(p.events) =>
            Len(events) \in DOMAIN p.events /\ Lost(p.events[Len(events)].attr)
  BY <1>1, <1>8, EventsThrough
<1>10. /\ links \in Seq(ArrivedLink) /\ Len(links) <= Len(p.links)
       /\ \A i \in DOMAIN links : i \in DOMAIN p.links /\ links[i] = ThroughLink(p.links[i])
       /\ Len(links) < Len(p.links) =>
             Len(links) \in DOMAIN p.links /\ Lost(p.links[Len(links)].attr)
  BY <1>1, <1>8, LinksThrough
<1>11. /\ Len(p.events) <= Len(was.events)
       /\ \A i \in DOMAIN p.events : /\ EventKept(p.events[i], was.events[i])
                                     /\ AttributesKept(p.events[i].attr, was.events[i].attr)
       /\ Len(p.events) < Len(was.events) =>
             Len(p.events) > 0 /\ HasBytes(was.events[Len(p.events)].attr)
  BY SpanKeptFacts
<1>12. /\ Len(p.links) <= Len(was.links)
       /\ \A i \in DOMAIN p.links : /\ LinkKept(p.links[i], was.links[i])
                                    /\ AttributesKept(p.links[i].attr, was.links[i].attr)
       /\ Len(p.links) < Len(was.links) =>
             Len(p.links) > 0 /\ HasBytes(was.links[Len(p.links)].attr)
  BY SpanKeptFacts
<1>13. /\ Len(events) <= Len(was.events)
       /\ Len(events) < Len(was.events) => Len(events) > 0 /\ HasBytes(was.events[Len(events)].attr)
  BY <1>8, <1>9, <1>11, ListKeptThrough
<1>14. /\ Len(links) <= Len(was.links)
       /\ Len(links) < Len(was.links) => Len(links) > 0 /\ HasBytes(was.links[Len(links)].attr)
  BY <1>8, <1>10, <1>12, ListKeptThrough
<1>15. ASSUME NEW i \in DOMAIN events
       PROVE  /\ EventKept(events[i], was.events[i])
              /\ AttributesKept(events[i].attr, was.events[i].attr)
  <2>1. PICK e, w : e = p.events[i] /\ w = was.events[i]
    OBVIOUS
  <2>2. i \in DOMAIN p.events /\ events[i] = ThroughEvent(e, now)
    BY <1>9, <2>1
  <2>3. EventKept(e, w) /\ AttributesKept(e.attr, w.attr) /\ e.time_unix_nano # 0
    BY <1>11, <2>1, <2>2 DEF BuiltSpan
  <2>4. /\ events[i].name = StringField(e.name) /\ events[i].time_unix_nano = e.time_unix_nano
        /\ events[i].attr = OrEmpty(ThroughAttributes(e.attr))
    BY <2>2, <2>3 DEF ThroughEvent
  <2>5. Alike(e.name, w.name)
    BY <2>3 DEF EventKept
  <2>6. Alike(StringField(e.name), w.name) /\ AttributesKept(OrEmpty(ThroughAttributes(e.attr)), w.attr)
    BY <2>3, <2>5, AlikeThrough, AttributesKeptThrough
  <2> QED BY <2>1, <2>3, <2>4, <2>6 DEF EventKept
<1>16. ASSUME NEW i \in DOMAIN links
       PROVE  /\ LinkKept(links[i], was.links[i])
              /\ AttributesKept(links[i].attr, was.links[i].attr)
  <2>1. PICK l, w : l = p.links[i] /\ w = was.links[i]
    OBVIOUS
  <2>2. i \in DOMAIN p.links /\ links[i] = ThroughLink(l)
    BY <1>10, <2>1
  <2>3. LinkKept(l, w) /\ AttributesKept(l.attr, w.attr)
    BY <1>12, <2>1, <2>2
  <2>4. /\ links[i].trace_id = l.trace_id /\ links[i].span_id = l.span_id
        /\ links[i].attr = ThroughAttributes(l.attr)
    BY <2>2 DEF ThroughLink
  <2>5. AttributesKept(ThroughAttributes(l.attr), w.attr)
    BY <2>3, AttributesKeptThrough
  <2> QED BY <2>1, <2>3, <2>4, <2>5 DEF LinkKept
<1>17. SpanKept(q, was)
  BY <1>2, <1>4, <1>7, <1>13, <1>14, <1>15, <1>16, SpanKeptFacts
<1> QED BY <1>1, <1>17

LEMMA ScopeKeptThrough ==
    ASSUME NEW scope \in InstrumentationScope(Nat) \cup {NULL}, NEW was, ScopeKept(scope, was)
    PROVE  ScopeKept(ThroughScope(scope), was)
<1>1. CASE scope = NULL
  BY <1>1 DEF ThroughScope
<1>2. CASE scope # NULL /\ was = NULL
  BY <1>2 DEF ScopeKept
<1>3. CASE scope # NULL /\ was # NULL
  <2>1. /\ Alike(scope.name, was.name) /\ Alike(scope.version, was.version)
        /\ scope.dropped_attr_count = was.dropped_attr_count
        /\ AttributesKept(scope.attr, was.attr)
    BY <1>3 DEF ScopeKept
  <2>2. CASE Lost(scope.attr)
    <3>1. scope.attr = was.attr
      BY <2>1, <2>2, BytesAreOld
    <3>2. was.attr # NULL /\ HasBytes(was.attr)
      BY <2>2, <3>1 DEF Lost
    <3>3. ThroughScope(scope) = NULL
      BY <2>2 DEF ThroughScope
    <3> QED BY <1>3, <3>2, <3>3 DEF ScopeKept, HasBytes
  <2>3. CASE ~Lost(scope.attr)
    <3>1. PICK q, name, version, attr :
            /\ q = ThroughScope(scope) /\ name = StringField(scope.name)
            /\ version = StringField(scope.version) /\ attr = ThroughAttributes(scope.attr)
      OBVIOUS
    <3>2. q = [name |-> name, version |-> version, attr |-> attr,
               dropped_attr_count |-> scope.dropped_attr_count]
      BY <1>3, <2>3, <3>1 DEF ThroughScope
    <3>3. Alike(name, was.name) /\ Alike(version, was.version) /\ AttributesKept(attr, was.attr)
      BY <2>1, <3>1, AlikeThrough, AttributesKeptThrough
    <3>4. /\ Alike(q.name, was.name) /\ Alike(q.version, was.version)
          /\ q.dropped_attr_count = was.dropped_attr_count /\ AttributesKept(q.attr, was.attr)
      BY <2>1, <3>2, <3>3
    <3>5. /\ scope.name \in String /\ scope.version \in String
          /\ scope.attr \in AttributeSet \cup {NULL} /\ scope.dropped_attr_count \in Nat
      BY <1>3 DEF InstrumentationScope
    <3>6. name \in String /\ version \in String /\ attr \in AttributeSet \cup {NULL}
      BY <3>1, <3>5, StringsSent, AttributesThrough
    <3>7. q \in InstrumentationScope(Nat)
      BY <3>2, <3>5, <3>6 DEF InstrumentationScope
    <3>8. q # NULL
      BY <3>7, NullIsNoData
    <3> QED BY <1>3, <3>1, <3>4, <3>8 DEF ScopeKept
  <2> QED BY <2>2, <2>3
<1> QED BY <1>1, <1>2, <1>3

LEMMA SameLength ==
    ASSUME NEW S, NEW s \in Seq(S), NEW f, DOMAIN f = DOMAIN s, f = [i \in DOMAIN f |-> f[i]]
    PROVE  Len(f) = Len(s)
<1>1. PICK T : T = {f[i] : i \in DOMAIN f}
  OBVIOUS
<1>2. \A i \in DOMAIN s : f[i] \in T
  BY <1>1
<1> QED BY <1>2, IsSequence

BuiltScopeSpan(s) == \A k \in DOMAIN s.spans : BuiltSpan(s.spans[k])

BuiltResourceSpan(r) == \A j \in DOMAIN r.scope_spans : BuiltScopeSpan(r.scope_spans[j])

LEMMA ScopeSpanKeptAtFirst ==
    ASSUME NEW was \in ScopeSpan(Nat)
    PROVE  ScopeSpanKept(was, was)
<1>1. was.spans \in Seq(Span(Nat))
  BY DEF ScopeSpan
<1>2. \A k \in DOMAIN was.spans : SpanKept(was.spans[k], was.spans[k])
  BY <1>1, SeqFacts, SpanKeptAtFirst
<1>3. \A scope : ScopeKept(scope, scope)
  BY DEF ScopeKept, Alike, AttributesKept
<1> QED BY <1>2, <1>3 DEF ScopeSpanKept, Alike

LEMMA ResourceSpanKeptAtFirst ==
    ASSUME NEW was \in ResourceSpan(Nat)
    PROVE  ResourceSpanKept(was, was)
<1>1. was.scope_spans \in Seq(ScopeSpan(Nat))
  BY DEF ResourceSpan
<1>2. \A j \in DOMAIN was.scope_spans : ScopeSpanKept(was.scope_spans[j], was.scope_spans[j])
  BY <1>1, SeqFacts, ScopeSpanKeptAtFirst
<1> QED BY <1>2 DEF ResourceSpanKept, Alike, AttributesKept

LEMMA ScopeSpanKeptFlagless ==
    ASSUME NEW s \in ScopeSpan(Nat), NEW was, ScopeSpanKept(s, was)
    PROVE  ScopeSpanKept([s EXCEPT !.spans = FlaglessSpans(@)], was)
<1>1. PICK q, spans : q = [s EXCEPT !.spans = FlaglessSpans(@)] /\ spans = FlaglessSpans(s.spans)
  OBVIOUS
<1>2. /\ q.instrumentation_scope = s.instrumentation_scope /\ q.schema_url = s.schema_url
      /\ q.spans = spans /\ s.spans \in Seq(Span(Nat))
  BY <1>1 DEF ScopeSpan
<1>3. DOMAIN spans = DOMAIN s.spans /\ spans = [k \in DOMAIN spans |-> spans[k]]
  BY <1>1 DEF FlaglessSpans
<1>4. Len(spans) = Len(s.spans)
  BY <1>2, <1>3, SameLength
<1>5. ASSUME NEW k \in DOMAIN spans PROVE SpanKept(spans[k], was.spans[k])
  <2>1. s.spans[k] \in Span(Nat) /\ spans[k] = Flagless(s.spans[k])
    BY <1>1, <1>2, <1>3, SeqFacts DEF FlaglessSpans
  <2>2. SpanKept(s.spans[k], was.spans[k])
    BY <1>3 DEF ScopeSpanKept
  <2> QED BY <2>1, <2>2, SpanKeptFlagless
<1>6. ScopeSpanKept(q, was)
  BY <1>2, <1>4, <1>5 DEF ScopeSpanKept
<1> QED BY <1>1, <1>6

LEMMA ResourceSpanKeptFlagless ==
    ASSUME NEW r \in ResourceSpan(Nat), NEW was, ResourceSpanKept(r, was)
    PROVE  ResourceSpanKept([r EXCEPT !.scope_spans = FlaglessScopeSpans(@)], was)
<1>1. PICK q, list : /\ q = [r EXCEPT !.scope_spans = FlaglessScopeSpans(@)]
                     /\ list = FlaglessScopeSpans(r.scope_spans)
  OBVIOUS
<1>2. /\ q.resource = r.resource /\ q.schema_url = r.schema_url
      /\ q.scope_spans = list /\ r.scope_spans \in Seq(ScopeSpan(Nat))
  BY <1>1 DEF ResourceSpan
<1>3. DOMAIN list = DOMAIN r.scope_spans /\ list = [j \in DOMAIN list |-> list[j]]
  BY <1>1 DEF FlaglessScopeSpans
<1>4. Len(list) = Len(r.scope_spans)
  BY <1>2, <1>3, SameLength
<1>5. ASSUME NEW j \in DOMAIN list PROVE ScopeSpanKept(list[j], was.scope_spans[j])
  <2>1. PICK s \in ScopeSpan(Nat) : s = r.scope_spans[j]
    BY <1>2, <1>3, SeqFacts
  <2>2. list[j] = [s EXCEPT !.spans = FlaglessSpans(@)]
    BY <1>1, <1>3, <2>1 DEF FlaglessScopeSpans
  <2>3. ScopeSpanKept(s, was.scope_spans[j])
    BY <1>3, <2>1 DEF ResourceSpanKept
  <2> QED BY <2>2, <2>3, ScopeSpanKeptFlagless
<1>6. ResourceSpanKept(q, was)
  BY <1>2, <1>4, <1>5 DEF ResourceSpanKept
<1> QED BY <1>1, <1>6

LEMMA ScopeSpanKeptThrough ==
    ASSUME NEW s \in ScopeSpan(Nat), NEW was \in ScopeSpan(Nat), NEW now \in Nat \ {0},
           BuiltScopeSpan(s), ScopeSpanKept(s, was)
    PROVE  ScopeSpanKept(ThroughScopeSpan(s, now), was)
<1>1. PICK q, spans, scope, url :
        /\ q = ThroughScopeSpan(s, now)
        /\ spans = [k \in DOMAIN s.spans |-> ThroughSpan(s.spans[k], now)]
        /\ scope = ThroughScope(s.instrumentation_scope) /\ url = StringField(s.schema_url)
  OBVIOUS
<1>2. q.instrumentation_scope = scope /\ q.schema_url = url /\ q.spans = spans
  BY <1>1 DEF ThroughScopeSpan
<1>3. /\ s.instrumentation_scope \in InstrumentationScope(Nat) \cup {NULL}
      /\ s.spans \in Seq(Span(Nat)) /\ was.spans \in Seq(Span(Nat))
  BY DEF ScopeSpan
<1>4. DOMAIN spans = DOMAIN s.spans /\ spans = [k \in DOMAIN spans |-> spans[k]]
  BY <1>1
<1>5. Len(spans) = Len(s.spans)
  BY <1>3, <1>4, SameLength
<1>6. /\ ScopeKept(s.instrumentation_scope, was.instrumentation_scope)
      /\ Alike(s.schema_url, was.schema_url)
      /\ Len(s.spans) = Len(was.spans)
      /\ \A k \in DOMAIN s.spans : SpanKept(s.spans[k], was.spans[k])
  BY DEF ScopeSpanKept
<1>7. ScopeKept(scope, was.instrumentation_scope) /\ Alike(url, was.schema_url)
  BY <1>1, <1>3, <1>6, ScopeKeptThrough, AlikeThrough
<1>8. DOMAIN s.spans = DOMAIN was.spans
  BY <1>3, <1>6, SeqFacts
<1>9. ASSUME NEW k \in DOMAIN spans PROVE SpanKept(spans[k], was.spans[k])
  <2>1. /\ s.spans[k] \in Span(Nat) /\ was.spans[k] \in Span(Nat)
        /\ spans[k] = ThroughSpan(s.spans[k], now)
    BY <1>1, <1>3, <1>4, <1>8, SeqFacts
  <2>2. BuiltSpan(s.spans[k]) /\ SpanKept(s.spans[k], was.spans[k])
    BY <1>4, <1>6 DEF BuiltScopeSpan
  <2> QED BY <2>1, <2>2, SpanKeptThrough
<1>10. ScopeSpanKept(q, was)
  BY <1>2, <1>5, <1>6, <1>7, <1>9 DEF ScopeSpanKept
<1> QED BY <1>1, <1>10

LEMMA ResourceSpanKeptThrough ==
    ASSUME NEW r \in ResourceSpan(Nat), NEW was \in ResourceSpan(Nat), NEW now \in Nat \ {0},
           BuiltResourceSpan(r), ResourceSpanKept(r, was)
    PROVE  ResourceSpanKept(ThroughResourceSpan(r, now), was)
<1>1. PICK q, list, attr, url :
        /\ q = ThroughResourceSpan(r, now)
        /\ list = [j \in DOMAIN r.scope_spans |-> ThroughScopeSpan(r.scope_spans[j], now)]
        /\ attr = OrEmpty(ThroughAttributes(r.resource.attr)) /\ url = StringField(r.schema_url)
  OBVIOUS
<1>2. /\ q.resource = [attr |-> attr, dropped_attr_count |-> r.resource.dropped_attr_count]
      /\ q.schema_url = url /\ q.scope_spans = list
  BY <1>1 DEF ThroughResourceSpan
<1>3. q.resource.attr = attr /\ q.resource.dropped_attr_count = r.resource.dropped_attr_count
  BY <1>2
<1>4. /\ r.scope_spans \in Seq(ScopeSpan(Nat)) /\ was.scope_spans \in Seq(ScopeSpan(Nat))
  BY DEF ResourceSpan
<1>5. DOMAIN list = DOMAIN r.scope_spans /\ list = [j \in DOMAIN list |-> list[j]]
  BY <1>1
<1>6. Len(list) = Len(r.scope_spans)
  BY <1>4, <1>5, SameLength
<1>7. /\ Alike(r.schema_url, was.schema_url)
      /\ AttributesKept(r.resource.attr, was.resource.attr)
      /\ r.resource.dropped_attr_count = was.resource.dropped_attr_count
      /\ Len(r.scope_spans) = Len(was.scope_spans)
      /\ \A j \in DOMAIN r.scope_spans : ScopeSpanKept(r.scope_spans[j], was.scope_spans[j])
  BY DEF ResourceSpanKept
<1>8. Alike(url, was.schema_url) /\ AttributesKept(attr, was.resource.attr)
  BY <1>1, <1>7, AlikeThrough, AttributesKeptThrough
<1>9. DOMAIN r.scope_spans = DOMAIN was.scope_spans
  BY <1>4, <1>7, SeqFacts
<1>10. ASSUME NEW j \in DOMAIN list PROVE ScopeSpanKept(list[j], was.scope_spans[j])
  <2>1. /\ r.scope_spans[j] \in ScopeSpan(Nat) /\ was.scope_spans[j] \in ScopeSpan(Nat)
        /\ list[j] = ThroughScopeSpan(r.scope_spans[j], now)
    BY <1>1, <1>4, <1>5, <1>9, SeqFacts
  <2>2. BuiltScopeSpan(r.scope_spans[j]) /\ ScopeSpanKept(r.scope_spans[j], was.scope_spans[j])
    BY <1>5, <1>7 DEF BuiltResourceSpan
  <2> QED BY <2>1, <2>2, ScopeSpanKeptThrough
<1>11. ResourceSpanKept(q, was)
  BY <1>2, <1>3, <1>6, <1>7, <1>8, <1>10 DEF ResourceSpanKept
<1> QED BY <1>1, <1>11

-----------------------------------------------------------------------------
(* What the functions of the library see to stays so.                      *)

LEMMA BuiltFacts ==
    ASSUME NEW ctx
    PROVE  Built(ctx) <=> \A i \in DOMAIN ctx : BuiltResourceSpan(ctx[i])
BY DEF Built, BuiltResourceSpan, BuiltScopeSpan

LEMMA ArrivedIsBuilt ==
    ASSUME NEW d \in Arrived
    PROVE  Built(d)
<1>1. ASSUME NEW p \in ArrivedSpan PROVE BuiltSpan(p)
  <2>1. p.kind \in SpanKind /\ p.events \in Seq(ArrivedEvent)
    BY ArrivedSpanFields
  <2>2. \A e \in DOMAIN p.events : p.events[e].time_unix_nano # 0
    <3> SUFFICES ASSUME NEW e \in DOMAIN p.events
                 PROVE  p.events[e].time_unix_nano # 0
      OBVIOUS
    <3>1. p.events[e] \in ArrivedEvent
      BY <2>1, SeqFacts
    <3> QED BY <3>1 DEF ArrivedEvent
  <2> QED BY <2>1, <2>2 DEF BuiltSpan
<1>2. ASSUME NEW s \in ArrivedScopeSpan PROVE BuiltScopeSpan(s)
  <2>1. s.spans \in Seq(ArrivedSpan)
    BY DEF ArrivedScopeSpan
  <2> QED BY <1>1, <2>1, SeqFacts DEF BuiltScopeSpan
<1>3. ASSUME NEW r \in ArrivedResourceSpan PROVE BuiltResourceSpan(r)
  BY <1>2, ArrivedResourceSpanFields, SeqFacts DEF BuiltResourceSpan
<1> QED BY <1>3, SeqFacts, BuiltFacts DEF Arrived

LEMMA FlaglessIsBuilt ==
    ASSUME NEW ctx \in Context(Nat), Built(ctx)
    PROVE  Built(EachSpan(ctx, Flagless))
<1>1. ASSUME NEW p \in Span(Nat), BuiltSpan(p) PROVE BuiltSpan(Flagless(p))
  <2>1. PICK q, links : q = Flagless(p) /\ links = FlaglessLinks(p.links)
    OBVIOUS
  <2>2. q = [trace_id |-> p.trace_id, span_id |-> p.span_id,
           parent_span_id |-> p.parent_span_id, trace_state |-> p.trace_state,
           name |-> p.name, schema_url |-> p.schema_url, kind |-> p.kind,
           flags |-> 0, start_time_unix_nano |-> p.start_time_unix_nano,
           end_time_unix_nano |-> p.end_time_unix_nano, attr |-> p.attr,
           dropped_attr_count |-> p.dropped_attr_count, events |-> p.events,
           dropped_events_count |-> p.dropped_events_count, links |-> links,
           dropped_links_count |-> p.dropped_links_count, status |-> p.status]
    BY <2>1, FlaglessFields
  <2>3. q.kind = p.kind /\ q.events = p.events
    BY <2>2
  <2> QED BY <1>1, <2>1, <2>3 DEF BuiltSpan
<1>2. ASSUME NEW s \in ScopeSpan(Nat), BuiltScopeSpan(s)
      PROVE  BuiltScopeSpan([s EXCEPT !.spans = FlaglessSpans(@)])
  <2>1. PICK q, spans : q = [s EXCEPT !.spans = FlaglessSpans(@)] /\ spans = FlaglessSpans(s.spans)
    OBVIOUS
  <2>2. q.spans = spans /\ s.spans \in Seq(Span(Nat))
    BY <2>1 DEF ScopeSpan
  <2>3. ASSUME NEW k \in DOMAIN spans PROVE BuiltSpan(spans[k])
    <3>1. k \in DOMAIN s.spans /\ spans[k] = Flagless(s.spans[k])
      BY <2>1 DEF FlaglessSpans
    <3>2. s.spans[k] \in Span(Nat) /\ BuiltSpan(s.spans[k])
      BY <1>2, <2>2, <3>1, SeqFacts DEF BuiltScopeSpan
    <3> QED BY <1>1, <3>1, <3>2
  <2> QED BY <2>1, <2>2, <2>3 DEF BuiltScopeSpan
<1>3. ASSUME NEW r \in ResourceSpan(Nat), BuiltResourceSpan(r)
      PROVE  BuiltResourceSpan([r EXCEPT !.scope_spans = FlaglessScopeSpans(@)])
  <2>1. PICK q, list : /\ q = [r EXCEPT !.scope_spans = FlaglessScopeSpans(@)]
                       /\ list = FlaglessScopeSpans(r.scope_spans)
    OBVIOUS
  <2>2. q.scope_spans = list /\ r.scope_spans \in Seq(ScopeSpan(Nat))
    BY <2>1 DEF ResourceSpan
  <2>3. ASSUME NEW j \in DOMAIN list PROVE BuiltScopeSpan(list[j])
    <3>1. PICK s : s = r.scope_spans[j]
      OBVIOUS
    <3>2. j \in DOMAIN r.scope_spans /\ list[j] = [s EXCEPT !.spans = FlaglessSpans(@)]
      BY <2>1, <3>1 DEF FlaglessScopeSpans
    <3>3. s \in ScopeSpan(Nat) /\ BuiltScopeSpan(s)
      BY <1>3, <2>2, <3>1, <3>2, SeqFacts DEF BuiltResourceSpan
    <3> QED BY <1>2, <3>2, <3>3
  <2> QED BY <2>1, <2>2, <2>3 DEF BuiltResourceSpan
<1>4. PICK d : d = EachSpan(ctx, Flagless)
  OBVIOUS
<1>5. d = [i \in DOMAIN ctx |-> [ctx[i] EXCEPT !.scope_spans = FlaglessScopeSpans(@)]]
  BY <1>4, FlaglessContext
<1>6. ASSUME NEW i \in DOMAIN d PROVE BuiltResourceSpan(d[i])
  <2>1. PICK r : r = ctx[i]
    OBVIOUS
  <2>2. i \in DOMAIN ctx /\ d[i] = [r EXCEPT !.scope_spans = FlaglessScopeSpans(@)]
    BY <1>5, <2>1
  <2>3. r \in ResourceSpan(Nat) /\ BuiltResourceSpan(r)
    BY <2>1, <2>2, SeqFacts, BuiltFacts DEF Context
  <2> QED BY <1>3, <2>2, <2>3
<1> QED BY <1>4, <1>6, BuiltFacts

\* What is left of the context that was built.
Lineage(ctx, was) ==
    /\ Len(ctx) = Len(was)
    /\ \A i \in DOMAIN ctx : ResourceSpanKept(ctx[i], was[i])

\* The context at hand comes of the one that was built, and is lost for good when a
\* message of it is refused.
Kin ==
    origin # NULL =>
        /\ origin \in Context(Nat)
        /\ IF doc = NULL THEN wire = NULL ELSE Built(doc) /\ Lineage(doc, origin)

LEMMA LineageAtFirst ==
    ASSUME NEW was \in Context(Nat)
    PROVE  Lineage(was, was)
<1>1. \A i \in DOMAIN was : was[i] \in ResourceSpan(Nat)
  BY SeqFacts DEF Context
<1> QED BY <1>1, ResourceSpanKeptAtFirst DEF Lineage

LEMMA LineageFlagless ==
    ASSUME NEW ctx \in Context(Nat), NEW was, Lineage(ctx, was)
    PROVE  Lineage(EachSpan(ctx, Flagless), was)
<1>1. PICK d : d = EachSpan(ctx, Flagless)
  OBVIOUS
<1>2. d = [i \in DOMAIN ctx |-> [ctx[i] EXCEPT !.scope_spans = FlaglessScopeSpans(@)]]
  BY <1>1, FlaglessContext
<1>3. DOMAIN d = DOMAIN ctx /\ d = [i \in DOMAIN d |-> d[i]] /\ ctx \in Seq(ResourceSpan(Nat))
  BY <1>2 DEF Context
<1>4. Len(d) = Len(ctx)
  BY <1>3, SameLength
<1>5. ASSUME NEW i \in DOMAIN d PROVE ResourceSpanKept(d[i], was[i])
  <2>1. PICK r \in ResourceSpan(Nat) : r = ctx[i]
    BY <1>3, SeqFacts
  <2>2. d[i] = [r EXCEPT !.scope_spans = FlaglessScopeSpans(@)]
    BY <1>2, <1>3, <2>1
  <2>3. ResourceSpanKept(r, was[i])
    BY <1>3, <2>1 DEF Lineage
  <2> QED BY <2>2, <2>3, ResourceSpanKeptFlagless
<1>6. Lineage(d, was)
  BY <1>4, <1>5 DEF Lineage
<1> QED BY <1>1, <1>6

LEMMA LineageThrough ==
    ASSUME NEW ctx \in Context(Nat), NEW was \in Context(Nat), NEW now \in Nat \ {0},
           ctx # <<>>, Built(ctx), Lineage(ctx, was)
    PROVE  Lineage(OtlpDecode(OtlpEncode(ctx), now), was)
<1>1. PICK d : d = OtlpDecode(OtlpEncode(ctx), now)
  OBVIOUS
<1>2. d = [i \in DOMAIN ctx |-> ThroughResourceSpan(ctx[i], now)]
  BY <1>1, ContextThrough
<1>3. /\ DOMAIN d = DOMAIN ctx /\ d = [i \in DOMAIN d |-> d[i]]
      /\ ctx \in Seq(ResourceSpan(Nat)) /\ was \in Seq(ResourceSpan(Nat))
  BY <1>2 DEF Context
<1>4. Len(d) = Len(ctx) /\ Len(ctx) = Len(was)
  BY <1>3, SameLength DEF Lineage
<1>5. DOMAIN ctx = DOMAIN was
  BY <1>3, <1>4, SeqFacts
<1>6. ASSUME NEW i \in DOMAIN d PROVE ResourceSpanKept(d[i], was[i])
  <2>1. /\ ctx[i] \in ResourceSpan(Nat) /\ was[i] \in ResourceSpan(Nat)
        /\ d[i] = ThroughResourceSpan(ctx[i], now)
    BY <1>2, <1>3, <1>5, SeqFacts
  <2>2. BuiltResourceSpan(ctx[i]) /\ ResourceSpanKept(ctx[i], was[i])
    BY <1>3, BuiltFacts DEF Lineage
  <2> QED BY <2>1, <2>2, ResourceSpanKeptThrough
<1>7. Lineage(d, was)
  BY <1>4, <1>6 DEF Lineage
<1> QED BY <1>1, <1>7

LEMMA KinAtFirst == Init => Kin
<1> SUFFICES ASSUME Init, origin # NULL PROVE Kin
  BY DEF Kin
<1>1. wire = NULL /\ origin \in Contexts /\ doc = origin
  BY DEF Init
<1>2. origin \in Context(Nat) /\ Built(origin)
  BY <1>1, ContextsAreBuilt DEF Num
<1> QED BY <1>1, <1>2, LineageAtFirst DEF Kin

LEMMA KinIsKept == Course /\ Kin /\ [Next]_vars => Kin'
<1> SUFFICES ASSUME Course, Kin, [Next]_vars, origin' # NULL PROVE Kin'
  BY DEF Kin
<1>0. origin' = origin
  BY DEF Next, vars, ctr_encode_opentelemetry_create, ctr_encode_msgpack_create, Send,
         ctr_decode_opentelemetry_create, ctr_decode_msgpack_create, Receive
<1>1. /\ origin \in Context(Nat)
      /\ IF doc = NULL THEN wire = NULL ELSE Built(doc) /\ Lineage(doc, origin)
  BY <1>0 DEF Kin
<1>2. CASE ctr_encode_opentelemetry_create
  BY <1>0, <1>1, <1>2 DEF ctr_encode_opentelemetry_create, Send, Kin
<1>3. CASE ctr_encode_msgpack_create
  BY <1>0, <1>1, <1>3 DEF ctr_encode_msgpack_create, Send, Kin
<1>4. CASE ctr_decode_opentelemetry_create
  <2>1. wire # NULL /\ wire' = NULL /\ doc' \in Arrived \cup {NULL}
    BY <1>4, OtlpArrives
  <2>2. doc # NULL /\ Built(doc) /\ Lineage(doc, origin)
    BY <1>1, <2>1
  <2>3. PICK now \in Nat \ {0} : doc \in Context(Nat) /\ doc' = OtlpDecode(OtlpEncode(doc), now)
    BY <1>4, <2>2, OtlpArrives
  <2>4. CASE doc = <<>>
    <3>1. doc' = NULL
      BY <2>3, <2>4, ContextThrough
    <3> QED BY <1>0, <1>1, <2>1, <3>1 DEF Kin
  <2>5. CASE doc # <<>>
    <3>1. Lineage(doc', origin)
      BY <1>1, <2>2, <2>3, <2>5, LineageThrough
    <3>2. doc' # NULL => Built(doc')
      BY <2>1, ArrivedIsBuilt
    <3> QED BY <1>0, <1>1, <2>1, <3>1, <3>2 DEF Kin
  <2> QED BY <2>4, <2>5
<1>5. CASE ctr_decode_msgpack_create
  <2>1. /\ wire # NULL /\ wire' = NULL
        /\ doc # NULL => /\ doc \in Context(Nat)
                         /\ doc' = IF ContextFits(doc) THEN EachSpan(doc, Flagless) ELSE NULL
    BY <1>5, MsgpackArrives
  <2>2. doc # NULL /\ Built(doc) /\ Lineage(doc, origin)
    BY <1>1, <2>1
  <2>3. CASE ContextFits(doc)
    <3>1. doc \in Context(Nat) /\ doc' = EachSpan(doc, Flagless)
      BY <2>1, <2>2, <2>3
    <3>2. Built(doc') /\ Lineage(doc', origin)
      BY <2>2, <3>1, FlaglessIsBuilt, LineageFlagless
    <3> QED BY <1>0, <1>1, <2>1, <3>2 DEF Kin
  <2>4. CASE ~ContextFits(doc)
    <3>1. doc' = NULL
      BY <2>1, <2>2, <2>4
    <3> QED BY <1>0, <1>1, <2>1, <3>1 DEF Kin
  <2> QED BY <2>3, <2>4
<1>6. CASE UNCHANGED vars
  BY <1>1, <1>6 DEF vars, Kin
<1> QED BY <1>2, <1>3, <1>4, <1>5, <1>6 DEF Next

\* Through any number of hops, in any order, every span of the context that was
\* built stays where it was, with its identifiers, its parent, its kind and its
\* times, and what is missing of it was lost for bytes that it held from the start.
THEOREM LineageIsKept == Spec => []LineageKept
<1>1. Spec => []Kin
  BY KinAtFirst, KinIsKept, CourseHolds, PTL DEF Spec
<1>2. Kin => LineageKept
  BY DEF Kin, LineageKept, Lineage
<1> QED BY <1>1, <1>2, PTL

-----------------------------------------------------------------------------
(* The text.                                                               *)

LEMMA FlagsAreNotPrinted ==
    ASSUME NEW p \in Span(Nat)
    PROVE  format_span(Flagless(p)) = format_span(p)
<1>1. PICK q, links : q = Flagless(p) /\ links = FlaglessLinks(p.links)
  OBVIOUS
<1>2. q = [trace_id |-> p.trace_id, span_id |-> p.span_id,
           parent_span_id |-> p.parent_span_id, trace_state |-> p.trace_state,
           name |-> p.name, schema_url |-> p.schema_url, kind |-> p.kind,
           flags |-> 0, start_time_unix_nano |-> p.start_time_unix_nano,
           end_time_unix_nano |-> p.end_time_unix_nano, attr |-> p.attr,
           dropped_attr_count |-> p.dropped_attr_count, events |-> p.events,
           dropped_events_count |-> p.dropped_events_count, links |-> links,
           dropped_links_count |-> p.dropped_links_count, status |-> p.status]
  BY <1>1, FlaglessFields
<1>3. /\ q.trace_id = p.trace_id /\ q.span_id = p.span_id
      /\ q.parent_span_id = p.parent_span_id /\ q.trace_state = p.trace_state
      /\ q.name = p.name /\ q.schema_url = p.schema_url /\ q.kind = p.kind
      /\ q.start_time_unix_nano = p.start_time_unix_nano
      /\ q.end_time_unix_nano = p.end_time_unix_nano
      /\ q.attr = p.attr /\ q.dropped_attr_count = p.dropped_attr_count
      /\ q.events = p.events /\ q.dropped_events_count = p.dropped_events_count
      /\ q.links = links /\ q.dropped_links_count = p.dropped_links_count
      /\ q.status = p.status
  BY <1>2
<1>4. DOMAIN links = DOMAIN p.links
  BY <1>1 DEF FlaglessLinks
<1>5. ASSUME NEW i \in DOMAIN p.links
      PROVE  format_link(links[i]) = format_link(p.links[i])
  <2>1. PICK l \in Link(Nat) : l = p.links[i]
    BY SpanFields, SeqFacts
  <2>2. links[i] = [l EXCEPT !.flags = 0]
    BY <1>1, <2>1 DEF FlaglessLinks
  <2>3. PICK k : k = links[i]
    OBVIOUS
  <2>4. /\ k.trace_id = l.trace_id /\ k.span_id = l.span_id /\ k.trace_state = l.trace_state
        /\ k.attr = l.attr /\ k.dropped_attr_count = l.dropped_attr_count
    BY <2>2, <2>3 DEF Link
  <2>5. format_link(k) = format_link(l)
    BY <2>4 DEF format_link
  <2> QED BY <2>1, <2>3, <2>5
<1>6. [i \in DOMAIN q.links |-> format_link(q.links[i])]
         = [i \in DOMAIN p.links |-> format_link(p.links[i])]
  BY <1>3, <1>4, <1>5
<1>7. format_span(q) = format_span(p)
  BY <1>3, <1>6 DEF format_span
<1> QED BY <1>1, <1>7

LEMMA FlagsOfScopeSpanAreNotPrinted ==
    ASSUME NEW s \in ScopeSpan(Nat)
    PROVE  format_scope_span([s EXCEPT !.spans = FlaglessSpans(@)]) = format_scope_span(s)
<1>1. PICK q, spans : q = [s EXCEPT !.spans = FlaglessSpans(@)] /\ spans = FlaglessSpans(s.spans)
  OBVIOUS
<1>2. /\ q.instrumentation_scope = s.instrumentation_scope /\ q.schema_url = s.schema_url
      /\ q.spans = spans /\ s.spans \in Seq(Span(Nat))
  BY <1>1 DEF ScopeSpan
<1>3. ASSUME NEW k \in DOMAIN s.spans
      PROVE  format_span(spans[k]) = format_span(s.spans[k])
  <2>1. s.spans[k] \in Span(Nat) /\ spans[k] = Flagless(s.spans[k])
    BY <1>1, <1>2, SeqFacts DEF FlaglessSpans
  <2> QED BY <2>1, FlagsAreNotPrinted
<1>4. DOMAIN spans = DOMAIN s.spans
  BY <1>1 DEF FlaglessSpans
<1>5. [i \in DOMAIN q.spans |-> format_span(q.spans[i])]
         = [i \in DOMAIN s.spans |-> format_span(s.spans[i])]
  BY <1>2, <1>3, <1>4
<1>6. format_scope_span(q) = format_scope_span(s)
  BY <1>2, <1>5 DEF format_scope_span
<1> QED BY <1>1, <1>6

LEMMA FlagsOfContextAreNotPrinted ==
    ASSUME NEW ctx \in Context(Nat)
    PROVE  ctr_encode_text_create(EachSpan(ctx, Flagless)) = ctr_encode_text_create(ctx)
<1>1. PICK d : d = EachSpan(ctx, Flagless)
  OBVIOUS
<1>2. d = [i \in DOMAIN ctx |-> [ctx[i] EXCEPT !.scope_spans = FlaglessScopeSpans(@)]]
  BY <1>1, FlaglessContext
<1>3. DOMAIN d = DOMAIN ctx
  BY <1>2
<1>4. ASSUME NEW i \in DOMAIN ctx
      PROVE  /\ d[i].resource = ctx[i].resource /\ d[i].schema_url = ctx[i].schema_url
             /\ [j \in DOMAIN d[i].scope_spans |-> format_scope_span(d[i].scope_spans[j])]
                   = [j \in DOMAIN ctx[i].scope_spans |->
                         format_scope_span(ctx[i].scope_spans[j])]
  <2>1. PICK r \in ResourceSpan(Nat) : r = ctx[i]
    BY SeqFacts DEF Context
  <2>2. PICK q, list : q = d[i] /\ list = FlaglessScopeSpans(r.scope_spans)
    OBVIOUS
  <2>3. q = [r EXCEPT !.scope_spans = list]
    BY <1>2, <2>1, <2>2
  <2>4. /\ q.resource = r.resource /\ q.schema_url = r.schema_url /\ q.scope_spans = list
        /\ r.scope_spans \in Seq(ScopeSpan(Nat))
    BY <2>3 DEF ResourceSpan
  <2>5. ASSUME NEW j \in DOMAIN r.scope_spans
        PROVE  format_scope_span(list[j]) = format_scope_span(r.scope_spans[j])
    <3>1. PICK s \in ScopeSpan(Nat) : s = r.scope_spans[j]
      BY <2>4, SeqFacts
    <3>2. list[j] = [s EXCEPT !.spans = FlaglessSpans(@)]
      BY <2>2, <3>1 DEF FlaglessScopeSpans
    <3> QED BY <3>1, <3>2, FlagsOfScopeSpanAreNotPrinted
  <2>6. DOMAIN list = DOMAIN r.scope_spans
    BY <2>2 DEF FlaglessScopeSpans
  <2>7. [j \in DOMAIN q.scope_spans |-> format_scope_span(q.scope_spans[j])]
           = [j \in DOMAIN r.scope_spans |-> format_scope_span(r.scope_spans[j])]
    BY <2>4, <2>5, <2>6
  <2> QED BY <2>1, <2>2, <2>4, <2>7
<1>5. ctr_encode_text_create(d) = ctr_encode_text_create(ctx)
  BY <1>3, <1>4 DEF ctr_encode_text_create
<1> QED BY <1>1, <1>5

\* The text of what was decoded from MessagePack is the text of what was encoded,
\* whatever the context: what tests/decoding.c sets out to compare.
THEOREM TheTextSurvives == Spec => TextSurvivesMsgpack
<1>1. Course /\ [Next]_vars =>
        (Arrives("msgpack") /\ doc' # NULL
           => ctr_encode_text_create(doc') = ctr_encode_text_create(doc))
  <2> SUFFICES ASSUME Course, [Next]_vars, Arrives("msgpack"), doc' # NULL
               PROVE  ctr_encode_text_create(doc') = ctr_encode_text_create(doc)
    OBVIOUS
  <2>1. doc \in Context(Nat) /\ doc' = EachSpan(doc, Flagless)
    BY MsgpackHop
  <2> QED BY <2>1, FlagsOfContextAreNotPrinted
<1> QED BY <1>1, CourseHolds, PTL DEF Spec, TextSurvivesMsgpack
=============================================================================
