------------------------ MODULE MsgpackDecoderProofs ------------------------
(***************************************************************************)
(* What MsgpackDecoder promises of every buffer, whole or cut, its own or  *)
(* of another program, and of any allocations that fail.                   *)
(*                                                                         *)
(* As long as nothing has failed, the stack is a path of the grammar of    *)
(* messages: a frame's place in it is its level, and the depth says which  *)
(* structures there are to write to.  A pointer that could be overwritten  *)
(* is NULL until its key has come in the map that is being read.           *)
(***************************************************************************)
EXTENDS MsgpackDecoder, SequenceTheorems, TLAPS

IsList(s) == \E S : s \in Seq(S)

-----------------------------------------------------------------------------
(* The invariant.                                                          *)

MapLevel ==
    [context |-> 1, resource_span |-> 3, resource |-> 4, scope_span |-> 5, scope |-> 6,
     span |-> 7, status |-> 8, event |-> 9, link |-> 9]

ArrayLevel == [resource_span |-> 2, scope_span |-> 4, span |-> 6, event |-> 8, link |-> 8]

Level(f) == IF f.what = "map" THEN MapLevel[f.kind] ELSE ArrayLevel[f.kind]

IsFrame(f) ==
    /\ f = [what |-> f.what, kind |-> f.kind, left |-> f.left, key |-> f.key, keys |-> f.keys]
    /\ \/ f.what = "map" /\ f.kind \in DOMAIN MapLevel
       \/ f.what = "array" /\ f.kind \in DOMAIN ArrayLevel
    /\ f.key # "" => f.what = "map" /\ f.key \in f.keys /\ f.key \in Range(Entries[f.kind])

Typed ==
    /\ buffer \in Buffer
    /\ pos \in Nat /\ offset \in Nat
    /\ IsList(stack) /\ IsList(answers)
    /\ \A i \in 1..Len(stack) : IsFrame(stack[i])

Running == call = "reading" /\ result = "ok"

\* Each frame has its place, and only the innermost a key at hand.
Levels ==
    \A i \in 1..Len(stack) : Level(stack[i]) = i /\ (i # Len(stack) => stack[i].key = "")

TheSpan(ctx) == Last(Last(Last(ctx).scope_spans).spans)

\* The structures that are open, with the fields that are written or looked at.
Open(depth, ctx) ==
    /\ IsList(ctx)
    /\ depth >= 3 =>
          /\ ctx # <<>>
          /\ {"resource", "scope_spans"} \subseteq DOMAIN Last(ctx)
          /\ IsList(Last(ctx).scope_spans)
    /\ depth >= 5 =>
          /\ Last(ctx).scope_spans # <<>>
          /\ {"instrumentation_scope", "spans"} \subseteq DOMAIN Last(Last(ctx).scope_spans)
          /\ IsList(Last(Last(ctx).scope_spans).spans)
    /\ depth >= 7 =>
          /\ Last(Last(ctx).scope_spans).spans # <<>>
          /\ {"schema_url", "status", "events", "links"} \subseteq DOMAIN TheSpan(ctx)
          /\ "message" \in DOMAIN TheSpan(ctx).status
          /\ IsList(TheSpan(ctx).events) /\ IsList(TheSpan(ctx).links)

IsOpen(level, kind) == Len(stack) >= level /\ stack[level].what = "map" /\ stack[level].kind = kind

\* The key has come in this map; where it is at hand, it has come before.
Came(f, key) == key \in f.keys /\ (f.key = key => <<f.kind, key>> \in repeats)

ScopeIsFresh ==
    IsOpen(6, "scope") =>
        LET c == Object(trace, "scope")
        IN  /\ {"name", "version"} \subseteq DOMAIN c
            /\ \A key \in {"name", "version"} : c[key] # NULL => Came(stack[6], key)

SpanIsFresh ==
    IsOpen(7, "span") =>
        /\ Object(trace, "span").schema_url # NULL => Came(stack[7], "schema_url")
        /\ Object(trace, "span").status.message # NULL => Came(stack[7], "status")

StatusIsFresh ==
    IsOpen(8, "status") =>
        /\ "status" \in stack[7].keys
        /\ Object(trace, "status").message # NULL =>
              Came(stack[8], "message") \/ <<"span", "status">> \in repeats

EventIsThere ==
    IsOpen(9, "event") =>
        /\ Object(trace, "span").events # <<>>
        /\ "attr" \in DOMAIN Object(trace, "event")
        /\ Object(trace, "event").attr = NULL => "event attributes" \in starved

LinkKeys == {"trace_id", "span_id", "trace_state"}

LinkIsFresh ==
    IsOpen(9, "link") =>
        LET l == Object(trace, "link")
        IN  /\ Object(trace, "span").links # <<>>
            /\ LinkKeys \subseteq DOMAIN l
            /\ \A key \in LinkKeys : l[key] # NULL => Came(stack[9], key)

Fresh == ScopeIsFresh /\ SpanIsFresh /\ StatusIsFresh /\ EventIsThere /\ LinkIsFresh

\* An error of the reader is an error of the call.
Course ==
    /\ call \in {"idle", "reading", "stopped", "crashed"}
    /\ call = "idle" => result = "ok"
    /\ call \in {"idle", "reading"} /\ result = "ok" => err = FALSE

IInv ==
    /\ Typed
    /\ Course
    /\ Running => Levels /\ Open(Len(stack), trace) /\ Fresh
    /\ CutIsRefused
    /\ LeaksAreRepeats
    /\ CrashesAreEarned

-----------------------------------------------------------------------------
(* Lists and the stack.                                                    *)

LEMMA ListFacts ==
    ASSUME NEW s, IsList(s), NEW x
    PROVE  /\ Len(s) \in Nat /\ DOMAIN s = 1..Len(s)
           /\ s # <<>> <=> Len(s) > 0
           /\ s # <<>> => Last(s) = s[Len(s)]
           /\ IsList(Append(s, x)) /\ Append(s, x) # <<>>
           /\ Len(Append(s, x)) = Len(s) + 1
           /\ Last(Append(s, x)) = x
           /\ \A i \in 1..Len(s) : Append(s, x)[i] = s[i]
           /\ Append(s, x)[Len(s) + 1] = x
<1>1. PICK S : s \in Seq(S)
  BY DEF IsList
<1>2. s \in Seq(S \cup {x}) /\ x \in S \cup {x}
  BY <1>1, SeqMonotonic
<1>3. /\ Append(s, x) \in Seq(S \cup {x})
      /\ Len(Append(s, x)) = Len(s) + 1
      /\ \A i \in 1..Len(s) : Append(s, x)[i] = s[i]
      /\ Append(s, x)[Len(s) + 1] = x
  BY <1>2, AppendProperties
<1>4. Len(s) \in Nat /\ DOMAIN s = 1..Len(s) /\ (s = <<>> <=> Len(s) = 0)
  BY <1>1, LenProperties, EmptySeq
<1>5. IsList(Append(s, x)) /\ Append(s, x) # <<>>
  BY <1>3, <1>4, EmptySeq DEF IsList
<1>6. Last(Append(s, x)) = x
  BY <1>3 DEF Last
<1> QED BY <1>3, <1>4, <1>5, <1>6 DEF Last

LEMMA LastReplaced ==
    ASSUME NEW s, IsList(s), s # <<>>, NEW x
    PROVE  IsList(WithLast(s, x)) /\ WithLast(s, x) # <<>> /\ Last(WithLast(s, x)) = x
<1>1. PICK S : s \in Seq(S)
  BY DEF IsList
<1>2. s \in Seq(S \cup {x})
  BY <1>1, SeqMonotonic
<1>3. Len(s) \in Nat /\ Len(s) \in 1..Len(s) /\ DOMAIN s = 1..Len(s)
  BY <1>1, LenProperties, EmptySeq
<1>4. WithLast(s, x) \in Seq(S \cup {x}) /\ Len(WithLast(s, x)) = Len(s)
      /\ WithLast(s, x)[Len(s)] = x
  BY <1>2, <1>3, ExceptSeq DEF WithLast
<1> QED BY <1>3, <1>4, EmptySeq DEF IsList, Last

LEMMA FrontFacts ==
    ASSUME NEW s, IsList(s), s # <<>>
    PROVE  /\ IsList(Front(s)) /\ Len(Front(s)) = Len(s) - 1
           /\ \A i \in 1..(Len(s) - 1) : Front(s)[i] = s[i]
<1>1. PICK S : s \in Seq(S)
  BY DEF IsList
<1>2. Len(s) \in Nat /\ Len(s) \in Nat \ {0}
  BY <1>1, LenProperties, EmptySeq
<1>3. \A i \in 1..(Len(s) - 1) : s[i] \in S
  BY <1>1, <1>2, ElementOfSeq
<1> DEFINE n == Len(s) - 1
<1>4. n \in Int /\ 1 \in Int /\ n >= 0 /\ Len(s) = n + 1
  BY <1>2
<1>5. /\ SubSeq(s, 1, n) \in Seq(S)
      /\ Len(SubSeq(s, 1, n)) = IF 1 <= n THEN n - 1 + 1 ELSE 0
      /\ \A i \in 1..(n - 1 + 1) : SubSeq(s, 1, n)[i] = s[1 + i - 1]
  BY <1>3, <1>4, SubSeqProperties
<1> HIDE DEF n
<1>6. Len(SubSeq(s, 1, n)) = n
  BY <1>4, <1>5
<1>7. \A i \in 1..n : SubSeq(s, 1, n)[i] = s[i]
  BY <1>4, <1>5
<1>8. Front(s) = SubSeq(s, 1, n) /\ Len(s) - 1 = n
  BY DEF Front, n
<1> QED BY <1>5, <1>6, <1>7, <1>8 DEF IsList

\* The innermost frame replaced.
LEMMA SwapFacts ==
    ASSUME IsList(stack), stack # <<>>, NEW f
    PROVE  /\ IsList(Append(Below, f)) /\ Append(Below, f) # <<>>
           /\ Len(Append(Below, f)) = Len(stack) /\ Len(stack) \in Nat \ {0}
           /\ \A i \in 1..(Len(stack) - 1) : Append(Below, f)[i] = stack[i]
           /\ Append(Below, f)[Len(stack)] = f
           /\ Top = stack[Len(stack)]
<1>1. Len(stack) \in Nat \ {0} /\ Top = stack[Len(stack)]
  BY ListFacts DEF Top
<1>2. IsList(Below) /\ Len(Below) = Len(stack) - 1
      /\ \A i \in 1..(Len(stack) - 1) : Below[i] = stack[i]
  BY FrontFacts DEF Below
<1>3. /\ IsList(Append(Below, f)) /\ Append(Below, f) # <<>>
      /\ Len(Append(Below, f)) = Len(Below) + 1
      /\ \A i \in 1..Len(Below) : Append(Below, f)[i] = Below[i]
      /\ Append(Below, f)[Len(Below) + 1] = f
  BY <1>2, ListFacts
<1>4. Len(Below) + 1 = Len(stack) /\ 1..Len(Below) = 1..(Len(stack) - 1)
  BY <1>1, <1>2
<1> QED BY <1>1, <1>2, <1>3, <1>4

\* ... and another one on top of it.
Push(f, g) == Below \o <<f, g>>

LEMMA PushFacts ==
    ASSUME IsList(stack), stack # <<>>, NEW f, NEW g
    PROVE  /\ IsList(Push(f, g)) /\ Push(f, g) # <<>>
           /\ Len(Push(f, g)) = Len(stack) + 1 /\ Len(stack) \in Nat \ {0}
           /\ \A i \in 1..(Len(stack) - 1) : Push(f, g)[i] = stack[i]
           /\ Push(f, g)[Len(stack)] = f /\ Push(f, g)[Len(stack) + 1] = g
           /\ Top = stack[Len(stack)]
<1>1. IsList(Below) /\ Len(Below) = Len(stack) - 1 /\ Len(stack) \in Nat \ {0}
      /\ \A i \in 1..(Len(stack) - 1) : Below[i] = stack[i]
  BY FrontFacts, ListFacts DEF Below
<1>2. PICK S : Below \in Seq(S)
  BY <1>1 DEF IsList
<1>3. PICK U : U = S \cup {f, g}
  OBVIOUS
<1>4. Below \in Seq(U)
  BY <1>2, <1>3, SeqMonotonic
<1>5. <<f, g>> \in Seq(U) /\ Len(<<f, g>>) = 2 /\ <<f, g>>[1] = f /\ <<f, g>>[2] = g
  BY <1>3
<1>6. PICK t, u : t = <<f, g>> /\ u = Below \o t
  OBVIOUS
<1>7. /\ u \in Seq(U)
      /\ Len(u) = Len(Below) + Len(t)
      /\ \A i \in 1..(Len(Below) + Len(t)) :
            u[i] = IF i <= Len(Below) THEN Below[i] ELSE t[i - Len(Below)]
  BY <1>4, <1>5, <1>6, ConcatProperties
<1>8. PICK n : n = Len(stack)
  OBVIOUS
<1>9. n \in Nat \ {0} /\ Len(Below) = n - 1 /\ Len(t) = 2
  BY <1>1, <1>5, <1>6, <1>8
<1>10. Len(u) = n + 1
  BY <1>7, <1>9
<1>11. u[n] = t[1] /\ u[n + 1] = t[2]
  BY <1>7, <1>9
<1>12. \A i \in 1..(n - 1) : u[i] = Below[i]
  BY <1>7, <1>9
<1>13. u # <<>>
  BY <1>7, <1>9, <1>10, EmptySeq
<1>14. Top = stack[n]
  BY <1>8, ListFacts DEF Top
<1>15. IsList(u)
  BY <1>7 DEF IsList
<1>16. Push(f, g) = u
  BY <1>6 DEF Push
<1> QED BY <1>1, <1>5, <1>6, <1>8, <1>9, <1>10, <1>11, <1>12, <1>13, <1>14, <1>15, <1>16

-----------------------------------------------------------------------------
(* The context.                                                            *)

LEMMA ObjectIs ==
    ASSUME NEW ctx
    PROVE  /\ Object(ctx, "resource_span") = Last(ctx)
           /\ Object(ctx, "resource") = Last(ctx).resource
           /\ Object(ctx, "scope_span") = Last(Last(ctx).scope_spans)
           /\ Object(ctx, "scope") = Last(Last(ctx).scope_spans).instrumentation_scope
           /\ Object(ctx, "span") = TheSpan(ctx)
           /\ Object(ctx, "status") = TheSpan(ctx).status
           /\ Object(ctx, "event") = Last(TheSpan(ctx).events)
           /\ Object(ctx, "link") = Last(TheSpan(ctx).links)
BY Zenon DEF Object, TheSpan

LEMMA WithIs ==
    ASSUME NEW ctx, NEW new
    PROVE  /\ With(ctx, "resource_span", new) = WithLast(ctx, new)
           /\ With(ctx, "resource", new) = WithLast(ctx, [Last(ctx) EXCEPT !.resource = new])
           /\ With(ctx, "scope_span", new) = WithScopeSpan(ctx, new)
           /\ With(ctx, "scope", new)
                = WithScopeSpan(ctx, [Last(Last(ctx).scope_spans)
                                        EXCEPT !.instrumentation_scope = new])
           /\ With(ctx, "span", new) = WithSpan(ctx, new)
           /\ With(ctx, "status", new) = WithSpan(ctx, [TheSpan(ctx) EXCEPT !.status = new])
           /\ With(ctx, "event", new)
                = WithSpan(ctx, [TheSpan(ctx) EXCEPT !.events = WithLast(TheSpan(ctx).events, new)])
           /\ With(ctx, "link", new)
                = WithSpan(ctx, [TheSpan(ctx) EXCEPT !.links = WithLast(TheSpan(ctx).links, new)])
<1> USE ObjectIs
<1>1. With(ctx, "resource_span", new) = WithLast(ctx, new)
  BY Zenon DEF With
<1>2. With(ctx, "resource", new) = WithLast(ctx, [Last(ctx) EXCEPT !.resource = new])
  BY Zenon DEF With
<1>3. With(ctx, "scope_span", new) = WithScopeSpan(ctx, new)
  BY Zenon DEF With
<1>4. With(ctx, "scope", new)
         = WithScopeSpan(ctx, [Last(Last(ctx).scope_spans) EXCEPT !.instrumentation_scope = new])
  BY Zenon DEF With
<1>5. With(ctx, "span", new) = WithSpan(ctx, new)
  BY Zenon DEF With
<1>6. With(ctx, "status", new) = WithSpan(ctx, [TheSpan(ctx) EXCEPT !.status = new])
  BY Zenon DEF With
<1>7. With(ctx, "event", new)
         = WithSpan(ctx, [TheSpan(ctx) EXCEPT !.events = WithLast(TheSpan(ctx).events, new)])
  BY Zenon DEF With
<1>8. With(ctx, "link", new)
         = WithSpan(ctx, [TheSpan(ctx) EXCEPT !.links = WithLast(TheSpan(ctx).links, new)])
  BY Zenon DEF With
<1> QED BY <1>1, <1>2, <1>3, <1>4, <1>5, <1>6, <1>7, <1>8

LEMMA WithResourceSpanIs ==
    ASSUME NEW ctx, Open(3, ctx), NEW r, {"resource", "scope_spans"} \subseteq DOMAIN r,
           IsList(r.scope_spans)
    PROVE  /\ Open(3, WithLast(ctx, r)) /\ Open(4, WithLast(ctx, r))
           /\ Last(WithLast(ctx, r)) = r
<1>1. IsList(ctx) /\ ctx # <<>>
  BY DEF Open
<1>2. PICK t : t = WithLast(ctx, r)
  OBVIOUS
<1>3. IsList(t) /\ t # <<>> /\ Last(t) = r
  BY <1>1, <1>2, LastReplaced
<1> QED BY <1>2, <1>3 DEF Open

LEMMA WithScopeSpanIs ==
    ASSUME NEW ctx, Open(5, ctx), NEW s, {"instrumentation_scope", "spans"} \subseteq DOMAIN s,
           IsList(s.spans)
    PROVE  /\ Open(5, WithScopeSpan(ctx, s)) /\ Open(6, WithScopeSpan(ctx, s))
           /\ Last(Last(WithScopeSpan(ctx, s)).scope_spans) = s
<1>1. /\ Open(3, ctx) /\ IsList(Last(ctx).scope_spans) /\ Last(ctx).scope_spans # <<>>
      /\ {"resource", "scope_spans"} \subseteq DOMAIN Last(ctx)
  BY DEF Open
<1>2. PICK list, r : /\ list = WithLast(Last(ctx).scope_spans, s)
                     /\ r = [Last(ctx) EXCEPT !.scope_spans = list]
  OBVIOUS
<1>3. IsList(list) /\ list # <<>> /\ Last(list) = s
  BY <1>1, <1>2, LastReplaced
<1>4. r.scope_spans = list /\ DOMAIN r = DOMAIN Last(ctx)
  BY <1>1, <1>2
<1>5. PICK t : t = WithLast(ctx, r)
  OBVIOUS
<1>6. Open(3, t) /\ Last(t) = r
  BY <1>1, <1>3, <1>4, <1>5, WithResourceSpanIs
<1>7. WithScopeSpan(ctx, s) = t
  BY <1>2, <1>5, ObjectIs DEF WithScopeSpan
<1>8. Open(5, t) /\ Open(6, t)
  BY <1>3, <1>4, <1>6 DEF Open
<1> QED BY <1>3, <1>4, <1>6, <1>7, <1>8

IsSpan(p) ==
    /\ {"schema_url", "status", "events", "links"} \subseteq DOMAIN p
    /\ "message" \in DOMAIN p.status
    /\ IsList(p.events) /\ IsList(p.links)

LEMMA WithSpanIs ==
    ASSUME NEW ctx, Open(7, ctx), NEW p, IsSpan(p)
    PROVE  /\ \A n \in 7..9 : Open(n, WithSpan(ctx, p))
           /\ TheSpan(WithSpan(ctx, p)) = p
           /\ Object(WithSpan(ctx, p), "scope") = Object(ctx, "scope")
<1>1. /\ Open(5, ctx) /\ IsList(Last(Last(ctx).scope_spans).spans)
      /\ Last(Last(ctx).scope_spans).spans # <<>>
      /\ {"instrumentation_scope", "spans"} \subseteq DOMAIN Last(Last(ctx).scope_spans)
  BY DEF Open
<1>2. PICK list, s : /\ list = WithLast(Last(Last(ctx).scope_spans).spans, p)
                     /\ s = [Last(Last(ctx).scope_spans) EXCEPT !.spans = list]
  OBVIOUS
<1>3. IsList(list) /\ list # <<>> /\ Last(list) = p
  BY <1>1, <1>2, LastReplaced
<1>4. /\ s.spans = list /\ DOMAIN s = DOMAIN Last(Last(ctx).scope_spans)
      /\ s.instrumentation_scope = Last(Last(ctx).scope_spans).instrumentation_scope
  BY <1>1, <1>2
<1>5. PICK t : t = WithScopeSpan(ctx, s)
  OBVIOUS
<1>6. Open(5, t) /\ Last(Last(t).scope_spans) = s
  BY <1>1, <1>3, <1>4, <1>5, WithScopeSpanIs
<1>7. WithSpan(ctx, p) = t
  BY <1>2, <1>5, ObjectIs DEF WithSpan
<1>8. TheSpan(t) = p
  BY <1>3, <1>4, <1>6 DEF TheSpan
<1>9. \A n \in 7..9 : Open(n, t)
  BY <1>3, <1>4, <1>6, <1>8 DEF Open, IsSpan
<1>10. Object(t, "scope") = Object(ctx, "scope")
  <2>1. Object(t, "scope") = Last(Last(t).scope_spans).instrumentation_scope
    BY ObjectIs
  <2>2. Object(ctx, "scope") = Last(Last(ctx).scope_spans).instrumentation_scope
    BY ObjectIs
  <2>3. Last(Last(t).scope_spans).instrumentation_scope = s.instrumentation_scope
    BY <1>6
  <2> QED BY <1>4, <2>1, <2>2, <2>3
<1> QED BY <1>7, <1>8, <1>9, <1>10

\* A list of the span replaced, or an element of it: the rest stays.
LEMMA SpanOfIs ==
    ASSUME NEW ctx, Open(7, ctx)
    PROVE  IsSpan(TheSpan(ctx))
BY DEF Open, IsSpan

-----------------------------------------------------------------------------
(* Steps, by what they do to the stack.                                    *)

FreshKeys == {"name", "version", "schema_url", "status", "message"} \cup LinkKeys

LEMMA ReaderKeeps ==
    ASSUME Typed, UNCHANGED <<buffer, offset, pos>> \/ \E t : Take(t)
    PROVE  buffer' \in Buffer /\ pos' \in Nat /\ offset' \in Nat
BY DEF Typed, Take

\* The call failed; the way out touches the stack alone.
LEMMA FailedKeeps ==
    ASSUME IInv, call = "reading", call' = "reading", result' # "ok", stack' = stack,
           UNCHANGED <<buffer, offset, pos>> \/ \E t : Take(t),
           UNCHANGED answers, LeaksAreRepeats'
    PROVE  IInv'
<1>1. Typed'
  BY ReaderKeeps DEF IInv, Typed, IsFrame
<1>2. Course'
  BY DEF Course
<1>3. ~Running'
  BY DEF Running
<1>4. CutIsRefused' /\ CrashesAreEarned'
  BY DEF CutIsRefused, CrashesAreEarned
<1> QED BY <1>1, <1>2, <1>3, <1>4 DEF IInv

LEMMA TopFacts ==
    ASSUME IInv, stack # <<>>
    PROVE  /\ Len(stack) \in Nat \ {0} /\ Top = stack[Len(stack)] /\ IsFrame(Top)
           /\ Running => Level(Top) = Len(stack)
<1>1. Len(stack) \in Nat \ {0} /\ Top = stack[Len(stack)]
  BY ListFacts DEF IInv, Typed, Top
<1>2. Len(stack) \in 1..Len(stack)
  BY <1>1
<1> QED BY <1>1, <1>2 DEF IInv, Typed, Levels

LEMMA Swapped ==
    ASSUME IInv, Running, stack # <<>>, NEW g, IsFrame(g), g.what = Top.what, g.kind = Top.kind,
           Top.keys \subseteq g.keys, stack' = Append(Below, g), repeats \subseteq repeats',
           \A key \in FreshKeys : Came(Top, key) =>
              key \in g.keys /\ (g.key = key => <<g.kind, key>> \in repeats')
    PROVE  /\ IsList(stack') /\ Len(stack') = Len(stack) /\ stack' # <<>>
           /\ \A i \in 1..Len(stack') : IsFrame(stack'[i])
           /\ Levels'
           /\ \A n \in 1..9, kind \in DOMAIN MapLevel : IsOpen(n, kind)' => IsOpen(n, kind)
           /\ \A n \in 1..Len(stack) :
                 /\ stack[n].keys \subseteq stack'[n].keys
                 /\ \A key \in FreshKeys : Came(stack[n], key) => Came(stack[n], key)'
<1> PICK s : s = Append(Below, g)
  OBVIOUS
<1>1. /\ IsList(s) /\ s # <<>> /\ Len(s) = Len(stack) /\ Len(stack) \in Nat \ {0}
      /\ \A i \in 1..(Len(stack) - 1) : s[i] = stack[i]
      /\ s[Len(stack)] = g /\ Top = stack[Len(stack)]
  BY SwapFacts DEF IInv, Typed
<1>2. PICK m : m = Len(stack)
  OBVIOUS
<1>3. m \in Nat \ {0} /\ \A i \in 1..m : i \in 1..(m - 1) \/ i = m
  BY <1>1, <1>2
<1>4. \A i \in 1..m : \/ i # m /\ s[i] = stack[i]
                      \/ i = m /\ s[i] = g /\ stack[i] = Top
  BY <1>1, <1>2, <1>3
<1>5. \A i \in 1..m : s[i].what = stack[i].what /\ s[i].kind = stack[i].kind
  BY <1>4
<1>6. \A i \in 1..m : IsFrame(s[i])
  BY <1>2, <1>4 DEF IInv, Typed
<1>7. \A i \in 1..m : Level(s[i]) = i /\ (i # m => s[i].key = "")
  BY <1>2, <1>4, <1>5 DEF IInv, Levels, Level
<1>8. \A n \in 1..9, kind \in DOMAIN MapLevel :
         Len(s) >= n /\ s[n].what = "map" /\ s[n].kind = kind => IsOpen(n, kind)
  <2> TAKE n \in 1..9, kind \in DOMAIN MapLevel
  <2> SUFFICES ASSUME Len(s) >= n /\ s[n].what = "map" /\ s[n].kind = kind PROVE IsOpen(n, kind)
    OBVIOUS
  <2>1. n \in 1..m
    BY <1>1, <1>2
  <2> QED BY <2>1, <1>1, <1>2, <1>5 DEF IsOpen
<1>9. \A n \in 1..m :
         /\ stack[n].keys \subseteq s[n].keys
         /\ \A key \in FreshKeys : Came(stack[n], key) =>
              key \in s[n].keys /\ (s[n].key = key => <<s[n].kind, key>> \in repeats')
  BY <1>4 DEF Came
<1> QED BY <1>1, <1>2, <1>6, <1>7, <1>8, <1>9 DEF Levels, IsOpen, Came

\* The context stays as it is.
LEMMA TraceKept ==
    ASSUME IInv, Running, stack # <<>>, Len(stack') \in Nat, Len(stack') <= Len(stack),
           UNCHANGED trace,
           starved \subseteq starved', repeats \subseteq repeats',
           \A n \in 1..9, kind \in DOMAIN MapLevel : IsOpen(n, kind)' => IsOpen(n, kind),
           \A n \in 1..Len(stack') :
                 /\ stack[n].keys \subseteq stack'[n].keys
                 /\ \A key \in FreshKeys : Came(stack[n], key) => Came(stack[n], key)'
    PROVE  Open(Len(stack), trace)' /\ Fresh'
<1>1. Open(Len(stack), trace)'
  <2>1. PICK m, n : m = Len(stack') /\ n = Len(stack)
    OBVIOUS
  <2>2. m \in Nat /\ n \in Nat /\ m <= n
    BY <2>1, TopFacts
  <2>3. Open(n, trace)
    BY <2>1 DEF IInv
  <2>4. Open(m, trace)
    BY <2>2, <2>3 DEF Open
  <2> QED BY <2>1, <2>4
<1>2. Len(stack') \in Nat
  OBVIOUS
<1>3. ScopeIsFresh'
  <2> SUFFICES ASSUME IsOpen(6, "scope")' PROVE ScopeIsFresh'
    BY DEF ScopeIsFresh
  <2>1. IsOpen(6, "scope") /\ 6 \in 1..Len(stack')
    BY <1>2 DEF MapLevel, IsOpen
  <2> QED BY <2>1 DEF IInv, Fresh, ScopeIsFresh, FreshKeys
<1>4. SpanIsFresh'
  <2> SUFFICES ASSUME IsOpen(7, "span")' PROVE SpanIsFresh'
    BY DEF SpanIsFresh
  <2>1. IsOpen(7, "span") /\ 7 \in 1..Len(stack')
    BY <1>2 DEF MapLevel, IsOpen
  <2> QED BY <2>1 DEF IInv, Fresh, SpanIsFresh, FreshKeys
<1>5. StatusIsFresh'
  <2> SUFFICES ASSUME IsOpen(8, "status")' PROVE StatusIsFresh'
    BY DEF StatusIsFresh
  <2>1. IsOpen(8, "status") /\ 7 \in 1..Len(stack') /\ 8 \in 1..Len(stack')
    BY <1>2 DEF MapLevel, IsOpen
  <2> QED BY <2>1 DEF IInv, Fresh, StatusIsFresh, FreshKeys
<1>6. EventIsThere'
  <2> SUFFICES ASSUME IsOpen(9, "event")' PROVE EventIsThere'
    BY DEF EventIsThere
  <2>1. IsOpen(9, "event")
    BY <1>2 DEF MapLevel
  <2> QED BY <2>1 DEF IInv, Fresh, EventIsThere
<1>7. LinkIsFresh'
  <2> SUFFICES ASSUME IsOpen(9, "link")' PROVE LinkIsFresh'
    BY DEF LinkIsFresh
  <2>1. IsOpen(9, "link") /\ 9 \in 1..Len(stack')
    BY <1>2 DEF MapLevel, IsOpen
  <2> QED BY <2>1 DEF IInv, Fresh, LinkIsFresh, FreshKeys
<1> QED BY <1>1, <1>3, <1>4, <1>5, <1>6, <1>7 DEF Fresh

\* What is left to say of a step that goes on.
LEMMA GoesOn ==
    ASSUME IInv, Running, call' = call, result' = result, UNCHANGED answers, err' = FALSE,
           UNCHANGED <<buffer, offset, pos>> \/ \E t : Take(t),
           IsList(stack'), \A i \in 1..Len(stack') : IsFrame(stack'[i]),
           Levels', Open(Len(stack), trace)', Fresh', LeaksAreRepeats'
    PROVE  IInv'
<1>1. Typed'
  BY ReaderKeeps DEF IInv, Typed, IsFrame
<1>2. Course'
  BY DEF IInv, Course, Running
<1>3. CutIsRefused' /\ CrashesAreEarned'
  BY DEF CutIsRefused, CrashesAreEarned, Running
<1> QED BY <1>1, <1>2, <1>3 DEF IInv

-----------------------------------------------------------------------------
(* The handlers that write a field of the structure at hand.               *)

LEMMA HandledSwaps ==
    ASSUME IInv, Running, stack # <<>>, Top.key # "", Handled, repeats' = repeats
    PROVE  /\ IsList(stack') /\ Len(stack') = Len(stack) /\ stack' # <<>>
           /\ \A i \in 1..Len(stack') : IsFrame(stack'[i])
           /\ Levels'
           /\ \A n \in 1..9, kind \in DOMAIN MapLevel : IsOpen(n, kind)' => IsOpen(n, kind)
           /\ \A n \in 1..Len(stack) :
                 /\ stack[n].keys \subseteq stack'[n].keys
                 /\ \A key \in FreshKeys : Came(stack[n], key) => Came(stack[n], key)'
           /\ \A n \in 1..9 : n = Len(stack) =>
                 Top.key \in stack'[n].keys /\ stack'[n].key = ""
<1> PICK g : g = HandledFrame
  OBVIOUS
<1>1. IsFrame(Top)
  BY TopFacts
<1>2. /\ g.what = Top.what /\ g.kind = Top.kind /\ g.keys = Top.keys /\ g.key = ""
      /\ IsFrame(g)
  BY <1>1 DEF HandledFrame, IsFrame
<1>3. stack' = Append(Below, g)
  BY DEF Handled
<1>4. "" \notin FreshKeys
  BY DEF FreshKeys, LinkKeys
<1>5. \A key \in FreshKeys : Came(Top, key) =>
         key \in g.keys /\ (g.key = key => <<g.kind, key>> \in repeats')
  BY <1>2, <1>4 DEF Came
<1>6. /\ IsList(stack') /\ Len(stack') = Len(stack) /\ stack' # <<>>
      /\ \A i \in 1..Len(stack') : IsFrame(stack'[i])
      /\ Levels'
      /\ \A n \in 1..9, kind \in DOMAIN MapLevel : IsOpen(n, kind)' => IsOpen(n, kind)
      /\ \A n \in 1..Len(stack) :
            /\ stack[n].keys \subseteq stack'[n].keys
            /\ \A key \in FreshKeys : Came(stack[n], key) => Came(stack[n], key)'
  BY <1>2, <1>3, <1>5, Swapped
<1>7. stack'[Len(stack)] = g
  BY <1>3, SwapFacts DEF IInv, Typed
<1>8. Top.key \in g.keys
  BY <1>1, <1>2 DEF IsFrame
<1> QED BY <1>2, <1>6, <1>7, <1>8

PlainKeys == StringKeys \cup IdKeys \cup NumberKeys \cup {"attributes"}

LEMMA FieldIs ==
    ASSUME NEW key \in PlainKeys
    PROVE  /\ Field(key) = key \/ Field(key) \in {"attr", "dropped_attr_count"}
           /\ Field(key) = "attr" => key = "attributes"
           /\ key \notin {"attributes", "dropped_attributes_count"} => Field(key) = key
           /\ Field(key) \notin {"resource", "scope_spans", "instrumentation_scope", "spans",
                                 "status", "events", "links"}
<1>1. key = "attributes" => Field(key) = "attr"
  BY Zenon DEF Field
<1>2. key = "dropped_attributes_count" => Field(key) = "dropped_attr_count"
  BY Zenon DEF Field
<1>3. key # "attributes" /\ key # "dropped_attributes_count" => Field(key) = key
  BY Zenon DEF Field
<1>4. /\ key \notin {"resource", "scope_spans", "instrumentation_scope", "spans", "status",
                     "events", "links"}
      /\ key # "attr"
  BY DEF PlainKeys, StringKeys, IdKeys, NumberKeys
<1> QED BY <1>1, <1>2, <1>3, <1>4

LEMMA KeyPlace ==
    ASSUME NEW kind \in DOMAIN Entries, NEW key \in Range(Entries[kind])
    PROVE  /\ key \in PlainKeys => kind # "context"
           /\ key = "resource" => kind = "resource_span"
           /\ key = "status" => kind = "span"
           /\ key = "scope" => kind = "scope_span"
<1>1. key = "resource" => kind = "resource_span"
  BY DEF Entries, Range
<1>2. key = "status" => kind = "span"
  BY DEF Entries, Range
<1>3. key = "scope" => kind = "scope_span"
  BY DEF Entries, Range
<1>4. key \in PlainKeys => kind # "context"
  BY DEF Entries, Range, PlainKeys, StringKeys, IdKeys, NumberKeys
<1> QED BY <1>1, <1>2, <1>3, <1>4

LEMMA ArrayPlace ==
    ASSUME NEW kind \in DOMAIN Entries, NEW key \in Range(Entries[kind]), key \in ArrayKeys
    PROVE  /\ \/ kind = "context" /\ Element[key] = "resource_span"
              \/ /\ kind # "context" /\ Container[Element[key]] = <<kind, key>>
                 /\ Element[key] # "resource_span"
           /\ Element[key] \in DOMAIN ArrayLevel
           /\ ArrayLevel[Element[key]] = MapLevel[kind] + 1
<1>1. \/ kind = "context" /\ Element[key] = "resource_span"
      \/ /\ kind # "context" /\ Container[Element[key]] = <<kind, key>>
         /\ Element[key] # "resource_span"
  BY DEF Entries, ArrayKeys, Element, Container, Range
<1>2. Element[key] \in DOMAIN ArrayLevel /\ ArrayLevel[Element[key]] = MapLevel[kind] + 1
  BY DEF Entries, ArrayKeys, Element, Range, MapLevel, ArrayLevel
<1> QED BY <1>1, <1>2

LEMMA KeyOfFrame ==
    ASSUME NEW f, IsFrame(f), f.key # ""
    PROVE  /\ f.what = "map" /\ f.kind \in DOMAIN MapLevel /\ f.key \in f.keys
           /\ f.kind \in DOMAIN Entries /\ f.key \in Range(Entries[f.kind])
<1>1. DOMAIN MapLevel = DOMAIN Entries
  BY DEF MapLevel, Entries
<1> QED BY <1>1 DEF IsFrame

-----------------------------------------------------------------------------
(* One field of a structure replaced.                                      *)

Structural == {"resource", "scope_spans", "instrumentation_scope", "spans", "status",
               "events", "links"}

Rewritten(ctx, kind, field, v) == With(ctx, kind, [Object(ctx, kind) EXCEPT ![field] = v])

LEMMA WrittenAbove ==
    ASSUME NEW ctx, NEW field, field \notin Structural, NEW v
    PROVE  /\ Open(3, ctx) => Open(3, Rewritten(ctx, "resource_span", field, v))
           /\ Open(4, ctx) => Open(4, Rewritten(ctx, "resource", field, v))
           /\ Open(5, ctx) => Open(5, Rewritten(ctx, "scope_span", field, v))
<1> DEFINE r == Last(ctx)
           s == Last(r.scope_spans)
<1>1. Open(3, ctx) => Open(3, Rewritten(ctx, "resource_span", field, v))
  <2> SUFFICES ASSUME Open(3, ctx) PROVE Open(3, Rewritten(ctx, "resource_span", field, v))
    OBVIOUS
  <2>1. PICK q : q = [r EXCEPT ![field] = v]
    OBVIOUS
  <2>2. {"resource", "scope_spans"} \subseteq DOMAIN r /\ IsList(r.scope_spans)
    BY DEF Open
  <2>3. {"resource", "scope_spans"} \subseteq DOMAIN q /\ q.scope_spans = r.scope_spans
    BY <2>1, <2>2 DEF Structural
  <2>4. Rewritten(ctx, "resource_span", field, v) = WithLast(ctx, q)
    <3>1. Object(ctx, "resource_span") = r
      BY ObjectIs
    <3>2. With(ctx, "resource_span", q) = WithLast(ctx, q)
      BY WithIs
    <3> QED BY <2>1, <3>1, <3>2 DEF Rewritten
  <2> QED BY <2>2, <2>3, <2>4, WithResourceSpanIs
<1>2. Open(4, ctx) => Open(4, Rewritten(ctx, "resource", field, v))
  <2> SUFFICES ASSUME Open(4, ctx) PROVE Open(4, Rewritten(ctx, "resource", field, v))
    OBVIOUS
  <2>1. PICK n, q : n = [r.resource EXCEPT ![field] = v] /\ q = [r EXCEPT !.resource = n]
    OBVIOUS
  <2>2. {"resource", "scope_spans"} \subseteq DOMAIN r /\ IsList(r.scope_spans) /\ Open(3, ctx)
    BY DEF Open
  <2>3. {"resource", "scope_spans"} \subseteq DOMAIN q /\ q.scope_spans = r.scope_spans
    BY <2>1, <2>2
  <2>4. Rewritten(ctx, "resource", field, v) = WithLast(ctx, q)
    <3>1. Object(ctx, "resource") = r.resource
      BY ObjectIs
    <3>2. With(ctx, "resource", n) = WithLast(ctx, q)
      BY <2>1, WithIs
    <3> QED BY <2>1, <3>1, <3>2 DEF Rewritten
  <2> QED BY <2>2, <2>3, <2>4, WithResourceSpanIs
<1>3. Open(5, ctx) => Open(5, Rewritten(ctx, "scope_span", field, v))
  <2> SUFFICES ASSUME Open(5, ctx) PROVE Open(5, Rewritten(ctx, "scope_span", field, v))
    OBVIOUS
  <2>1. PICK q : q = [s EXCEPT ![field] = v]
    OBVIOUS
  <2>2. {"instrumentation_scope", "spans"} \subseteq DOMAIN s /\ IsList(s.spans)
    BY DEF Open
  <2>3. {"instrumentation_scope", "spans"} \subseteq DOMAIN q /\ q.spans = s.spans
    BY <2>1, <2>2 DEF Structural
  <2>4. Rewritten(ctx, "scope_span", field, v) = WithScopeSpan(ctx, q)
    <3>1. Object(ctx, "scope_span") = s
      BY ObjectIs
    <3>2. With(ctx, "scope_span", q) = WithScopeSpan(ctx, q)
      BY WithIs
    <3> QED BY <2>1, <3>1, <3>2 DEF Rewritten
  <2> QED BY <2>2, <2>3, <2>4, WithScopeSpanIs
<1> QED BY <1>1, <1>2, <1>3

\* The scope of the scope span replaced.
LEMMA WithScopeIs ==
    ASSUME NEW ctx, Open(5, ctx), NEW new
    PROVE  /\ Open(5, With(ctx, "scope", new)) /\ Open(6, With(ctx, "scope", new))
           /\ Object(With(ctx, "scope", new), "scope") = new
<1> DEFINE s == Last(Last(ctx).scope_spans)
<1>1. PICK q : q = [s EXCEPT !.instrumentation_scope = new]
  OBVIOUS
<1>2. {"instrumentation_scope", "spans"} \subseteq DOMAIN s /\ IsList(s.spans)
  BY DEF Open
<1>3. /\ {"instrumentation_scope", "spans"} \subseteq DOMAIN q /\ q.spans = s.spans
      /\ q.instrumentation_scope = new
  BY <1>1, <1>2
<1>4. PICK t : t = WithScopeSpan(ctx, q)
  OBVIOUS
<1>5. With(ctx, "scope", new) = t
  <2>1. With(ctx, "scope", new) = WithScopeSpan(ctx, [s EXCEPT !.instrumentation_scope = new])
    BY WithIs
  <2> QED BY <1>1, <1>4, <2>1
<1>6. Open(5, t) /\ Open(6, t) /\ Last(Last(t).scope_spans) = q
  BY <1>2, <1>3, <1>4, WithScopeSpanIs
<1>7. Object(t, "scope") = Last(Last(t).scope_spans).instrumentation_scope
  BY ObjectIs
<1>8. Object(t, "scope") = new
  BY <1>3, <1>6, <1>7
<1> QED BY <1>5, <1>6, <1>8

\* What replaces the span, its status or the last one of its events or links.
LEMMA WrittenBelow ==
    ASSUME NEW ctx, Open(7, ctx), NEW field, field \notin Structural, NEW v,
           NEW kind \in {"span", "status", "event", "link"},
           kind = "event" => TheSpan(ctx).events # <<>>,
           kind = "link" => TheSpan(ctx).links # <<>>
    PROVE  LET c == Rewritten(ctx, kind, field, v)
           IN  /\ \A n \in 7..9 : Open(n, c)
               /\ Object(c, kind) = [Object(ctx, kind) EXCEPT ![field] = v]
               /\ Object(c, "scope") = Object(ctx, "scope")
               /\ kind # "span" => Object(c, "span").schema_url = Object(ctx, "span").schema_url
               /\ kind # "status" => Object(c, "span").status = Object(ctx, "span").status
               /\ Object(ctx, "span").events # <<>> => Object(c, "span").events # <<>>
               /\ Object(ctx, "span").links # <<>> => Object(c, "span").links # <<>>
<1> DEFINE p == TheSpan(ctx)
<1>1. IsSpan(p)
  BY SpanOfIs
<1>2. PICK new, c : /\ new = [Object(ctx, kind) EXCEPT ![field] = v]
                    /\ c = Rewritten(ctx, kind, field, v)
  OBVIOUS
<1>3. c = With(ctx, kind, new)
  BY <1>2 DEF Rewritten
<1>4. SUFFICES ASSUME NEW q, IsSpan(q), c = WithSpan(ctx, q),
                      /\ kind = "span" => q = new
                      /\ kind = "status" => q.status = new
                      /\ kind = "event" => Last(q.events) = new
                      /\ kind = "link" => Last(q.links) = new
                      /\ kind # "span" => q.schema_url = p.schema_url
                      /\ kind # "status" => q.status = p.status
                      /\ p.events # <<>> => q.events # <<>>
                      /\ p.links # <<>> => q.links # <<>>
               PROVE  /\ \A n \in 7..9 : Open(n, c)
                      /\ Object(c, kind) = new
                      /\ Object(c, "scope") = Object(ctx, "scope")
                      /\ kind # "span" =>
                            Object(c, "span").schema_url = Object(ctx, "span").schema_url
                      /\ kind # "status" => Object(c, "span").status = Object(ctx, "span").status
                      /\ Object(ctx, "span").events # <<>> => Object(c, "span").events # <<>>
                      /\ Object(ctx, "span").links # <<>> => Object(c, "span").links # <<>>
  <2>1. CASE kind = "span"
    <3>1. new = [p EXCEPT ![field] = v] /\ c = WithSpan(ctx, new)
      <4>1. Object(ctx, "span") = p
        BY ObjectIs
      <4>2. With(ctx, "span", new) = WithSpan(ctx, new)
        BY WithIs
      <4> QED BY <1>2, <1>3, <2>1, <4>1, <4>2
    <3>2. /\ DOMAIN new = DOMAIN p /\ new.status = p.status
          /\ new.events = p.events /\ new.links = p.links
      BY <1>1, <3>1 DEF IsSpan, Structural
    <3>3. IsSpan(new)
      BY <1>1, <3>2 DEF IsSpan
    <3> QED BY <1>2, <1>4, <2>1, <3>1, <3>2, <3>3
  <2>2. CASE kind = "status"
    <3>1. PICK q : q = [p EXCEPT !.status = new]
      OBVIOUS
    <3>2. new = [p.status EXCEPT ![field] = v] /\ c = WithSpan(ctx, q)
      <4>1. Object(ctx, "status") = p.status
        BY ObjectIs
      <4>2. With(ctx, "status", new) = WithSpan(ctx, [p EXCEPT !.status = new])
        BY WithIs
      <4> QED BY <1>2, <1>3, <2>2, <3>1, <4>1, <4>2
    <3>3. /\ DOMAIN q = DOMAIN p /\ q.status = new /\ q.schema_url = p.schema_url
          /\ q.events = p.events /\ q.links = p.links
      BY <1>1, <3>1 DEF IsSpan
    <3>4. DOMAIN new = DOMAIN p.status
      BY <3>2
    <3>5. IsSpan(q)
      BY <1>1, <3>3, <3>4 DEF IsSpan
    <3> QED BY <1>2, <1>4, <2>2, <3>2, <3>3, <3>5
  <2>3. CASE kind = "event"
    <3>1. PICK list, q : list = WithLast(p.events, new) /\ q = [p EXCEPT !.events = list]
      OBVIOUS
    <3>2. c = WithSpan(ctx, q)
      BY <1>3, <2>3, <3>1, WithIs
    <3>3. IsList(list) /\ list # <<>> /\ Last(list) = new
      BY <1>1, <2>3, <3>1, LastReplaced DEF IsSpan
    <3>4. /\ DOMAIN q = DOMAIN p /\ q.status = p.status /\ q.schema_url = p.schema_url
          /\ q.events = list /\ q.links = p.links
      BY <1>1, <3>1 DEF IsSpan
    <3>5. IsSpan(q)
      BY <1>1, <3>3, <3>4 DEF IsSpan
    <3> QED BY <1>2, <1>4, <2>3, <3>2, <3>3, <3>4, <3>5
  <2>4. CASE kind = "link"
    <3>1. PICK list, q : list = WithLast(p.links, new) /\ q = [p EXCEPT !.links = list]
      OBVIOUS
    <3>2. c = WithSpan(ctx, q)
      BY <1>3, <2>4, <3>1, WithIs
    <3>3. IsList(list) /\ list # <<>> /\ Last(list) = new
      BY <1>1, <2>4, <3>1, LastReplaced DEF IsSpan
    <3>4. /\ DOMAIN q = DOMAIN p /\ q.status = p.status /\ q.schema_url = p.schema_url
          /\ q.links = list /\ q.events = p.events
      BY <1>1, <3>1 DEF IsSpan
    <3>5. IsSpan(q)
      BY <1>1, <3>3, <3>4 DEF IsSpan
    <3> QED BY <1>2, <1>4, <2>4, <3>2, <3>3, <3>4, <3>5
  <2> QED BY <2>1, <2>2, <2>3, <2>4
<1>5. /\ \A n \in 7..9 : Open(n, c)
      /\ TheSpan(c) = q
      /\ Object(c, "scope") = Object(ctx, "scope")
  BY <1>4, WithSpanIs
<1>6. /\ Object(c, "span") = q /\ Object(c, "status") = q.status
      /\ Object(c, "event") = Last(q.events) /\ Object(c, "link") = Last(q.links)
      /\ Object(ctx, "span") = p
  BY <1>5, ObjectIs
<1> QED BY <1>4, <1>5, <1>6

\* A handler that writes a field of the structure that its map is read into.
LEMMA FieldWritten ==
    ASSUME IInv, Handling(PlainKeys), Handled, NEW v, Set(Top.kind, Top.key, v),
           Top.key = "attributes" => v # NULL, starved \subseteq starved', repeats' = repeats
    PROVE  /\ IsList(stack') /\ \A i \in 1..Len(stack') : IsFrame(stack'[i])
           /\ Levels' /\ Open(Len(stack), trace)' /\ Fresh'
<1> PICK kind, key, field, n : kind = Top.kind /\ key = Top.key /\ field = Field(key)
                               /\ n = Len(stack)
  OBVIOUS
<1>1. Running /\ stack # <<>> /\ key \in PlainKeys /\ key # "" /\ Top.what = "map"
  BY DEF Handling, Reading, Running, PlainKeys, StringKeys, IdKeys, NumberKeys
<1>2. /\ n \in Nat \ {0} /\ Top = stack[n] /\ IsFrame(Top)
      /\ Level(Top) = n
  BY <1>1, TopFacts
<1>3. kind \in DOMAIN Entries /\ key \in Range(Entries[kind])
      /\ kind \in DOMAIN MapLevel /\ n = MapLevel[kind]
  BY <1>1, <1>2, KeyOfFrame DEF Level
<1>4. kind # "context"
  BY <1>1, <1>3, KeyPlace
<1>5. /\ field \notin Structural
      /\ \A k \in {"name", "version", "schema_url", "message"} \cup LinkKeys : field = k => key = k
      /\ field = "attr" => v # NULL
  <2>1. /\ field = key \/ field \in {"attr", "dropped_attr_count"}
        /\ field = "attr" => key = "attributes"
        /\ field \notin Structural
    BY <1>1, FieldIs DEF Structural
  <2> QED BY <2>1 DEF LinkKeys
<1>6. trace' = Rewritten(trace, kind, field, v)
  BY DEF Set, Rewritten
<1>7. /\ IsList(stack') /\ Len(stack') = n
      /\ \A i \in 1..Len(stack') : IsFrame(stack'[i])
      /\ Levels'
      /\ \A i \in 1..9, k \in DOMAIN MapLevel : IsOpen(i, k)' => IsOpen(i, k)
      /\ \A i \in 1..n :
            /\ stack[i].keys \subseteq stack'[i].keys
            /\ \A k \in FreshKeys : Came(stack[i], k) => Came(stack[i], k)'
      /\ \A i \in 1..9 : i = n => key \in stack'[i].keys /\ stack'[i].key = ""
  BY <1>1, HandledSwaps
<1>8. \A k \in FreshKeys, i \in 1..9 : key = k /\ i = n => Came(stack[i], k)'
  BY <1>7 DEF Came, FreshKeys, LinkKeys
<1>9. /\ {"scope", "span", "status", "event", "link"} \subseteq DOMAIN MapLevel
       /\ n \in 1..9
  BY <1>3, <1>4 DEF MapLevel
<1>10. /\ {"name", "version", "schema_url", "status", "message"} \subseteq FreshKeys
       /\ LinkKeys \subseteq FreshKeys
  BY DEF FreshKeys
<1>11. \A i \in 1..9, k \in DOMAIN MapLevel : IsOpen(i, k)' =>
          /\ IsOpen(i, k) /\ n >= i /\ stack[i].keys \subseteq stack'[i].keys
          /\ \A x \in FreshKeys : Came(stack[i], x) => Came(stack[i], x)'
  <2> SUFFICES ASSUME NEW i \in 1..9, NEW k \in DOMAIN MapLevel, IsOpen(i, k)'
               PROVE  /\ IsOpen(i, k) /\ n >= i /\ stack[i].keys \subseteq stack'[i].keys
                      /\ \A x \in FreshKeys : Came(stack[i], x) => Came(stack[i], x)'
    OBVIOUS
  <2>1. IsOpen(i, k)
    BY <1>7
  <2>2. n >= i
    BY <2>1 DEF IsOpen
  <2>3. i \in 1..n
    BY <1>2, <2>2
  <2> QED BY <1>7, <2>1, <2>2, <2>3
<1>12. Open(n, trace)
  BY <1>1 DEF IInv
<1>13. IsOpen(n, kind)
  <2>1. Len(stack) >= n
    BY <1>2
  <2>2. stack[n].what = "map" /\ stack[n].kind = kind
    BY <1>1, <1>2
  <2> QED BY <2>1, <2>2 DEF IsOpen
<1>14. kind = "event" => TheSpan(trace).events # <<>>
  <2>1. kind = "event" => IsOpen(9, "event")
    BY <1>3, <1>13 DEF MapLevel
  <2>2. kind = "event" => Object(trace, "span").events # <<>>
    BY <1>1, <2>1 DEF IInv, Fresh, EventIsThere
  <2> QED BY <2>2, ObjectIs
<1>15. kind = "link" => TheSpan(trace).links # <<>>
  <2>1. kind = "link" => IsOpen(9, "link")
    BY <1>3, <1>13 DEF MapLevel
  <2>2. kind = "link" => Object(trace, "span").links # <<>>
    BY <1>1, <2>1 DEF IInv, Fresh, LinkIsFresh
  <2> QED BY <2>2, ObjectIs
<1>16. kind = "scope" => Open(6, trace') /\ Object(trace', "scope")
                                              = [Object(trace, "scope") EXCEPT ![field] = v]
  <2> SUFFICES ASSUME kind = "scope"
               PROVE  Open(6, trace') /\ Object(trace', "scope")
                                           = [Object(trace, "scope") EXCEPT ![field] = v]
    OBVIOUS
  <2>1. Open(5, trace)
    BY <1>3, <1>12 DEF MapLevel, Open
  <2>2. PICK new : new = [Object(trace, "scope") EXCEPT ![field] = v]
    OBVIOUS
  <2>3. trace' = With(trace, "scope", new)
    BY <1>6, <2>2 DEF Rewritten
  <2> QED BY <2>1, <2>2, <2>3, WithScopeIs
<1>17. kind \in {"span", "status", "event", "link"} =>
          /\ Open(7, trace)
          /\ \A i \in 7..9 : Open(i, trace')
          /\ Object(trace', kind) = [Object(trace, kind) EXCEPT ![field] = v]
          /\ Object(trace', "scope") = Object(trace, "scope")
          /\ kind # "span" => Object(trace', "span").schema_url = Object(trace, "span").schema_url
          /\ kind # "status" => Object(trace', "span").status = Object(trace, "span").status
          /\ Object(trace, "span").events # <<>> => Object(trace', "span").events # <<>>
          /\ Object(trace, "span").links # <<>> => Object(trace', "span").links # <<>>
  <2> SUFFICES ASSUME kind \in {"span", "status", "event", "link"}
               PROVE  /\ Open(7, trace)
                      /\ \A i \in 7..9 : Open(i, trace')
                      /\ Object(trace', kind) = [Object(trace, kind) EXCEPT ![field] = v]
                      /\ Object(trace', "scope") = Object(trace, "scope")
                      /\ kind # "span" =>
                            Object(trace', "span").schema_url = Object(trace, "span").schema_url
                      /\ kind # "status" =>
                            Object(trace', "span").status = Object(trace, "span").status
                      /\ Object(trace, "span").events # <<>> => Object(trace', "span").events # <<>>
                      /\ Object(trace, "span").links # <<>> => Object(trace', "span").links # <<>>
    OBVIOUS
  <2>1. n \in 7..9
    BY <1>3 DEF MapLevel
  <2>2. Open(7, trace)
    BY <1>12, <2>1 DEF Open
  <2>3. PICK c : c = trace'
    OBVIOUS
  <2>4. c = Rewritten(trace, kind, field, v)
    BY <1>6, <2>3
  <2> QED BY <1>5, <1>14, <1>15, <2>2, <2>3, <2>4, WrittenBelow
<1>18. Open(n, trace')
  <2>1. CASE kind = "resource_span"
    BY <1>3, <1>5, <1>6, <1>12, <2>1, WrittenAbove DEF MapLevel
  <2>2. CASE kind = "resource"
    BY <1>3, <1>5, <1>6, <1>12, <2>2, WrittenAbove DEF MapLevel
  <2>3. CASE kind = "scope_span"
    BY <1>3, <1>5, <1>6, <1>12, <2>3, WrittenAbove DEF MapLevel
  <2>4. CASE kind = "scope"
    BY <1>3, <1>16, <2>4 DEF MapLevel
  <2>5. CASE kind \in {"span", "status", "event", "link"}
    BY <1>3, <1>17, <2>5 DEF MapLevel
  <2> QED BY <1>3, <1>4, <2>1, <2>2, <2>3, <2>4, <2>5 DEF MapLevel
<1>19. Open(Len(stack), trace)'
  BY <1>7, <1>18
<1>20. ScopeIsFresh'
  <2> SUFFICES ASSUME IsOpen(6, "scope")' PROVE ScopeIsFresh'
    BY DEF ScopeIsFresh
  <2>1. IsOpen(6, "scope") /\ n >= 6
    BY <1>9, <1>11
  <2>2. PICK old, new : old = Object(trace, "scope") /\ new = Object(trace', "scope")
    OBVIOUS
  <2>3. /\ {"name", "version"} \subseteq DOMAIN old
        /\ \A k \in {"name", "version"} : old[k] # NULL => Came(stack[6], k)
    BY <1>1, <2>1, <2>2 DEF IInv, Fresh, ScopeIsFresh
  <2>4. \A k \in {"name", "version"} : Came(stack[6], k) => Came(stack[6], k)'
    BY <1>9, <1>10, <1>11
  <2>5. CASE kind = "scope"
    <3>1. new = [old EXCEPT ![field] = v] /\ n = 6
      BY <1>3, <1>16, <2>2, <2>5 DEF MapLevel
    <3>2. \A k \in {"name", "version"} : new[k] = old[k] \/ key = k
      BY <1>5, <2>3, <3>1
    <3>3. \A k \in {"name", "version"} : key = k => Came(stack[6], k)'
      BY <1>8, <3>1 DEF FreshKeys
    <3>4. DOMAIN new = DOMAIN old
      BY <3>1
    <3>5. \A k \in {"name", "version"} : new[k] # NULL => Came(stack[6], k)'
      BY <2>3, <2>4, <3>2, <3>3
    <3> QED BY <2>2, <2>3, <3>4, <3>5 DEF ScopeIsFresh
  <2>6. CASE kind # "scope"
    <3>1. kind \in {"span", "status", "event", "link"}
      BY <1>3, <2>1, <2>6 DEF MapLevel
    <3>2. new = old
      BY <1>17, <2>2, <3>1
    <3> QED BY <2>2, <2>3, <2>4, <3>2 DEF ScopeIsFresh
  <2> QED BY <2>5, <2>6
<1>21. n >= 7 => kind \in {"span", "status", "event", "link"}
  BY <1>3 DEF MapLevel
<1>22. SpanIsFresh'
  <2> SUFFICES ASSUME IsOpen(7, "span")' PROVE SpanIsFresh'
    BY DEF SpanIsFresh
  <2>1. IsOpen(7, "span") /\ n >= 7
    BY <1>9, <1>11
  <2>2. PICK old, new : old = Object(trace, "span") /\ new = Object(trace', "span")
    OBVIOUS
  <2>3. /\ old.schema_url # NULL => Came(stack[7], "schema_url")
        /\ old.status.message # NULL => Came(stack[7], "status")
    BY <1>1, <2>1, <2>2 DEF IInv, Fresh, SpanIsFresh
  <2>4. \A k \in {"schema_url", "status"} : Came(stack[7], k) => Came(stack[7], k)'
    BY <1>9, <1>10, <1>11
  <2>5. new.schema_url = old.schema_url \/ (kind = "span" /\ key = "schema_url")
    <3>1. CASE kind = "span"
      <4>1. new = [old EXCEPT ![field] = v]
        BY <1>17, <2>2, <3>1
      <4>2. IsSpan(old)
        BY <1>17, <2>2, <3>1, SpanOfIs, ObjectIs
      <4> QED BY <1>5, <3>1, <4>1, <4>2 DEF IsSpan
    <3>2. CASE kind # "span"
      BY <1>17, <1>21, <2>1, <2>2, <3>2
    <3> QED BY <3>1, <3>2
  <2>6. kind = "span" /\ key = "schema_url" => Came(stack[7], "schema_url")'
    BY <1>3, <1>8 DEF FreshKeys, MapLevel
  <2>7. new.status = old.status \/ kind = "status"
    BY <1>17, <1>21, <2>1, <2>2
  <2>8. kind = "status" => Came(stack[7], "status")
    <3> SUFFICES ASSUME kind = "status" PROVE Came(stack[7], "status")
      OBVIOUS
    <3>1. n = 8 /\ IsOpen(8, "status")
      BY <1>3, <1>13 DEF MapLevel
    <3>2. "status" \in stack[7].keys
      BY <1>1, <3>1 DEF IInv, Fresh, StatusIsFresh
    <3>3. stack[7].key = ""
      <4>1. \A i \in 1..n : i # n => stack[i].key = ""
        BY <1>1 DEF IInv, Levels
      <4>2. 7 \in 1..n /\ 7 # n
        BY <3>1
      <4> QED BY <4>1, <4>2
    <3> QED BY <3>2, <3>3 DEF Came
  <2> QED BY <2>2, <2>3, <2>4, <2>5, <2>6, <2>7, <2>8 DEF SpanIsFresh
<1>23. StatusIsFresh'
  <2> SUFFICES ASSUME IsOpen(8, "status")' PROVE StatusIsFresh'
    BY DEF StatusIsFresh
  <2>1. IsOpen(8, "status") /\ n >= 8
    BY <1>9, <1>11
  <2>2. PICK old, new : old = Object(trace, "status") /\ new = Object(trace', "status")
    OBVIOUS
  <2>3. /\ "status" \in stack[7].keys
        /\ old.message # NULL => Came(stack[8], "message") \/ <<"span", "status">> \in repeats
    BY <1>1, <2>1, <2>2 DEF IInv, Fresh, StatusIsFresh
  <2>4. /\ Came(stack[8], "message") => Came(stack[8], "message")'
        /\ stack[7].keys \subseteq stack'[7].keys
    <3>1. 7 \in 1..n
      BY <1>2, <2>1
    <3>2. Came(stack[8], "message") => Came(stack[8], "message")'
      BY <1>9, <1>10, <1>11
    <3> QED BY <1>7, <3>1, <3>2
  <2>5. new.message = old.message \/ (kind = "status" /\ key = "message")
    <3>1. CASE kind = "status"
      <4>1. new = [old EXCEPT ![field] = v]
        BY <1>17, <2>2, <3>1
      <4>2. "message" \in DOMAIN old
        BY <1>17, <2>2, <3>1, SpanOfIs, ObjectIs DEF IsSpan
      <4> QED BY <1>5, <3>1, <4>1, <4>2
    <3>2. CASE kind # "status"
      <4>1. Object(trace', "span").status = Object(trace, "span").status
        BY <1>17, <1>21, <2>1, <3>2
      <4>2. old = TheSpan(trace).status /\ new = TheSpan(trace').status
        BY <2>2, ObjectIs
      <4>3. Object(trace, "span") = TheSpan(trace) /\ Object(trace', "span") = TheSpan(trace')
        BY ObjectIs
      <4> QED BY <4>1, <4>2, <4>3
    <3> QED BY <3>1, <3>2
  <2>6. kind = "status" /\ key = "message" => Came(stack[8], "message")'
    BY <1>3, <1>8 DEF FreshKeys, MapLevel
  <2> QED BY <2>2, <2>3, <2>4, <2>5, <2>6 DEF StatusIsFresh
<1>24. n = 9 => kind \in {"event", "link"}
  BY <1>3 DEF MapLevel
<1>25. EventIsThere'
  <2> SUFFICES ASSUME IsOpen(9, "event")' PROVE EventIsThere'
    BY DEF EventIsThere
  <2>1. IsOpen(9, "event") /\ n = 9
    BY <1>9, <1>11
  <2>2. kind = "event"
    BY <1>2, <2>1 DEF IsOpen
  <2>3. PICK old, new : old = Object(trace, "event") /\ new = Object(trace', "event")
    OBVIOUS
  <2>4. /\ Object(trace, "span").events # <<>>
        /\ "attr" \in DOMAIN old
        /\ old.attr = NULL => "event attributes" \in starved
    BY <1>1, <2>1, <2>3 DEF IInv, Fresh, EventIsThere
  <2>5. new = [old EXCEPT ![field] = v] /\ Object(trace', "span").events # <<>>
    BY <1>17, <2>2, <2>3, <2>4
  <2>6. "attr" \in DOMAIN new /\ (new.attr = old.attr \/ new.attr # NULL)
    BY <1>5, <2>4, <2>5
  <2> QED BY <2>3, <2>4, <2>5, <2>6 DEF EventIsThere
<1>26. LinkIsFresh'
  <2> SUFFICES ASSUME IsOpen(9, "link")' PROVE LinkIsFresh'
    BY DEF LinkIsFresh
  <2>1. IsOpen(9, "link") /\ n = 9
    BY <1>9, <1>11
  <2>2. kind = "link"
    BY <1>2, <2>1 DEF IsOpen
  <2>3. PICK old, new : old = Object(trace, "link") /\ new = Object(trace', "link")
    OBVIOUS
  <2>4. /\ Object(trace, "span").links # <<>>
        /\ LinkKeys \subseteq DOMAIN old
        /\ \A k \in LinkKeys : old[k] # NULL => Came(stack[9], k)
    BY <1>1, <2>1, <2>3 DEF IInv, Fresh, LinkIsFresh
  <2>5. new = [old EXCEPT ![field] = v] /\ Object(trace', "span").links # <<>>
    BY <1>17, <2>2, <2>3, <2>4
  <2>6. DOMAIN new = DOMAIN old /\ \A k \in LinkKeys : new[k] = old[k] \/ key = k
    BY <1>5, <2>4, <2>5
  <2>7. \A k \in LinkKeys : /\ Came(stack[9], k) => Came(stack[9], k)'
                            /\ key = k => Came(stack[9], k)'
    BY <1>8, <1>9, <1>10, <1>11, <2>1
  <2>8. \A k \in LinkKeys : new[k] # NULL => Came(stack[9], k)'
    BY <2>4, <2>6, <2>7
  <2> QED BY <2>3, <2>4, <2>5, <2>6, <2>8 DEF LinkIsFresh
<1> QED BY <1>7, <1>19, <1>20, <1>22, <1>23, <1>25, <1>26 DEF Fresh

-----------------------------------------------------------------------------
(* Into a map or an array.                                                 *)

LEMMA Intervals ==
    ASSUME NEW n \in Nat \ {0}
    PROVE  /\ \A i \in 1..(n + 1) : i \in 1..n \/ i = n + 1
           /\ \A i \in 1..n : i \in 1..(n - 1) \/ i = n
           /\ \A i \in 1..9 : i <= n => i \in 1..n
           /\ \A i \in 1..n : i # n + 1
OBVIOUS

LEMMA Pushed ==
    ASSUME IInv, Running, stack # <<>>, NEW f, NEW g, IsFrame(f), IsFrame(g),
           f.what = Top.what, f.kind = Top.kind, f.keys = Top.keys, f.key = "",
           Level(g) = Len(stack) + 1, stack' = Push(f, g), repeats' = repeats
    PROVE  /\ IsList(stack') /\ Len(stack') = Len(stack) + 1
           /\ \A i \in 1..Len(stack') : IsFrame(stack'[i])
           /\ Levels'
           /\ stack'[Len(stack) + 1] = g
           /\ \A i \in 1..9, k \in DOMAIN MapLevel :
                 i <= Len(stack) /\ IsOpen(i, k)' => IsOpen(i, k)
           /\ \A i \in 1..Len(stack) :
                 /\ stack'[i].keys = stack[i].keys
                 /\ \A key \in FreshKeys : Came(stack[i], key) => Came(stack[i], key)'
<1>0. PICK s, n : s = Push(f, g) /\ n = Len(stack)
  OBVIOUS
<1>1. /\ IsList(s) /\ s # <<>> /\ Len(s) = n + 1 /\ n \in Nat \ {0}
      /\ \A i \in 1..(n - 1) : s[i] = stack[i]
      /\ s[n] = f /\ s[n + 1] = g /\ Top = stack[n]
  <2>1. IsList(stack)
    BY DEF IInv, Typed
  <2>2. /\ IsList(Push(f, g)) /\ Push(f, g) # <<>>
        /\ Len(Push(f, g)) = Len(stack) + 1 /\ Len(stack) \in Nat \ {0}
        /\ \A i \in 1..(Len(stack) - 1) : Push(f, g)[i] = stack[i]
        /\ Push(f, g)[Len(stack)] = f /\ Push(f, g)[Len(stack) + 1] = g
        /\ Top = stack[Len(stack)]
    BY <2>1, PushFacts
  <2> QED BY <1>0, <2>2
<1>2. /\ \A i \in 1..(n + 1) : i \in 1..n \/ i = n + 1
      /\ \A i \in 1..n : i \in 1..(n - 1) \/ i = n
      /\ \A i \in 1..9 : i <= n => i \in 1..n
      /\ \A i \in 1..n : i # n + 1
  BY <1>1, Intervals
<1>3. \A i \in 1..n : i \in 1..(n - 1) \/ i = n
  BY <1>2
<1>4. \A i \in 1..n : /\ s[i].what = stack[i].what /\ s[i].kind = stack[i].kind
                      /\ s[i].keys = stack[i].keys
                      /\ s[i].key = stack[i].key \/ s[i].key = ""
  BY <1>1, <1>3
<1>5. \A i \in 1..n : IsFrame(stack[i]) /\ Level(stack[i]) = i
                      /\ (i # n => stack[i].key = "")
  BY <1>0 DEF IInv, Typed, Levels
<1>6. \A i \in 1..(n + 1) : IsFrame(s[i])
  <2>1. \A i \in 1..n : IsFrame(s[i])
    BY <1>1, <1>3, <1>5
  <2> QED BY <1>1, <1>2, <2>1
<1>7. \A i \in 1..(n + 1) : Level(s[i]) = i /\ (i # n + 1 => s[i].key = "")
  <2>1. \A i \in 1..n : Level(s[i]) = i
    BY <1>4, <1>5 DEF Level
  <2>2. \A i \in 1..n : s[i].key = ""
    BY <1>1, <1>3, <1>5
  <2>3. Level(s[n + 1]) = n + 1
    BY <1>0, <1>1
  <2> QED BY <1>2, <2>1, <2>2, <2>3
<1>8. \A i \in 1..9, k \in DOMAIN MapLevel :
         i <= n /\ s[i].what = "map" /\ s[i].kind = k => IsOpen(i, k)
  <2> TAKE i \in 1..9, k \in DOMAIN MapLevel
  <2> SUFFICES ASSUME i <= n, s[i].what = "map", s[i].kind = k PROVE IsOpen(i, k)
    OBVIOUS
  <2>1. i \in 1..n
    BY <1>2
  <2>2. Len(stack) >= i /\ stack[i].what = "map" /\ stack[i].kind = k
    BY <1>0, <1>1, <1>4, <2>1
  <2> QED BY <2>2 DEF IsOpen
<1>9. \A i \in 1..n : \A key \in FreshKeys :
         Came(stack[i], key) => key \in s[i].keys /\ (s[i].key = key => <<s[i].kind, key>> \in repeats)
  <2>1. "" \notin FreshKeys
    BY DEF FreshKeys, LinkKeys
  <2> QED BY <1>4, <2>1 DEF Came
<1> QED BY <1>0, <1>1, <1>4, <1>6, <1>7, <1>8, <1>9 DEF Levels, IsOpen, Came

\* The maps that stay open stay as fresh as they were.
LEMMA BelowKept ==
    ASSUME IInv, Running, NEW n \in Nat, n <= Len(stack), repeats' = repeats,
           \A i \in 1..9, k \in DOMAIN MapLevel : i <= n /\ IsOpen(i, k)' => IsOpen(i, k),
           \A i \in 1..n :
                 /\ stack'[i].keys = stack[i].keys
                 /\ \A key \in FreshKeys : Came(stack[i], key) => Came(stack[i], key)'
    PROVE  /\ n >= 6 /\ Object(trace', "scope") = Object(trace, "scope") => ScopeIsFresh'
           /\ /\ n >= 7
              /\ Object(trace', "span").schema_url = Object(trace, "span").schema_url
              /\ Object(trace', "span").status = Object(trace, "span").status
              => SpanIsFresh'
<1>1. {"scope", "span"} \subseteq DOMAIN MapLevel
      /\ {"name", "version", "schema_url", "status"} \subseteq FreshKeys
  BY DEF MapLevel, FreshKeys
<1>2. ASSUME n >= 6, Object(trace', "scope") = Object(trace, "scope") PROVE ScopeIsFresh'
  <2> SUFFICES ASSUME IsOpen(6, "scope")' PROVE ScopeIsFresh'
    BY DEF ScopeIsFresh
  <2>1. IsOpen(6, "scope")
    BY <1>1, <1>2
  <2>2. ScopeIsFresh
    BY DEF IInv, Fresh
  <2>3. \A k \in {"name", "version"} : Came(stack[6], k) => Came(stack[6], k)'
    BY <1>1, <1>2
  <2> QED BY <1>2, <2>1, <2>2, <2>3 DEF ScopeIsFresh
<1>3. ASSUME n >= 7, Object(trace', "span").schema_url = Object(trace, "span").schema_url,
             Object(trace', "span").status = Object(trace, "span").status
      PROVE  SpanIsFresh'
  <2> SUFFICES ASSUME IsOpen(7, "span")' PROVE SpanIsFresh'
    BY DEF SpanIsFresh
  <2>1. IsOpen(7, "span")
    BY <1>1, <1>3
  <2>2. SpanIsFresh
    BY DEF IInv, Fresh
  <2>3. \A k \in {"schema_url", "status"} : Came(stack[7], k) => Came(stack[7], k)'
    BY <1>1, <1>3
  <2> QED BY <1>3, <2>1, <2>2, <2>3 DEF SpanIsFresh
<1> QED BY <1>2, <1>3

LEMMA NewFrames ==
    /\ \A kind \in DOMAIN MapLevel : \A left : 
          IsFrame([what |-> "map", kind |-> kind, left |-> left, key |-> "", keys |-> {}])
    /\ \A kind \in DOMAIN ArrayLevel : \A left : 
          IsFrame([what |-> "array", kind |-> kind, left |-> left, key |-> "", keys |-> {}])
BY DEF IsFrame

LEMMA HandledFrameIs ==
    ASSUME IsFrame(Top)
    PROVE  /\ IsFrame(HandledFrame) /\ HandledFrame.what = Top.what
           /\ HandledFrame.kind = Top.kind /\ HandledFrame.keys = Top.keys
           /\ HandledFrame.key = ""
<1>1. PICK f, g : f = Top /\ g = HandledFrame
  OBVIOUS
<1>2. g = [f EXCEPT !.left = f.left - 1, !.key = ""]
  BY <1>1 DEF HandledFrame
<1>3. f = [what |-> f.what, kind |-> f.kind, left |-> f.left, key |-> f.key, keys |-> f.keys]
  BY <1>1 DEF IsFrame
<1>4. /\ g = [what |-> g.what, kind |-> g.kind, left |-> g.left, key |-> g.key, keys |-> g.keys]
      /\ g.what = f.what /\ g.kind = f.kind /\ g.keys = f.keys /\ g.key = ""
  BY <1>2, <1>3
<1> QED BY <1>1, <1>4 DEF IsFrame

LEMMA EnterKeeps ==
    ASSUME IInv, EnterMap \/ EnterArray
    PROVE  IInv'
<1>0. PICK kind, key, n : kind = Top.kind /\ key = Top.key /\ n = Len(stack)
  OBVIOUS
<1>1. /\ Running /\ stack # <<>> /\ Top.what = "map" /\ key # ""
      /\ key \in {"resource", "status"} \cup ArrayKeys
  BY <1>0 DEF EnterMap, EnterArray, Handling, Reading, Running, ArrayKeys, Element
<1>2. /\ n \in Nat \ {0} /\ Top = stack[n] /\ IsFrame(Top)
      /\ Level(Top) = n
  BY <1>0, <1>1, TopFacts
<1>3. /\ kind \in DOMAIN Entries /\ key \in Range(Entries[kind]) /\ key \in Top.keys
      /\ kind \in DOMAIN MapLevel /\ n = MapLevel[kind]
  BY <1>0, <1>1, <1>2, KeyOfFrame DEF Level
<1>4. PICK g : /\ stack' = Push(HandledFrame, g)
               /\ IsFrame(g) /\ Level(g) = n + 1
               /\ \/ g.what = "array" /\ n \in {1, 3, 5, 7}
                  \/ g.what = "map" /\ g.kind = "resource" /\ n = 3
                  \/ g.what = "map" /\ g.kind = "status" /\ key = "status" /\ n = 7
  <2>1. CASE EnterArray
    <3>1. key \in ArrayKeys
      BY <1>0, <2>1 DEF EnterArray, Handling
    <3>2. Element[key] \in DOMAIN ArrayLevel /\ ArrayLevel[Element[key]] = n + 1
      BY <1>3, <3>1, ArrayPlace
    <3>3. n \in {1, 3, 5, 7}
      BY <1>2, <3>2 DEF ArrayLevel
    <3>4. PICK g : g = Frame("array", Element[key])
      OBVIOUS
    <3>5. IsFrame(g) /\ g.what = "array" /\ g.kind = Element[key]
      BY <3>2, <3>4, NewFrames DEF Frame
    <3>6. Level(g) = n + 1
      BY <3>2, <3>5 DEF Level
    <3>7. stack' = Push(HandledFrame, g)
      BY <1>0, <2>1, <3>4 DEF EnterArray, Push
    <3> QED BY <3>3, <3>5, <3>6, <3>7
  <2>2. CASE EnterMap
    <3>1. key \in {"resource", "status"}
      BY <1>0, <2>2 DEF EnterMap, Handling
    <3>2. \/ key = "resource" /\ n = 3
          \/ key = "status" /\ n = 7
      <4>1. /\ key = "resource" => kind = "resource_span"
            /\ key = "status" => kind = "span"
        BY <1>3, KeyPlace
      <4> QED BY <1>3, <3>1, <4>1 DEF MapLevel
    <3>3. key \in DOMAIN MapLevel /\ MapLevel[key] = n + 1
      BY <3>2 DEF MapLevel
    <3>4. PICK g : g = Frame("map", key)
      OBVIOUS
    <3>5. IsFrame(g) /\ g.what = "map" /\ g.kind = key
      BY <3>3, <3>4, NewFrames DEF Frame
    <3>6. Level(g) = n + 1
      BY <3>3, <3>5 DEF Level
    <3>7. stack' = Push(HandledFrame, g)
      BY <1>0, <2>2, <3>4 DEF EnterMap, Push
    <3> QED BY <3>2, <3>5, <3>6, <3>7
  <2> QED BY <2>1, <2>2
<1>5. UNCHANGED <<buffer, offset, pos, free, err, call, trace, result, starved, lost, repeats,
                  answers>>
  BY DEF EnterMap, EnterArray, reader, history
<1>6. /\ IsList(stack') /\ Len(stack') = n + 1
      /\ \A i \in 1..Len(stack') : IsFrame(stack'[i])
      /\ Levels'
      /\ stack'[n + 1] = g
      /\ \A i \in 1..9, k \in DOMAIN MapLevel :
            i <= n /\ IsOpen(i, k)' => IsOpen(i, k)
      /\ \A i \in 1..n :
            /\ stack'[i].keys = stack[i].keys
            /\ \A x \in FreshKeys : Came(stack[i], x) => Came(stack[i], x)'
  BY <1>0, <1>1, <1>2, <1>4, <1>5, HandledFrameIs, Pushed
<1>7. Open(Len(stack), trace)'
  <2>1. Open(n, trace) /\ n \in {1, 3, 5, 7}
    <3>1. Open(Len(stack), trace)
      BY <1>1 DEF IInv
    <3> QED BY <1>0, <1>4, <3>1
  <2>2. Open(n + 1, trace)
    BY <2>1 DEF Open
  <2> QED BY <1>5, <1>6, <2>2
<1>8. /\ n >= 6 => ScopeIsFresh'
      /\ n >= 7 => SpanIsFresh'
  <2>1. n \in Nat /\ n <= Len(stack)
    BY <1>0, <1>2
  <2>2. Object(trace', "scope") = Object(trace, "scope")
        /\ Object(trace', "span").schema_url = Object(trace, "span").schema_url
        /\ Object(trace', "span").status = Object(trace, "span").status
    BY <1>5
  <2>3. repeats' = repeats
    BY <1>5
  <2> QED BY <1>1, <1>6, <2>1, <2>2, <2>3, BelowKept
<1>9. n \in {1, 3, 5, 7} /\ n \in Nat /\ \A i \in 1..9 : \A k : IsOpen(i, k)' => n + 1 >= i
  BY <1>4, <1>6 DEF IsOpen
<1>10. ScopeIsFresh'
  <2> SUFFICES ASSUME IsOpen(6, "scope")', n < 6 PROVE FALSE
    BY <1>8, <1>9 DEF ScopeIsFresh
  <2>1. n = 5
    BY <1>9
  <2>2. stack'[6] = g /\ g.what = "array"
    BY <1>4, <1>6, <2>1
  <2> QED BY <2>2 DEF IsOpen
<1>11. SpanIsFresh'
  <2> SUFFICES ASSUME IsOpen(7, "span")', n < 7 PROVE FALSE
    BY <1>8, <1>9 DEF SpanIsFresh
  <2>1. n + 1 >= 7
    BY <1>9
  <2> QED BY <1>9, <2>1
<1>12. StatusIsFresh'
  <2> SUFFICES ASSUME IsOpen(8, "status")' PROVE StatusIsFresh'
    BY DEF StatusIsFresh
  <2>1. n = 7
    BY <1>9
  <2>2. stack'[8] = g /\ g.what = "map"
    BY <1>6, <2>1 DEF IsOpen
  <2>3. key = "status" /\ kind = "span"
    BY <1>3, <1>4, <2>1, <2>2, KeyPlace
  <2>4. "status" \in stack'[7].keys
    <3>1. stack'[7].keys = stack[7].keys
      BY <1>6, <2>1
    <3> QED BY <1>0, <1>2, <1>3, <2>1, <2>3, <3>1
  <2>5. Object(trace, "span").status.message # NULL => Came(stack[7], "status")
    <3>1. Len(stack) = 7 /\ Top = stack[7]
      BY <1>0, <1>2, <2>1
    <3>2. Top.what = "map" /\ Top.kind = "span"
      BY <1>0, <1>1, <2>3
    <3>3. IsOpen(7, "span")
      BY <3>1, <3>2 DEF IsOpen
    <3> QED BY <1>1, <3>3 DEF IInv, Fresh, SpanIsFresh
  <2>6. Came(stack[7], "status") => <<"span", "status">> \in repeats
    <3>1. stack[7].kind = "span" /\ stack[7].key = "status"
      BY <1>0, <1>2, <2>1, <2>3
    <3> QED BY <3>1 DEF Came
  <2>7. Object(trace, "status") = Object(trace, "span").status
    <3>1. Object(trace, "status") = TheSpan(trace).status /\ Object(trace, "span") = TheSpan(trace)
      BY ObjectIs
    <3> QED BY <3>1
  <2>8. trace' = trace /\ repeats' = repeats
    BY <1>5
  <2> QED BY <2>4, <2>5, <2>6, <2>7, <2>8 DEF StatusIsFresh
<1>13. EventIsThere' /\ LinkIsFresh'
  <2>1. n + 1 < 9
    BY <1>9
  <2>2. ~IsOpen(9, "event")' /\ ~IsOpen(9, "link")'
    BY <1>9, <2>1
  <2>3. EventIsThere'
    BY <2>2 DEF EventIsThere
  <2>4. LinkIsFresh'
    BY <2>2 DEF LinkIsFresh
  <2> QED BY <2>3, <2>4
<1>14. Fresh'
  BY <1>10, <1>11, <1>12, <1>13 DEF Fresh
<1>15. err' = FALSE
  BY <1>1, <1>5 DEF IInv, Course, Running
<1>16. LeaksAreRepeats'
  BY <1>5 DEF IInv, LeaksAreRepeats
<1> QED BY <1>0, <1>1, <1>5, <1>6, <1>7, <1>14, <1>15, <1>16, GoesOn

-----------------------------------------------------------------------------
(* What is created on the way in.                                          *)

LEMMA EmptyIsList == IsList(<<>>)
<1>1. <<>> \in Seq({})
  BY EmptySeq
<1> QED BY <1>1 DEF IsList

LEMMA NewIs ==
    /\ {"resource", "scope_spans"} \subseteq DOMAIN New.resource_span
    /\ New.resource_span.scope_spans = <<>>
    /\ {"instrumentation_scope", "spans"} \subseteq DOMAIN New.scope_span
    /\ New.scope_span.spans = <<>>
    /\ {"name", "version"} \subseteq DOMAIN New.scope
    /\ New.scope.name = NULL /\ New.scope.version = NULL
    /\ {"schema_url", "status", "events", "links"} \subseteq DOMAIN New.span
    /\ New.span.events = <<>> /\ New.span.links = <<>> /\ New.span.schema_url = NULL
    /\ "message" \in DOMAIN New.span.status /\ New.span.status.message = NULL
    /\ "attr" \in DOMAIN New.event /\ New.event.attr = <<>>
    /\ LinkKeys \subseteq DOMAIN New.link
    /\ \A key \in LinkKeys : New.link[key] = NULL
<1>1. {"resource", "scope_spans"} \subseteq DOMAIN New.resource_span
      /\ New.resource_span.scope_spans = <<>>
  BY DEF New
<1>2. {"instrumentation_scope", "spans"} \subseteq DOMAIN New.scope_span
      /\ New.scope_span.spans = <<>>
  BY DEF New
<1>3. {"name", "version"} \subseteq DOMAIN New.scope
      /\ New.scope.name = NULL /\ New.scope.version = NULL
  BY DEF New
<1>4. {"schema_url", "status", "events", "links"} \subseteq DOMAIN New.span
  BY DEF New
<1>5. New.span.events = <<>> /\ New.span.links = <<>> /\ New.span.schema_url = NULL
  BY DEF New
<1>6. "message" \in DOMAIN New.span.status /\ New.span.status.message = NULL
  BY DEF New
<1>7. "attr" \in DOMAIN New.event /\ New.event.attr = <<>>
  BY DEF New, NewAttributes
<1>8. LinkKeys \subseteq DOMAIN New.link /\ \A key \in LinkKeys : New.link[key] = NULL
  BY DEF New, LinkKeys
<1> QED BY <1>1, <1>2, <1>3, <1>4, <1>5, <1>6, <1>7, <1>8

LEMMA EmptyIsNotNull == <<>> # NULL
<1>1. <<>> \in AttributeSet
  BY EmptySeq DEF AttributeSet
<1>2. \A a \in AttributeSet : a # NULL
  BY NullIsNoData
<1> QED BY <1>1, <1>2

LEMMA AddIs ==
    ASSUME NEW ctx, NEW new
    PROVE  /\ WithList(ctx, "resource_span", Append(List(ctx, "resource_span"), new))
                = Append(ctx, new)
           /\ WithList(ctx, "scope_span", Append(List(ctx, "scope_span"), new))
                = WithLast(ctx, [Last(ctx) EXCEPT
                                   !.scope_spans = Append(Last(ctx).scope_spans, new)])
           /\ WithList(ctx, "span", Append(List(ctx, "span"), new))
                = WithScopeSpan(ctx, [Last(Last(ctx).scope_spans) EXCEPT
                                        !.spans = Append(Last(Last(ctx).scope_spans).spans, new)])
           /\ WithList(ctx, "event", Append(List(ctx, "event"), new))
                = WithSpan(ctx, [TheSpan(ctx) EXCEPT !.events = Append(TheSpan(ctx).events, new)])
           /\ WithList(ctx, "link", Append(List(ctx, "link"), new))
                = WithSpan(ctx, [TheSpan(ctx) EXCEPT !.links = Append(TheSpan(ctx).links, new)])
<1>1. WithList(ctx, "resource_span", Append(List(ctx, "resource_span"), new)) = Append(ctx, new)
  BY DEF WithList, List
<1>2. ASSUME NEW kind, NEW holder, NEW name, kind # "resource_span",
             Container[kind] = <<holder, name>>
      PROVE  WithList(ctx, kind, Append(List(ctx, kind), new))
               = With(ctx, holder, [Object(ctx, holder) EXCEPT
                                      ![name] = Append(Object(ctx, holder)[name], new)])
  <2>1. Container[kind][1] = holder /\ Container[kind][2] = name
    BY <1>2
  <2> QED BY <1>2, <2>1, Zenon DEF WithList, List
<1>3. /\ Container["scope_span"] = <<"resource_span", "scope_spans">>
      /\ Container["span"] = <<"scope_span", "spans">>
      /\ Container["event"] = <<"span", "events">>
      /\ Container["link"] = <<"span", "links">>
  BY DEF Container
<1>4. WithList(ctx, "scope_span", Append(List(ctx, "scope_span"), new))
        = With(ctx, "resource_span", [Object(ctx, "resource_span") EXCEPT
                 !["scope_spans"] = Append(Object(ctx, "resource_span")["scope_spans"], new)])
  BY <1>2, <1>3
<1>5. WithList(ctx, "span", Append(List(ctx, "span"), new))
        = With(ctx, "scope_span", [Object(ctx, "scope_span") EXCEPT
                 !["spans"] = Append(Object(ctx, "scope_span")["spans"], new)])
  BY <1>2, <1>3
<1>6. WithList(ctx, "event", Append(List(ctx, "event"), new))
        = With(ctx, "span", [Object(ctx, "span") EXCEPT
                 !["events"] = Append(Object(ctx, "span")["events"], new)])
  BY <1>2, <1>3
<1>7. WithList(ctx, "link", Append(List(ctx, "link"), new))
        = With(ctx, "span", [Object(ctx, "span") EXCEPT
                 !["links"] = Append(Object(ctx, "span")["links"], new)])
  BY <1>2, <1>3
<1>8. /\ Object(ctx, "resource_span") = Last(ctx)
      /\ Object(ctx, "scope_span") = Last(Last(ctx).scope_spans)
      /\ Object(ctx, "span") = TheSpan(ctx)
  BY ObjectIs
<1>9. \A x : /\ With(ctx, "resource_span", x) = WithLast(ctx, x)
             /\ With(ctx, "scope_span", x) = WithScopeSpan(ctx, x)
             /\ With(ctx, "span", x) = WithSpan(ctx, x)
  <2> TAKE x
  <2>1. With(ctx, "resource_span", x) = WithLast(ctx, x)
    BY WithIs
  <2>2. With(ctx, "scope_span", x) = WithScopeSpan(ctx, x)
    BY WithIs
  <2>3. With(ctx, "span", x) = WithSpan(ctx, x)
    BY WithIs
  <2> QED BY <2>1, <2>2, <2>3
<1> QED BY <1>1, <1>4, <1>5, <1>6, <1>7, <1>8, <1>9, Zenon

LEMMA ScopeEntered ==
    ASSUME IInv, Handling({"scope"}), NEW left,
           Set("scope_span", "instrumentation_scope", New.scope),
           stack' = Push(HandledFrame, [Frame("map", "scope") EXCEPT !.left = left]),
           repeats' = repeats
    PROVE  /\ IsList(stack') /\ \A i \in 1..Len(stack') : IsFrame(stack'[i])
           /\ Levels' /\ Open(Len(stack), trace)' /\ Fresh'
<1>1. /\ Running /\ stack # <<>> /\ Top.what = "map" /\ Top.key = "scope"
  BY DEF Handling, Reading, Running
<1>2. /\ Len(stack) \in Nat \ {0} /\ Top = stack[Len(stack)] /\ IsFrame(Top)
      /\ Level(Top) = Len(stack)
  BY <1>1, TopFacts
<1>3. Len(stack) = 5
  <2>1. /\ Top.kind \in DOMAIN Entries /\ Top.key \in Range(Entries[Top.kind])
        /\ Top.kind \in DOMAIN MapLevel
    BY <1>1, <1>2, KeyOfFrame
  <2>2. Top.kind = "scope_span"
    BY <1>1, <2>1, KeyPlace
  <2> QED BY <1>1, <1>2, <2>2 DEF Level, MapLevel
<1>4. PICK g : g = [what |-> "map", kind |-> "scope", left |-> left, key |-> "", keys |-> {}]
  OBVIOUS
<1>5. stack' = Push(HandledFrame, g)
  <2>1. PICK h : h = Frame("map", "scope")
    OBVIOUS
  <2>2. h = [what |-> "map", kind |-> "scope", left |-> Unopened, key |-> "", keys |-> {}]
    BY <2>1 DEF Frame
  <2>3. PICK e : e = [h EXCEPT !.left = left]
    OBVIOUS
  <2>4. /\ e = [what |-> e.what, kind |-> e.kind, left |-> e.left, key |-> e.key, keys |-> e.keys]
        /\ e.what = "map" /\ e.kind = "scope" /\ e.left = left /\ e.key = "" /\ e.keys = {}
    BY <2>2, <2>3
  <2>5. e = g
    BY <1>4, <2>4
  <2> QED BY <2>1, <2>3, <2>5
<1>6. IsFrame(g) /\ Level(g) = 6
  BY <1>4, NewFrames DEF Level, MapLevel
<1>7. /\ IsList(stack') /\ Len(stack') = 6
      /\ \A i \in 1..Len(stack') : IsFrame(stack'[i])
      /\ Levels'
  <2>1. Level(g) = Len(stack) + 1 /\ Len(stack) + 1 = 6
    BY <1>3, <1>6
  <2> QED BY <1>1, <1>2, <1>5, <1>6, <2>1, HandledFrameIs, Pushed
<1>8. trace' = With(trace, "scope", New.scope)
  <2>1. Field("instrumentation_scope") = "instrumentation_scope"
    BY Zenon DEF Field
  <2>2. PICK s : s = [Last(Last(trace).scope_spans) EXCEPT !.instrumentation_scope = New.scope]
    OBVIOUS
  <2>3. Object(trace, "scope_span") = Last(Last(trace).scope_spans)
    BY ObjectIs
  <2>4. trace' = With(trace, "scope_span", s)
    BY <2>1, <2>2, <2>3 DEF Set
  <2>5. With(trace, "scope_span", s) = WithScopeSpan(trace, s)
    BY WithIs
  <2>6. With(trace, "scope", New.scope)
          = WithScopeSpan(trace, [Last(Last(trace).scope_spans)
                                    EXCEPT !.instrumentation_scope = New.scope])
    BY WithIs
  <2> QED BY <2>2, <2>4, <2>5, <2>6
<1>9. Open(6, trace') /\ Object(trace', "scope") = New.scope
  <2>1. Open(5, trace)
    BY <1>1, <1>3 DEF IInv
  <2> QED BY <1>8, <2>1, WithScopeIs
<1>10. Open(Len(stack), trace)'
  BY <1>7, <1>9
<1>11. ScopeIsFresh'
  <2>1. PICK c : c = Object(trace', "scope")
    OBVIOUS
  <2>2. {"name", "version"} \subseteq DOMAIN c /\ c.name = NULL /\ c.version = NULL
    BY <1>9, <2>1, NewIs
  <2> QED BY <2>1, <2>2 DEF ScopeIsFresh
<1>12. /\ ~IsOpen(7, "span")' /\ ~IsOpen(8, "status")'
       /\ ~IsOpen(9, "event")' /\ ~IsOpen(9, "link")'
  BY <1>7 DEF IsOpen
<1>13. SpanIsFresh' /\ StatusIsFresh'
  BY <1>12 DEF SpanIsFresh, StatusIsFresh
<1>14. EventIsThere'
  BY <1>12 DEF EventIsThere
<1>15. LinkIsFresh'
  BY <1>12 DEF LinkIsFresh
<1> QED BY <1>7, <1>10, <1>11, <1>13, <1>14, <1>15 DEF Fresh

\* The context with one more element in a list: t is what Add makes of it.
LEMMA ResourceSpanAdded ==
    ASSUME NEW ctx, Open(2, ctx)
    PROVE  Open(3, Append(ctx, New.resource_span))
<1>1. PICK t, new : t = Append(ctx, new) /\ new = New.resource_span
  OBVIOUS
<1>2. IsList(t) /\ t # <<>> /\ Last(t) = new
  BY <1>1, ListFacts DEF Open
<1>3. {"resource", "scope_spans"} \subseteq DOMAIN new /\ IsList(new.scope_spans)
  BY <1>1, NewIs, EmptyIsList
<1>4. Open(3, t)
  BY <1>2, <1>3 DEF Open
<1> QED BY <1>1, <1>4

LEMMA ScopeSpanAdded ==
    ASSUME NEW ctx, Open(4, ctx)
    PROVE  Open(5, WithLast(ctx, [Last(ctx) EXCEPT
                                    !.scope_spans = Append(Last(ctx).scope_spans, New.scope_span)]))
<1>1. PICK new, list, q : /\ new = New.scope_span
                          /\ list = Append(Last(ctx).scope_spans, new)
                          /\ q = [Last(ctx) EXCEPT !.scope_spans = list]
  OBVIOUS
<1>2. /\ Open(3, ctx) /\ IsList(Last(ctx).scope_spans)
      /\ {"resource", "scope_spans"} \subseteq DOMAIN Last(ctx)
  BY DEF Open
<1>3. IsList(list) /\ list # <<>> /\ Last(list) = new
  BY <1>1, <1>2, ListFacts
<1>4. DOMAIN q = DOMAIN Last(ctx) /\ q.scope_spans = list
  BY <1>1, <1>2
<1>5. PICK t : t = WithLast(ctx, q)
  OBVIOUS
<1>6. Open(3, t) /\ Last(t) = q
  BY <1>2, <1>3, <1>4, <1>5, WithResourceSpanIs
<1>7. {"instrumentation_scope", "spans"} \subseteq DOMAIN new /\ IsList(new.spans)
  BY <1>1, NewIs, EmptyIsList
<1>8. Open(5, t)
  BY <1>3, <1>4, <1>6, <1>7 DEF Open
<1> QED BY <1>1, <1>5, <1>8

LEMMA SpanAdded ==
    ASSUME NEW ctx, Open(6, ctx), NEW t,
           t = WithScopeSpan(ctx, [Last(Last(ctx).scope_spans) EXCEPT
                                     !.spans = Append(Last(Last(ctx).scope_spans).spans, New.span)])
    PROVE  Open(7, t) /\ Object(t, "span") = New.span
<1>1. PICK new, list, s : /\ new = New.span
                          /\ list = Append(Last(Last(ctx).scope_spans).spans, new)
                          /\ s = [Last(Last(ctx).scope_spans) EXCEPT !.spans = list]
  OBVIOUS
<1>2. /\ Open(5, ctx) /\ IsList(Last(Last(ctx).scope_spans).spans)
      /\ {"instrumentation_scope", "spans"} \subseteq DOMAIN Last(Last(ctx).scope_spans)
  BY DEF Open
<1>3. IsList(list) /\ list # <<>> /\ Last(list) = new
  BY <1>1, <1>2, ListFacts
<1>4. DOMAIN s = DOMAIN Last(Last(ctx).scope_spans) /\ s.spans = list
  BY <1>1, <1>2
<1>5. PICK c : c = WithScopeSpan(ctx, s)
  OBVIOUS
<1>6. Open(5, c) /\ Last(Last(c).scope_spans) = s
  BY <1>2, <1>3, <1>4, <1>5, WithScopeSpanIs
<1>7. IsSpan(new)
  BY <1>1, NewIs, EmptyIsList DEF IsSpan
<1>8. TheSpan(c) = new
  BY <1>3, <1>4, <1>6 DEF TheSpan
<1>9. Open(7, c)
  BY <1>3, <1>4, <1>6, <1>7, <1>8 DEF Open, IsSpan
<1>10. t = c
  BY <1>1, <1>5
<1>11. Object(c, "span") = TheSpan(c)
  BY ObjectIs
<1> QED BY <1>1, <1>8, <1>9, <1>10, <1>11

\* One more event or link of the span.
WithMore(ctx, field, new) ==
    WithSpan(ctx, [TheSpan(ctx) EXCEPT ![field] = Append(TheSpan(ctx)[field], new)])

LEMMA EventOrLinkAdded ==
    ASSUME NEW ctx, Open(8, ctx), NEW new, NEW field \in {"events", "links"},
           NEW t, t = WithMore(ctx, field, new)
    PROVE  /\ Open(9, t)
           /\ Object(t, "span")[field] # <<>> /\ Last(Object(t, "span")[field]) = new
           /\ Object(t, "scope") = Object(ctx, "scope")
           /\ Object(t, "span").schema_url = Object(ctx, "span").schema_url
           /\ Object(t, "span").status = Object(ctx, "span").status
<1>1. PICK p, list, q : /\ p = TheSpan(ctx)
                        /\ list = Append(p[field], new)
                        /\ q = [p EXCEPT ![field] = list]
  OBVIOUS
<1>2. Open(7, ctx)
  BY DEF Open
<1>3. IsSpan(p)
  BY <1>1, <1>2, SpanOfIs
<1>4. IsList(p[field])
  BY <1>3 DEF IsSpan
<1>5. IsList(list) /\ list # <<>> /\ Last(list) = new
  BY <1>1, <1>4, ListFacts
<1>6. /\ DOMAIN q = DOMAIN p /\ q[field] = list
      /\ q.status = p.status /\ q.schema_url = p.schema_url
      /\ IsList(q.events) /\ IsList(q.links)
  BY <1>1, <1>3, <1>5 DEF IsSpan
<1>7. IsSpan(q)
  BY <1>3, <1>6 DEF IsSpan
<1>8. PICK c : c = WithSpan(ctx, q)
  OBVIOUS
<1>9. t = c
  BY <1>1, <1>8 DEF WithMore
<1>10. Open(9, c) /\ TheSpan(c) = q /\ Object(c, "scope") = Object(ctx, "scope")
  BY <1>2, <1>7, <1>8, WithSpanIs
<1>11. Object(c, "span") = q
  BY <1>10, ObjectIs
<1>12. Object(ctx, "span") = p
  BY <1>1, ObjectIs
<1> QED BY <1>5, <1>6, <1>9, <1>10, <1>11, <1>12

\* An event without its set has missed it.
Created(kind, new) ==
    \/ new = New[kind]
    \/ /\ kind = "event" /\ new = [New.event EXCEPT !.attr = NULL]
       /\ "event attributes" \in starved'

LEMMA ElementLevel ==
    ASSUME NEW kind \in DOMAIN ArrayLevel
    PROVE  /\ kind \in DOMAIN MapLevel /\ MapLevel[kind] = ArrayLevel[kind] + 1
           /\ kind = "resource_span" => ArrayLevel[kind] = 2
           /\ kind = "scope_span" => ArrayLevel[kind] = 4
           /\ kind = "span" => ArrayLevel[kind] = 6
           /\ kind \in {"event", "link"} => ArrayLevel[kind] = 8
           /\ ArrayLevel[kind] \in 1..9
BY DEF ArrayLevel, MapLevel

LEMMA ElementAdded ==
    ASSUME IInv, Reading, Top.what = "array", NEW new, Created(Top.kind, new),
           stack' = Push([Top EXCEPT !.left = Top.left - 1], Frame("map", Top.kind)),
           Add(Top.kind, new), repeats' = repeats
    PROVE  /\ IsList(stack') /\ \A i \in 1..Len(stack') : IsFrame(stack'[i])
           /\ Levels' /\ Open(Len(stack), trace)' /\ Fresh'
<1>0. PICK n, kind, f, g :
                     /\ n = Len(stack) /\ kind = Top.kind
                     /\ f = [Top EXCEPT !.left = Top.left - 1]
                     /\ g = [what |-> "map", kind |-> kind, left |-> Unopened,
                             key |-> "", keys |-> {}]
  OBVIOUS
<1>1. Running /\ stack # <<>>
  BY DEF Reading, Running
<1>2. n \in Nat \ {0} /\ Top = stack[n] /\ IsFrame(Top) /\ Level(Top) = n
  BY <1>0, <1>1, TopFacts
<1>3. kind \in DOMAIN ArrayLevel /\ n = ArrayLevel[kind] /\ Top.key = ""
  BY <1>0, <1>2 DEF IsFrame, Level
<1>4. kind \in DOMAIN MapLevel /\ MapLevel[kind] = n + 1
  BY <1>3, ElementLevel
<1>5. /\ f.what = Top.what /\ f.kind = Top.kind /\ f.keys = Top.keys /\ f.key = ""
      /\ IsFrame(f)
  <2>1. PICK e : e = Top
    OBVIOUS
  <2>2. e = [what |-> e.what, kind |-> e.kind, left |-> e.left, key |-> e.key, keys |-> e.keys]
    BY <1>2, <2>1 DEF IsFrame
  <2>3. f = [e EXCEPT !.left = e.left - 1]
    BY <1>0, <2>1
  <2>4. /\ f = [what |-> f.what, kind |-> f.kind, left |-> f.left, key |-> f.key, keys |-> f.keys]
        /\ f.what = e.what /\ f.kind = e.kind /\ f.keys = e.keys /\ f.key = e.key
    BY <2>2, <2>3
  <2> QED BY <1>2, <1>3, <2>1, <2>4 DEF IsFrame
<1>6. IsFrame(g) /\ g.what = "map" /\ g.kind = kind /\ Level(g) = n + 1
  BY <1>0, <1>4, NewFrames DEF Level
<1>7. /\ IsList(stack') /\ Len(stack') = n + 1
      /\ \A i \in 1..Len(stack') : IsFrame(stack'[i])
      /\ Levels'
      /\ stack'[n + 1] = g
      /\ \A i \in 1..9, k \in DOMAIN MapLevel :
            i <= n /\ IsOpen(i, k)' => IsOpen(i, k)
      /\ \A i \in 1..n :
            /\ stack'[i].keys = stack[i].keys
            /\ \A x \in FreshKeys : Came(stack[i], x) => Came(stack[i], x)'
  <2>1. stack' = Push(f, g)
    BY <1>0 DEF Frame
  <2> QED BY <1>0, <1>1, <1>2, <1>5, <1>6, <2>1, Pushed
<1>8. ~IsOpen(n, "scope")' /\ ~IsOpen(n, "status")'
  <2>1. {"scope", "status"} \subseteq DOMAIN MapLevel /\ n \in 1..9
    <3>1. {"scope", "status"} \subseteq DOMAIN MapLevel
      BY DEF MapLevel
    <3> QED BY <1>3, <3>1, ElementLevel
  <2>2. ~IsOpen(n, "scope") /\ ~IsOpen(n, "status")
    BY <1>2 DEF IsOpen
  <2> QED BY <1>7, <2>1, <2>2
<1>9. \A i, k : IsOpen(i, k)' => n + 1 >= i /\ (i = n + 1 => k = kind)
  BY <1>6, <1>7 DEF IsOpen
<1>10. Open(n, trace)
  <2>1. Open(Len(stack), trace)
    BY <1>1 DEF IInv
  <2> QED BY <1>0, <2>1
<1>11. /\ trace' = WithList(trace, kind, Append(List(trace, kind), new))
       /\ Created(kind, new)
  BY <1>0 DEF Add
<1>12. SUFFICES Open(n + 1, trace') /\ Fresh'
  BY <1>7
<1>13. CASE kind = "resource_span"
  <2>1. n = 2
    BY <1>3, <1>13, ElementLevel
  <2>2. trace' = Append(trace, New.resource_span)
    <3>1. new = New.resource_span
      BY <1>11, <1>13 DEF Created
    <3> QED BY <1>11, <1>13, <3>1, AddIs
  <2>3. Open(3, trace')
    BY <1>10, <2>1, <2>2, ResourceSpanAdded
  <2>4. /\ ~IsOpen(6, "scope")' /\ ~IsOpen(7, "span")' /\ ~IsOpen(8, "status")'
        /\ ~IsOpen(9, "event")' /\ ~IsOpen(9, "link")'
    BY <1>9, <2>1
  <2>5. Fresh'
    BY <2>4 DEF Fresh, ScopeIsFresh, SpanIsFresh, StatusIsFresh, EventIsThere, LinkIsFresh
  <2> QED BY <2>1, <2>3, <2>5
<1>14. CASE kind = "scope_span"
  <2>1. n = 4
    BY <1>3, <1>14, ElementLevel
  <2>2. trace' = WithLast(trace, [Last(trace) EXCEPT
                                    !.scope_spans = Append(Last(trace).scope_spans, New.scope_span)])
    <3>1. new = New.scope_span
      BY <1>11, <1>14 DEF Created
    <3> QED BY <1>11, <1>14, <3>1, AddIs
  <2>3. Open(5, trace')
    BY <1>10, <2>1, <2>2, ScopeSpanAdded
  <2>4. /\ ~IsOpen(6, "scope")' /\ ~IsOpen(7, "span")' /\ ~IsOpen(8, "status")'
        /\ ~IsOpen(9, "event")' /\ ~IsOpen(9, "link")'
    BY <1>9, <2>1
  <2>5. Fresh'
    BY <2>4 DEF Fresh, ScopeIsFresh, SpanIsFresh, StatusIsFresh, EventIsThere, LinkIsFresh
  <2> QED BY <2>1, <2>3, <2>5
<1>15. CASE kind = "span"
  <2>1. n = 6
    BY <1>3, <1>15, ElementLevel
  <2>2. trace' = WithScopeSpan(trace, [Last(Last(trace).scope_spans) EXCEPT
                   !.spans = Append(Last(Last(trace).scope_spans).spans, New.span)])
    <3>1. new = New.span
      BY <1>11, <1>15 DEF Created
    <3> QED BY <1>11, <1>15, <3>1, AddIs
  <2>3. Open(7, trace') /\ Object(trace', "span") = New.span
    BY <1>10, <2>1, <2>2, SpanAdded
  <2>4. /\ ~IsOpen(6, "scope")' /\ ~IsOpen(8, "status")'
        /\ ~IsOpen(9, "event")' /\ ~IsOpen(9, "link")'
    BY <1>8, <1>9, <2>1
  <2>5. SpanIsFresh'
    <3>1. PICK p : p = Object(trace', "span")
      OBVIOUS
    <3>2. p.schema_url = NULL /\ p.status.message = NULL
      BY <2>3, <3>1, NewIs
    <3> QED BY <3>1, <3>2 DEF SpanIsFresh
  <2>6. Fresh'
    BY <2>4, <2>5 DEF Fresh, ScopeIsFresh, StatusIsFresh, EventIsThere, LinkIsFresh
  <2> QED BY <2>1, <2>3, <2>6
<1>16. CASE kind \in {"event", "link"}
  <2>1. n = 8
    BY <1>3, <1>16, ElementLevel
  <2>2. PICK field \in {"events", "links"} :
           /\ kind = "event" => field = "events"
           /\ kind = "link" => field = "links"
           /\ trace' = WithMore(trace, field, new)
    <3>1. CASE kind = "event"
      BY <1>11, <3>1, AddIs DEF WithMore
    <3>2. CASE kind = "link"
      BY <1>11, <3>2, AddIs DEF WithMore
    <3> QED BY <1>16, <3>1, <3>2
  <2>3. /\ Open(9, trace')
        /\ Object(trace', "span")[field] # <<>> /\ Last(Object(trace', "span")[field]) = new
        /\ Object(trace', "scope") = Object(trace, "scope")
        /\ Object(trace', "span").schema_url = Object(trace, "span").schema_url
        /\ Object(trace', "span").status = Object(trace, "span").status
    <3>1. Open(8, trace)
      BY <1>10, <2>1
    <3>2. PICK t : t = trace'
      OBVIOUS
    <3>3. t = WithMore(trace, field, new)
      BY <2>2, <3>2
    <3>4. /\ Open(9, t)
          /\ Object(t, "span")[field] # <<>> /\ Last(Object(t, "span")[field]) = new
          /\ Object(t, "scope") = Object(trace, "scope")
          /\ Object(t, "span").schema_url = Object(trace, "span").schema_url
          /\ Object(t, "span").status = Object(trace, "span").status
      BY <3>1, <3>3, EventOrLinkAdded
    <3> QED BY <3>2, <3>4
  <2>4. ScopeIsFresh' /\ SpanIsFresh'
    <3>1. n \in Nat /\ n >= 6 /\ n >= 7
      BY <2>1
    <3>2. n <= Len(stack)
      <4>1. Len(stack) \in Nat
        BY <1>1, TopFacts
      <4>2. Len(stack) <= Len(stack)
        BY <4>1
      <4> QED BY <1>0, <4>2
    <3> QED BY <1>1, <1>7, <2>3, <3>1, <3>2, BelowKept
  <2>5. StatusIsFresh'
    BY <1>8, <2>1 DEF StatusIsFresh
  <2>6. EventIsThere'
    <3> SUFFICES ASSUME IsOpen(9, "event")' PROVE EventIsThere'
      BY DEF EventIsThere
    <3>1. kind = "event"
      BY <1>9, <2>1
    <3>2. field = "events"
      BY <2>2, <3>1
    <3>3. PICK p, e : p = Object(trace', "span") /\ e = Object(trace', "event")
      OBVIOUS
    <3>4. e = Last(p.events)
      BY <3>3, ObjectIs
    <3>5. e = new /\ p.events # <<>>
      BY <2>3, <3>2, <3>3, <3>4
    <3>6. "attr" \in DOMAIN new /\ (new.attr # NULL \/ "event attributes" \in starved')
      BY <1>11, <3>1, NewIs, EmptyIsNotNull DEF Created
    <3> QED BY <3>3, <3>5, <3>6 DEF EventIsThere
  <2>7. LinkIsFresh'
    <3> SUFFICES ASSUME IsOpen(9, "link")' PROVE LinkIsFresh'
      BY DEF LinkIsFresh
    <3>1. kind = "link"
      BY <1>9, <2>1
    <3>2. field = "links" /\ new = New.link
      BY <1>11, <2>2, <3>1 DEF Created
    <3>3. PICK p, l : p = Object(trace', "span") /\ l = Object(trace', "link")
      OBVIOUS
    <3>4. l = Last(p.links)
      BY <3>3, ObjectIs
    <3>5. l = new /\ p.links # <<>>
      BY <2>3, <3>2, <3>3, <3>4
    <3>6. LinkKeys \subseteq DOMAIN new /\ \A key \in LinkKeys : new[key] = NULL
      BY <3>2, NewIs
    <3> QED BY <3>3, <3>5, <3>6 DEF LinkIsFresh
  <2> QED BY <2>1, <2>3, <2>4, <2>5, <2>6, <2>7 DEF Fresh
<1> QED BY <1>3, <1>13, <1>14, <1>15, <1>16 DEF ArrayLevel

-----------------------------------------------------------------------------
(* Each action keeps the invariant: the reader and the stack.              *)

LEMMA LeaksKept ==
    ASSUME IInv, lost' = lost, repeats \subseteq repeats'
    PROVE  LeaksAreRepeats'
BY DEF IInv, LeaksAreRepeats

LEMMA ReadingIs ==
    ASSUME IInv, Reading
    PROVE  Running /\ stack # <<>> /\ call = "reading" /\ result = "ok" /\ err = FALSE
BY DEF IInv, Reading, Running, Course

LEMMA FailKeeps ==
    ASSUME IInv, Reading, NEW why, why # "ok", Fail(why),
           UNCHANGED <<buffer, offset, pos>> \/ \E t : Take(t),
           UNCHANGED answers, LeaksAreRepeats'
    PROVE  IInv'
<1>1. call = "reading" /\ call' = "reading" /\ result' # "ok" /\ stack' = stack
  BY ReadingIs DEF Fail
<1> QED BY <1>1, FailedKeeps

LEMMA EndKeeps ==
    ASSUME IInv, Reading, NEW why, why # "ok", EndAt(why)
    PROVE  IInv'
<1>1. UNCHANGED <<buffer, offset, pos>> /\ UNCHANGED answers /\ Fail(why)
      /\ lost' = lost /\ repeats' = repeats
  BY DEF EndAt, history
<1>2. LeaksAreRepeats'
  BY <1>1, LeaksKept
<1> QED BY <1>1, <1>2, FailKeeps

LEMMA WrongTypeKeeps ==
    ASSUME IInv, Reading, NEW type, NEW peeked, WrongType(type, peeked)
    PROVE  IInv'
<1>1. UNCHANGED answers /\ Fail("type") /\ lost' = lost /\ repeats' = repeats
  BY DEF WrongType, history
<1>2. UNCHANGED <<buffer, offset, pos>> \/ \E t : Take(t)
  BY DEF WrongType, reader
<1>3. LeaksAreRepeats'
  BY <1>1, LeaksKept
<1> QED BY <1>1, <1>2, <1>3, FailKeeps

LEMMA OpenedKeeps ==
    ASSUME IInv, Reading, NEW t, NEW limit, NEW count, Opened(t, limit, count)
    PROVE  IInv'
<1>1. Take(t) /\ err' = err /\ UNCHANGED trace /\ starved' = starved
      /\ lost' = lost /\ repeats' = repeats /\ UNCHANGED answers
  BY DEF Opened, history
<1>2. LeaksAreRepeats'
  BY <1>1, LeaksKept
<1>3. CASE count > limit
  <2>1. Fail("corrupt")
    BY <1>3 DEF Opened
  <2> QED BY <1>1, <1>2, <2>1, FailKeeps
<1>4. CASE ~(count > limit)
  <2>1. PICK f, g : f = Top /\ g = [f EXCEPT !.left = count]
    OBVIOUS
  <2>2. stack' = Append(Below, g) /\ call' = call /\ result' = result
    BY <1>4, <2>1 DEF Opened
  <2>3. Running /\ stack # <<>> /\ err = FALSE /\ IsFrame(f)
    BY <2>1, ReadingIs, TopFacts
  <2>4. f = [what |-> f.what, kind |-> f.kind, left |-> f.left, key |-> f.key, keys |-> f.keys]
    BY <2>3 DEF IsFrame
  <2>5. /\ g = [what |-> g.what, kind |-> g.kind, left |-> g.left, key |-> g.key, keys |-> g.keys]
        /\ g.what = f.what /\ g.kind = f.kind /\ g.keys = f.keys /\ g.key = f.key
    BY <2>1, <2>4
  <2>6. IsFrame(g)
    BY <2>3, <2>5 DEF IsFrame
  <2>7. \A key \in FreshKeys : Came(Top, key) =>
           key \in g.keys /\ (g.key = key => <<g.kind, key>> \in repeats')
    BY <1>1, <2>1, <2>5 DEF Came
  <2>8. g.what = Top.what /\ g.kind = Top.kind /\ Top.keys \subseteq g.keys
        /\ repeats \subseteq repeats' /\ starved \subseteq starved'
    BY <1>1, <2>1, <2>5
  <2>9. /\ IsList(stack') /\ Len(stack') = Len(stack) /\ stack' # <<>>
        /\ \A i \in 1..Len(stack') : IsFrame(stack'[i])
        /\ Levels'
        /\ \A n \in 1..9, kind \in DOMAIN MapLevel : IsOpen(n, kind)' => IsOpen(n, kind)
        /\ \A n \in 1..Len(stack) :
              /\ stack[n].keys \subseteq stack'[n].keys
              /\ \A key \in FreshKeys : Came(stack[n], key) => Came(stack[n], key)'
    BY <2>2, <2>3, <2>6, <2>7, <2>8, Swapped
  <2>10. Len(stack') \in Nat /\ Len(stack') <= Len(stack) /\ 1..Len(stack') = 1..Len(stack)
    BY <2>3, <2>9, TopFacts
  <2>11. Open(Len(stack), trace)' /\ Fresh'
    BY <1>1, <2>3, <2>8, <2>9, <2>10, TraceKept
  <2> QED BY <1>1, <1>2, <2>2, <2>3, <2>9, <2>11, GoesOn
<1> QED BY <1>3, <1>4

LEMMA OpenKeeps ==
    ASSUME IInv, OpenMap \/ OpenArray
    PROVE  IInv'
<1>1. Reading
  BY DEF OpenMap, OpenArray, Opening
<1>2. \/ EndAt("engine")
      \/ \E type : WrongType(type, FALSE)
      \/ \E t, limit, count : Opened(t, limit, count)
  BY DEF OpenMap, OpenArray
<1> QED BY <1>1, <1>2, EndKeeps, WrongTypeKeeps, OpenedKeeps

LEMMA CloseKeeps ==
    ASSUME IInv, Close
    PROVE  IInv'
<1>1. /\ Running /\ stack # <<>> /\ err = FALSE
      /\ Len(stack) \in Nat \ {0}
  BY ReadingIs, TopFacts DEF Close
<1>2. /\ stack' = Below /\ UNCHANGED <<buffer, offset, pos>> /\ err' = err /\ call' = call
      /\ UNCHANGED trace /\ result' = result /\ starved' = starved
      /\ lost' = lost /\ repeats' = repeats /\ UNCHANGED answers
  BY DEF Close, reader, history
<1>3. /\ IsList(stack') /\ Len(stack') = Len(stack) - 1
      /\ \A i \in 1..(Len(stack) - 1) : stack'[i] = stack[i]
  BY <1>1, <1>2, FrontFacts DEF Below, IInv, Typed
<1>4. /\ Len(stack') \in Nat /\ Len(stack') <= Len(stack)
      /\ \A i \in 1..Len(stack') : i \in 1..Len(stack) /\ i # Len(stack) /\ stack'[i] = stack[i]
  BY <1>1, <1>3
<1>5. \A i \in 1..Len(stack') : IsFrame(stack'[i])
  BY <1>4 DEF IInv, Typed
<1>6. Levels'
  <2>1. Levels
    BY <1>1 DEF IInv
  <2> QED BY <1>4, <2>1 DEF Levels
<1>7. \A n \in 1..9, kind \in DOMAIN MapLevel : IsOpen(n, kind)' => IsOpen(n, kind)
  <2> TAKE n \in 1..9, kind \in DOMAIN MapLevel
  <2> SUFFICES ASSUME IsOpen(n, kind)' PROVE IsOpen(n, kind)
    OBVIOUS
  <2>1. n \in 1..Len(stack')
    BY <1>4 DEF IsOpen
  <2>2. stack'[n] = stack[n] /\ Len(stack) >= n
    BY <1>1, <1>4, <2>1
  <2> QED BY <2>2 DEF IsOpen
<1>8. \A n \in 1..Len(stack') :
         /\ stack[n].keys \subseteq stack'[n].keys
         /\ \A key \in FreshKeys : Came(stack[n], key) => Came(stack[n], key)'
  BY <1>2, <1>4 DEF Came
<1>9. Open(Len(stack), trace)' /\ Fresh'
  BY <1>1, <1>2, <1>4, <1>7, <1>8, TraceKept
<1>10. LeaksAreRepeats'
  BY <1>2, LeaksKept
<1> QED BY <1>1, <1>2, <1>3, <1>5, <1>6, <1>9, <1>10, GoesOn

\* What comes of a string is an error, or else "ok".
LEMMA OutcomesAre ==
    ASSUME NEW t, NEW outcome \in Outcomes(t)
    PROVE  outcome \in {"ok", "memory", "engine", "corrupt"}
BY Zenon DEF Outcomes

LEMMA ReadKeyKeeps ==
    ASSUME IInv, ReadKey
    PROVE  IInv'
<1>1. Reading
  BY DEF ReadKey
<1>2. CASE EndAt("engine") \/ WrongType({"string"}, FALSE)
  BY <1>1, <1>2, EndKeeps, WrongTypeKeeps
<1>3. ASSUME NEW t \in Upcoming, NEW outcome \in {"ok", "memory", "engine", "corrupt"},
             ConsumeString(t, outcome, "key"),
             IF outcome = "ok" /\ IsKey(t)
             THEN /\ stack' = Append(Below, [Top EXCEPT !.key = t[2], !.keys = @ \cup {t[2]}])
                  /\ repeats' = IF t[2] \in Top.keys THEN repeats \cup {<<Top.kind, t[2]>>}
                                ELSE repeats
                  /\ UNCHANGED <<call, result>>
             ELSE Fail(IF outcome = "ok" THEN "key" ELSE outcome) /\ UNCHANGED repeats,
             UNCHANGED <<trace, lost, answers>>
      PROVE  IInv'
  <2>1. Take(t) /\ UNCHANGED answers /\ lost' = lost
    BY <1>3 DEF ConsumeString
  <2>2. CASE ~(outcome = "ok" /\ IsKey(t))
    <3>1. PICK why : why = IF outcome = "ok" THEN "key" ELSE outcome
      OBVIOUS
    <3>2. why # "ok" /\ Fail(why) /\ repeats' = repeats
      BY <1>3, <2>2, <3>1
    <3>3. LeaksAreRepeats'
      BY <2>1, <3>2, LeaksKept
    <3> QED BY <1>1, <2>1, <3>2, <3>3, FailKeeps
  <2>3. CASE outcome = "ok" /\ IsKey(t)
    <3>1. PICK f, key, g : /\ f = Top /\ key = t[2]
                           /\ g = [f EXCEPT !.key = key, !.keys = f.keys \cup {key}]
      OBVIOUS
    <3>2. /\ stack' = Append(Below, g)
          /\ repeats' = IF key \in f.keys THEN repeats \cup {<<f.kind, key>>} ELSE repeats
          /\ call' = call /\ result' = result
      BY <1>3, <2>3, <3>1
    <3>3. /\ Running /\ stack # <<>> /\ err' = FALSE /\ IsFrame(f) /\ f.what = "map"
          /\ key \in Range(Entries[f.kind]) /\ starved \subseteq starved'
      <4>1. err' = FALSE /\ starved' = starved
        BY <1>3, <2>3 DEF ConsumeString
      <4>2. f.what = "map"
        BY <3>1 DEF ReadKey
      <4>3. key \in Range(Entries[f.kind])
        BY <2>3, <3>1 DEF IsKey
      <4> QED BY <1>1, <3>1, <4>1, <4>2, <4>3, ReadingIs, TopFacts
    <3>4. f = [what |-> f.what, kind |-> f.kind, left |-> f.left, key |-> f.key, keys |-> f.keys]
      BY <3>3 DEF IsFrame
    <3>5. /\ g = [what |-> g.what, kind |-> g.kind, left |-> g.left, key |-> g.key,
                  keys |-> g.keys]
          /\ g.what = f.what /\ g.kind = f.kind /\ g.keys = f.keys \cup {key} /\ g.key = key
      BY <3>1, <3>4
    <3>6. IsFrame(g)
      BY <3>3, <3>5 DEF IsFrame
    <3>7. repeats \subseteq repeats' /\ (key \in f.keys => <<f.kind, key>> \in repeats')
      BY <3>2
    <3>8. \A k \in FreshKeys : Came(Top, k) =>
             k \in g.keys /\ (g.key = k => <<g.kind, k>> \in repeats')
      BY <3>1, <3>5, <3>7 DEF Came
    <3>9. g.what = Top.what /\ g.kind = Top.kind /\ Top.keys \subseteq g.keys
      BY <3>1, <3>5
    <3>10. /\ IsList(stack') /\ Len(stack') = Len(stack) /\ stack' # <<>>
           /\ \A i \in 1..Len(stack') : IsFrame(stack'[i])
           /\ Levels'
           /\ \A n \in 1..9, kind \in DOMAIN MapLevel : IsOpen(n, kind)' => IsOpen(n, kind)
           /\ \A n \in 1..Len(stack) :
                 /\ stack[n].keys \subseteq stack'[n].keys
                 /\ \A k \in FreshKeys : Came(stack[n], k) => Came(stack[n], k)'
      BY <3>2, <3>3, <3>6, <3>7, <3>8, <3>9, Swapped
    <3>11. Len(stack') \in Nat /\ Len(stack') <= Len(stack) /\ 1..Len(stack') = 1..Len(stack)
      BY <3>3, <3>10, TopFacts
    <3>12. trace' = trace
      BY <1>3
    <3>13. Open(Len(stack), trace)' /\ Fresh'
      BY <3>3, <3>7, <3>10, <3>11, <3>12, TraceKept
    <3>14. LeaksAreRepeats'
      BY <2>1, <3>7, LeaksKept
    <3> QED BY <2>1, <3>2, <3>3, <3>10, <3>13, <3>14, GoesOn
  <2> QED BY <2>2, <2>3
<1> QED BY <1>2, <1>3 DEF ReadKey

-----------------------------------------------------------------------------
(* Each action keeps the invariant: the handlers.                          *)

LEMMA OverwrittenKeys ==
    ASSUME NEW kind \in DOMAIN Entries, NEW key \in Range(Entries[kind]),
           key \in StringKeys \cup IdKeys,
           IF key \in IdKeys THEN kind = "link" ELSE <<kind, key>> \notin FreedFirst
    PROVE  \/ kind = "scope" /\ key \in {"name", "version"}
           \/ kind = "span" /\ key = "schema_url"
           \/ kind = "status" /\ key = "message"
           \/ kind = "link" /\ key \in LinkKeys
<1>1. /\ kind \in {"context", "resource"} => key \notin StringKeys \cup IdKeys
      /\ kind = "resource_span" => key \notin IdKeys /\ (key \in StringKeys => key = "schema_url")
      /\ kind = "scope_span" => key \notin IdKeys /\ (key \in StringKeys => key = "schema_url")
  BY DEF Entries, Range, StringKeys, IdKeys
<1>2. /\ kind = "scope" => key \notin IdKeys /\ (key \in StringKeys => key \in {"name", "version"})
      /\ kind = "status" => key \notin IdKeys /\ (key \in StringKeys => key = "message")
      /\ kind = "event" => key \notin IdKeys /\ (key \in StringKeys => key = "name")
  BY DEF Entries, Range, StringKeys, IdKeys
<1>3. kind = "span" => (key \in StringKeys => key \in {"trace_state", "name", "schema_url"})
  BY DEF Entries, Range, StringKeys
<1>4. kind = "link" => (key \in StringKeys \cup IdKeys => key \in LinkKeys)
  BY DEF Entries, Range, StringKeys, IdKeys, LinkKeys
<1>5. kind \in {"context", "resource", "resource_span", "scope_span", "scope", "status", "event",
                "span", "link"}
  BY DEF Entries
<1>6. key \notin IdKeys => <<kind, key>> \notin FreedFirst
  OBVIOUS
<1>7. /\ <<"resource_span", "schema_url">> \in FreedFirst
      /\ <<"scope_span", "schema_url">> \in FreedFirst
      /\ <<"event", "name">> \in FreedFirst
      /\ <<"span", "trace_state">> \in FreedFirst /\ <<"span", "name">> \in FreedFirst
  BY DEF FreedFirst
<1> QED BY <1>1, <1>2, <1>3, <1>4, <1>5, <1>6, <1>7

\* A pointer that is not NULL has been set from the same key before.
LEMMA OverwriteEarned ==
    ASSUME IInv, Handling(StringKeys \cup IdKeys), Overwrite, repeats' = repeats,
           IF Top.key \in IdKeys THEN Top.kind = "link"
                                 ELSE <<Top.kind, Top.key>> \notin FreedFirst
    PROVE  LeaksAreRepeats'
<1>0. PICK kind, key, n : kind = Top.kind /\ key = Top.key /\ n = Len(stack)
  OBVIOUS
<1>1. CASE Get(Top.kind, Top.key) = NULL
  BY <1>1, LeaksKept DEF Overwrite
<1>2. CASE Get(Top.kind, Top.key) # NULL
  <2>1. /\ Running /\ stack # <<>> /\ Top.what = "map" /\ key \in StringKeys \cup IdKeys
        /\ key # ""
    BY <1>0 DEF Handling, Reading, Running, StringKeys, IdKeys
  <2>2. /\ n \in Nat \ {0} /\ Top = stack[n] /\ IsFrame(Top) /\ Level(Top) = n
    BY <1>0, <2>1, TopFacts
  <2>3. kind \in DOMAIN Entries /\ key \in Range(Entries[kind])
        /\ kind \in DOMAIN MapLevel /\ n = MapLevel[kind]
    BY <1>0, <2>1, <2>2, KeyOfFrame DEF Level
  <2>4. \/ kind = "scope" /\ key \in {"name", "version"}
        \/ kind = "span" /\ key = "schema_url"
        \/ kind = "status" /\ key = "message"
        \/ kind = "link" /\ key \in LinkKeys
    <3>1. IF key \in IdKeys THEN kind = "link" ELSE <<kind, key>> \notin FreedFirst
      BY <1>0
    <3> QED BY <2>1, <2>3, <3>1, OverwrittenKeys
  <2>5. Object(trace, kind)[key] # NULL
    <3>1. Field(key) = key
      <4>1. key \in PlainKeys /\ key \notin {"attributes", "dropped_attributes_count"}
        BY <2>1 DEF PlainKeys, StringKeys, IdKeys
      <4> QED BY <4>1, FieldIs
    <3> QED BY <1>0, <1>2, <3>1 DEF Get
  <2>6. IsOpen(n, kind)
    <3>1. Len(stack) >= n
      <4>1. Len(stack) \in Nat
        BY <2>1, TopFacts
      <4>2. Len(stack) >= Len(stack)
        BY <4>1
      <4> QED BY <1>0, <4>2
    <3>2. stack[n].what = "map" /\ stack[n].kind = kind
      BY <1>0, <2>1, <2>2
    <3> QED BY <3>1, <3>2 DEF IsOpen
  <2>7. Fresh
    BY <2>1 DEF IInv
  <2>8. \A k : k = key /\ Came(stack[n], k) => <<kind, key>> \in repeats
    BY <1>0, <2>2 DEF Came
  <2>9. <<kind, key>> \in repeats \/ (<<kind, key>> = <<"status", "message">>
                                      /\ <<"span", "status">> \in repeats)
    <3>1. CASE kind = "scope" /\ key \in {"name", "version"}
      <4>1. n = 6
        BY <2>3, <3>1 DEF MapLevel
      <4>2. PICK c : c = Object(trace, "scope")
        OBVIOUS
      <4>3. \A k \in {"name", "version"} : c[k] # NULL => Came(stack[6], k)
        BY <2>6, <2>7, <3>1, <4>1, <4>2 DEF Fresh, ScopeIsFresh
      <4> QED BY <2>5, <2>8, <3>1, <4>1, <4>2, <4>3
    <3>2. CASE kind = "span" /\ key = "schema_url"
      <4>1. n = 7
        BY <2>3, <3>2 DEF MapLevel
      <4>2. Object(trace, "span").schema_url # NULL => Came(stack[7], "schema_url")
        BY <2>6, <2>7, <3>2, <4>1 DEF Fresh, SpanIsFresh
      <4> QED BY <2>5, <2>8, <3>2, <4>1, <4>2
    <3>3. CASE kind = "status" /\ key = "message"
      <4>1. n = 8
        BY <2>3, <3>3 DEF MapLevel
      <4>2. Object(trace, "status").message # NULL =>
               Came(stack[8], "message") \/ <<"span", "status">> \in repeats
        BY <2>6, <2>7, <3>3, <4>1 DEF Fresh, StatusIsFresh
      <4> QED BY <2>5, <2>8, <3>3, <4>1, <4>2
    <3>4. CASE kind = "link" /\ key \in LinkKeys
      <4>1. n = 9
        BY <2>3, <3>4 DEF MapLevel
      <4>2. PICK l : l = Object(trace, "link")
        OBVIOUS
      <4>3. \A k \in LinkKeys : l[k] # NULL => Came(stack[9], k)
        BY <2>6, <2>7, <3>4, <4>1, <4>2 DEF Fresh, LinkIsFresh
      <4> QED BY <2>5, <2>8, <3>4, <4>1, <4>2, <4>3
    <3> QED BY <2>4, <3>1, <3>2, <3>3, <3>4
  <2>10. lost' = lost \cup {<<kind, key>>}
    BY <1>0, <1>2 DEF Overwrite
  <2>11. LeaksAreRepeats
    BY DEF IInv
  <2> QED BY <2>9, <2>10, <2>11 DEF LeaksAreRepeats
<1> QED BY <1>1, <1>2

LEMMA ReplaceEarned ==
    ASSUME IInv, Handling(StringKeys), Replace, repeats' = repeats
    PROVE  LeaksAreRepeats'
<1>1. CASE <<Top.kind, Top.key>> \in FreedFirst
  BY <1>1, LeaksKept DEF Replace
<1>2. CASE <<Top.kind, Top.key>> \notin FreedFirst
  <2>1. Overwrite
    BY <1>2 DEF Replace
  <2>2. Top.key \notin IdKeys
    BY DEF Handling, StringKeys, IdKeys
  <2>3. Handling(StringKeys \cup IdKeys)
    BY DEF Handling
  <2> QED BY <1>2, <2>1, <2>2, <2>3, OverwriteEarned
<1> QED BY <1>1, <1>2

LEMMA SameLength ==
    ASSUME NEW m \in Nat, NEW n, n = m
    PROVE  n \in Nat /\ n <= m /\ 1..n = 1..m
OBVIOUS

\* A handler that leaves the context as it is.
LEMMA HandledKeeps ==
    ASSUME IInv, NEW keys, Handling(keys), Top.key # "", Handled, UNCHANGED trace,
           starved \subseteq starved', repeats' = repeats, UNCHANGED answers, err' = FALSE,
           UNCHANGED <<buffer, offset, pos>> \/ \E t : Take(t), LeaksAreRepeats'
    PROVE  IInv'
<1>1. Running /\ stack # <<>>
  BY ReadingIs DEF Handling
<1>2. /\ IsList(stack') /\ Len(stack') = Len(stack)
      /\ \A i \in 1..Len(stack') : IsFrame(stack'[i])
      /\ Levels'
      /\ \A n \in 1..9, kind \in DOMAIN MapLevel : IsOpen(n, kind)' => IsOpen(n, kind)
      /\ \A n \in 1..Len(stack) :
            /\ stack[n].keys \subseteq stack'[n].keys
            /\ \A key \in FreshKeys : Came(stack[n], key) => Came(stack[n], key)'
  BY <1>1, HandledSwaps
<1>3. Len(stack') \in Nat /\ Len(stack') <= Len(stack) /\ 1..Len(stack') = 1..Len(stack)
  <2>1. Len(stack) \in Nat
    BY <1>1, TopFacts
  <2>2. Len(stack') = Len(stack)
    BY <1>2
  <2> QED BY <2>1, <2>2, SameLength
<1>9. repeats \subseteq repeats'
  OBVIOUS
<1>4. Open(Len(stack), trace)' /\ Fresh'
  BY <1>1, <1>2, <1>3, <1>9, TraceKept
<1>5. call' = call /\ result' = result
  BY DEF Handled
<1> QED BY <1>1, <1>2, <1>4, <1>5, GoesOn

\* A handler that writes a field.
LEMMA WrittenKeeps ==
    ASSUME IInv, Handling(PlainKeys), Handled, NEW v, Set(Top.kind, Top.key, v),
           Top.key = "attributes" => v # NULL,
           starved \subseteq starved', repeats' = repeats, UNCHANGED answers, err' = FALSE,
           UNCHANGED <<buffer, offset, pos>> \/ \E t : Take(t), LeaksAreRepeats'
    PROVE  IInv'
<1>1. Running
  BY ReadingIs DEF Handling
<1>2. /\ IsList(stack') /\ \A i \in 1..Len(stack') : IsFrame(stack'[i])
      /\ Levels' /\ Open(Len(stack), trace)' /\ Fresh'
  BY FieldWritten
<1>3. call' = call /\ result' = result
  BY DEF Handled
<1> QED BY <1>1, <1>2, <1>3, GoesOn

LEMMA HandlingPlain ==
    ASSUME NEW keys, keys \subseteq PlainKeys, Handling(keys)
    PROVE  Handling(PlainKeys) /\ Top.key # "" /\ Reading
<1>1. "" \notin PlainKeys
  BY DEF PlainKeys, StringKeys, IdKeys, NumberKeys
<1> QED BY <1>1 DEF Handling

LEMMA ReadNumberKeeps ==
    ASSUME IInv, ReadNumber
    PROVE  IInv'
<1>1. Handling(NumberKeys) /\ Handling(PlainKeys) /\ Reading
  BY HandlingPlain DEF ReadNumber, PlainKeys
<1>2. Top.key # "attributes"
  BY <1>1 DEF Handling, NumberKeys
<1>3. CASE EndAtNumber("engine") \/ WrongType({"num"}, FALSE)
  BY <1>1, <1>3, EndKeeps, WrongTypeKeeps DEF EndAtNumber
<1>4. ASSUME NEW t \in Upcoming, Take(t), Set(Top.kind, Top.key, Cut(Top.key, t[2])), Handled,
             UNCHANGED <<err, starved, history>>
      PROVE  IInv'
  <2>1. /\ err' = FALSE /\ starved \subseteq starved' /\ repeats' = repeats /\ lost' = lost
        /\ UNCHANGED answers
    BY <1>1, <1>4, ReadingIs DEF history
  <2>2. LeaksAreRepeats'
    BY <2>1, LeaksKept
  <2> QED BY <1>1, <1>2, <1>4, <2>1, <2>2, WrittenKeeps
<1> QED BY <1>3, <1>4 DEF ReadNumber

LEMMA ReadStringKeeps ==
    ASSUME IInv, ReadString
    PROVE  IInv'
<1>1. Handling(StringKeys) /\ Handling(PlainKeys) /\ Reading
  BY HandlingPlain DEF ReadString, PlainKeys
<1>2. Top.key # "attributes" /\ err = FALSE
  BY <1>1, ReadingIs DEF Handling, StringKeys
<1>3. repeats' = repeats /\ UNCHANGED answers
  BY DEF ReadString
<1>4. CASE EndAt("type") \/ WrongType({"string", "nil"}, TRUE)
  BY <1>1, <1>4, EndKeeps, WrongTypeKeeps
<1>5. ASSUME NEW t \in Upcoming, Take(t), Replace, Set(Top.kind, Top.key, NULL), Handled,
             UNCHANGED <<err, starved>>
      PROVE  IInv'
  <2>1. err' = FALSE /\ starved \subseteq starved'
    BY <1>2, <1>5
  <2>2. LeaksAreRepeats'
    BY <1>1, <1>3, <1>5, ReplaceEarned
  <2> QED BY <1>1, <1>2, <1>3, <1>5, <2>1, <2>2, WrittenKeeps
<1>6. ASSUME NEW t \in Upcoming, NEW outcome \in Outcomes(t), ConsumeString(t, outcome, "string"),
             IF outcome = "corrupt" THEN UNCHANGED lost ELSE Replace,
             IF outcome = "ok" THEN Set(Top.kind, Top.key, TextOf(t)) /\ Handled
                               ELSE Fail(outcome) /\ UNCHANGED trace
      PROVE  IInv'
  <2>1. Take(t)
    BY <1>6 DEF ConsumeString
  <2>2. LeaksAreRepeats'
    <3>1. CASE outcome = "corrupt"
      BY <1>3, <1>6, <3>1, LeaksKept
    <3>2. CASE outcome # "corrupt"
      BY <1>1, <1>3, <1>6, <3>2, ReplaceEarned
    <3> QED BY <3>1, <3>2
  <2>3. CASE outcome = "ok"
    <3>1. err' = FALSE /\ starved \subseteq starved'
      BY <1>6, <2>3 DEF ConsumeString
    <3> QED BY <1>1, <1>2, <1>3, <1>6, <2>1, <2>2, <2>3, <3>1, WrittenKeeps
  <2>4. CASE outcome # "ok"
    BY <1>1, <1>3, <1>6, <2>1, <2>2, <2>4, FailKeeps
  <2> QED BY <2>3, <2>4
<1> QED BY <1>4, <1>5, <1>6 DEF ReadString

-----------------------------------------------------------------------------
(* The other actions.                                                      *)

LEMMA ReadIdKeeps ==
    ASSUME IInv, ReadId
    PROVE  IInv'
<1>1. Handling(IdKeys) /\ Handling(PlainKeys) /\ Reading /\ Top.key # ""
  BY HandlingPlain DEF ReadId, PlainKeys
<1>2. Top.key # "attributes" /\ Top.key \in IdKeys /\ err = FALSE
  BY <1>1, ReadingIs DEF Handling, IdKeys
<1>3. repeats' = repeats /\ UNCHANGED answers
  BY DEF ReadId
<1>4. CASE EndAt("type") \/ WrongType({"string", "nil"}, TRUE)
  BY <1>1, <1>4, EndKeeps, WrongTypeKeeps
<1>5. ASSUME NEW t \in Upcoming, Take(t), Handled, UNCHANGED <<err, trace, lost, starved>>
      PROVE  IInv'
  <2>1. err' = FALSE /\ starved \subseteq starved' /\ UNCHANGED trace /\ lost' = lost
    BY <1>2, <1>5
  <2>2. LeaksAreRepeats'
    BY <1>3, <2>1, LeaksKept
  <2> QED BY <1>1, <1>3, <1>5, <2>1, <2>2, HandledKeeps
<1>6. ASSUME NEW t \in Upcoming, NEW outcome \in Outcomes(t) \ {"ok"},
             ConsumeString(t, outcome, "string"), Fail(outcome), UNCHANGED <<trace, lost>>
      PROVE  IInv'
  <2>1. Take(t) /\ outcome # "ok" /\ lost' = lost
    BY <1>6 DEF ConsumeString
  <2>2. LeaksAreRepeats'
    BY <1>3, <2>1, LeaksKept
  <2> QED BY <1>1, <1>3, <1>6, <2>1, <2>2, FailKeeps
<1>7. ASSUME NEW t \in Upcoming, Take(t), UNCHANGED err,
             IF Top.kind = "link" THEN Overwrite ELSE UNCHANGED lost,
             \/ Fail("corrupt")
             \/ /\ Handled
                /\ \/ Set(Top.kind, Top.key, ctr_id_from_base16(t[2])) /\ UNCHANGED starved
                   \/ Top.kind = "span" /\ Set("span", Top.key, NULL) /\ Starve("id")
      PROVE  IInv'
  <2>1. LeaksAreRepeats'
    <3>1. CASE Top.kind = "link"
      <4>1. Handling(StringKeys \cup IdKeys)
        BY <1>1 DEF Handling
      <4>2. Overwrite
        BY <1>7, <3>1
      <4> QED BY <1>2, <1>3, <3>1, <4>1, <4>2, OverwriteEarned
    <3>2. CASE Top.kind # "link"
      <4>1. lost' = lost
        BY <1>7, <3>2
      <4> QED BY <1>3, <4>1, LeaksKept
    <3> QED BY <3>1, <3>2
  <2>2. CASE Fail("corrupt")
    BY <1>1, <1>3, <1>7, <2>1, <2>2, FailKeeps
  <2>3. ASSUME NEW v, Handled, Set(Top.kind, Top.key, v), starved \subseteq starved'
        PROVE  IInv'
    <3>1. err' = FALSE
      BY <1>2, <1>7
    <3> QED BY <1>1, <1>2, <1>3, <1>7, <2>1, <2>3, <3>1, WrittenKeeps
  <2>4. ASSUME Handled, Set(Top.kind, Top.key, ctr_id_from_base16(t[2])), UNCHANGED starved
        PROVE  IInv'
    BY <2>3, <2>4
  <2>5. ASSUME Handled, Top.kind = "span", Set("span", Top.key, NULL), Starve("id")
        PROVE  IInv'
    <3>1. Set(Top.kind, Top.key, NULL) /\ starved \subseteq starved'
      BY <2>5 DEF Starve
    <3> QED BY <2>3, <2>5, <3>1
  <2> QED BY <1>7, <2>2, <2>4, <2>5
<1> QED BY <1>4, <1>5, <1>6, <1>7 DEF ReadId

\* The sets of attributes that come are no null pointers.
LEMMA AttributesCome ==
    ASSUME IInv, NEW t \in Upcoming, t[1] = "attrs"
    PROVE  t[2] # NULL
<1>1. t \in Offered \cup UNION {Range(b.tokens) : b \in Buffer}
  <2>1. CASE t \in Offered
    BY <2>1
  <2>2. CASE pos < Len(buffer.tokens) /\ t = buffer.tokens[pos + 1]
    <3>1. PICK s : s = buffer.tokens
      OBVIOUS
    <3>2. buffer \in Buffer /\ pos \in Nat /\ s \in Seq(Range(s))
      BY <3>1, AttributesAreThere DEF IInv, Typed
    <3>3. Len(s) \in Nat /\ DOMAIN s = 1..Len(s)
      BY <3>2, LenProperties
    <3>4. pos + 1 \in DOMAIN s
      BY <2>2, <3>1, <3>2, <3>3
    <3>5. t \in Range(s)
      BY <2>2, <3>1, <3>4 DEF Range
    <3> QED BY <3>1, <3>2, <3>5
  <2> QED BY <2>1, <2>2 DEF Upcoming
<1>2. t[2] \in AttributeSet
  BY <1>1, AttributesAreThere
<1> QED BY <1>2, NullIsNoData

\* A crash leaves everything as it is.
LEMMA CrashKeeps ==
    ASSUME IInv, Reading, Crash, NEW t, Take(t), UNCHANGED history,
           starved' \cap {"event attributes", "link attributes", "resource"} # {}
    PROVE  IInv'
<1>1. Typed'
  BY ReaderKeeps DEF IInv, Typed, IsFrame, Crash, history
<1>2. Course' /\ ~Running' /\ CutIsRefused' /\ CrashesAreEarned'
  BY DEF Crash, Course, Running, CutIsRefused, CrashesAreEarned
<1>3. LeaksAreRepeats'
  BY LeaksKept DEF history
<1> QED BY <1>1, <1>2, <1>3 DEF IInv

LEMMA ReadAttributesKeeps ==
    ASSUME IInv, ReadAttributes
    PROVE  IInv'
<1>1. Handling({"attributes"}) /\ Handling(PlainKeys) /\ Reading /\ Top.key # ""
  BY HandlingPlain DEF ReadAttributes, PlainKeys
<1>2. Top.key = "attributes" /\ Top.what = "map" /\ Running /\ stack # <<>> /\ err = FALSE
  BY <1>1, ReadingIs DEF Handling
<1>3. repeats' = repeats /\ lost' = lost /\ UNCHANGED answers /\ UNCHANGED history
  BY DEF ReadAttributes, history
<1>4. LeaksAreRepeats'
  BY <1>3, LeaksKept
<1>5. ASSUME Fail("variant"), UNCHANGED <<buffer, offset, pos>> \/ \E t : Take(t)
      PROVE  IInv'
  BY <1>1, <1>3, <1>4, <1>5, FailKeeps
<1>6. ASSUME NEW t \in Upcoming, Take(t), UNCHANGED err, Handled, UNCHANGED <<trace, starved>>
      PROVE  IInv'
  <2>1. err' = FALSE /\ starved \subseteq starved' /\ UNCHANGED trace
    BY <1>2, <1>6
  <2> QED BY <1>1, <1>3, <1>4, <1>6, <2>1, HandledKeeps
<1>7. ASSUME NEW t \in Upcoming, Take(t), UNCHANGED err, t[1] = "attrs" \/ t = Map(0),
             Set(Top.kind, "attributes", IF t = Map(0) THEN <<>> ELSE t[2]), Handled,
             UNCHANGED starved
      PROVE  IInv'
  <2>1. PICK v : v = IF t = Map(0) THEN <<>> ELSE t[2]
    OBVIOUS
  <2>2. v # NULL
    <3>1. t[1] = "attrs" => t[2] # NULL
      BY AttributesCome
    <3> QED BY <1>7, <2>1, <3>1, EmptyIsNotNull
  <2>3. Set(Top.kind, Top.key, v)
    BY <1>2, <1>7, <2>1
  <2>4. err' = FALSE /\ starved \subseteq starved'
    BY <1>2, <1>7
  <2> QED BY <1>1, <1>3, <1>4, <1>7, <2>2, <2>3, <2>4, WrittenKeeps
<1>8. ASSUME NEW t \in Upcoming, Take(t), Top.kind = "event", Get("event", "attributes") = NULL,
             Crash, UNCHANGED starved
      PROVE  IInv'
  <2>1. IsOpen(9, "event")
    <3>1. Len(stack) \in Nat /\ Top = stack[Len(stack)] /\ Level(Top) = Len(stack)
      BY <1>2, TopFacts
    <3>2. Len(stack) = 9
      BY <1>2, <1>8, <3>1 DEF Level, MapLevel
    <3> QED BY <1>2, <1>8, <3>1, <3>2 DEF IsOpen
  <2>2. Object(trace, "event").attr = NULL
    <3>1. Field("attributes") = "attr"
      BY Zenon DEF Field
    <3> QED BY <1>8, <3>1 DEF Get
  <2>3. "event attributes" \in starved'
    BY <1>2, <1>8, <2>1, <2>2 DEF IInv, Fresh, EventIsThere
  <2>4. starved' \cap {"event attributes", "link attributes", "resource"} # {}
    BY <2>3
  <2> QED BY <1>1, <1>3, <1>8, <2>4, CrashKeeps
<1>9. ASSUME NEW t \in Upcoming, Take(t), Crash, Starve("link attributes")
      PROVE  IInv'
  <2>1. starved' \cap {"event attributes", "link attributes", "resource"} # {}
    BY <1>9 DEF Starve
  <2> QED BY <1>1, <1>3, <1>9, <2>1, CrashKeeps
<1>10. CASE \E t \in Upcoming : Take(t) /\ Fail("variant")
  BY <1>5, <1>10
<1>11. CASE /\ Fail("variant")
            /\ \/ UNCHANGED <<buffer, offset, pos, free, trace, starved>>
               \/ UNCHANGED <<reader, trace>>
  BY <1>5, <1>11 DEF reader
<1> QED BY <1>6, <1>7, <1>8, <1>9, <1>10, <1>11 DEF ReadAttributes

LEMMA ReadScopeKeeps ==
    ASSUME IInv, ReadScope
    PROVE  IInv'
<1>1. Handling({"scope"}) /\ Reading /\ Top.key # "" /\ Running /\ err = FALSE
  BY ReadingIs DEF ReadScope, Handling
<1>2. CASE EndAt("engine") \/ WrongType({"map", "nil"}, FALSE)
  BY <1>1, <1>2, EndKeeps, WrongTypeKeeps
<1>3. ASSUME Fail("memory") \/ Fail("corrupt"), UNCHANGED history,
             UNCHANGED reader \/ \E t : Take(t)
      PROVE  IInv'
  <2>1. LeaksAreRepeats' /\ UNCHANGED answers
    BY <1>3, LeaksKept DEF history
  <2>2. UNCHANGED <<buffer, offset, pos>> \/ \E t : Take(t)
    BY <1>3 DEF reader
  <2> QED BY <1>1, <1>3, <2>1, <2>2, FailKeeps
<1>4. ASSUME NEW t \in Upcoming, Take(t), UNCHANGED <<err, starved, history>>, Handled,
             UNCHANGED trace
      PROVE  IInv'
  <2>1. /\ err' = FALSE /\ starved \subseteq starved' /\ repeats' = repeats /\ lost' = lost
        /\ UNCHANGED answers
    BY <1>1, <1>4 DEF history
  <2>2. LeaksAreRepeats'
    BY <2>1, LeaksKept
  <2> QED BY <1>1, <1>4, <2>1, <2>2, HandledKeeps
<1>5. ASSUME NEW t \in Upcoming, Take(t), UNCHANGED <<err, starved, history>>,
             Set("scope_span", "instrumentation_scope", New.scope),
             stack' = Below \o <<HandledFrame, [Frame("map", "scope") EXCEPT !.left = CountOf(t)]>>,
             UNCHANGED <<call, result>>
      PROVE  IInv'
  <2>1. PICK left : left = CountOf(t)
    OBVIOUS
  <2>2. stack' = Push(HandledFrame, [Frame("map", "scope") EXCEPT !.left = left])
    BY <1>5, <2>1 DEF Push
  <2>3. /\ err' = FALSE /\ repeats' = repeats /\ lost' = lost /\ UNCHANGED answers
        /\ call' = call /\ result' = result
    BY <1>1, <1>5 DEF history
  <2>4. /\ IsList(stack') /\ \A i \in 1..Len(stack') : IsFrame(stack'[i])
        /\ Levels' /\ Open(Len(stack), trace)' /\ Fresh'
    BY <1>1, <1>5, <2>2, <2>3, ScopeEntered
  <2>5. LeaksAreRepeats'
    BY <2>3, LeaksKept
  <2> QED BY <1>1, <1>5, <2>3, <2>4, <2>5, GoesOn
<1>6. CASE Fail("memory") /\ Starve("scope") /\ UNCHANGED <<reader, trace, history>>
  BY <1>3, <1>6
<1>7. CASE \E t \in Upcoming : Take(t) /\ UNCHANGED <<err, starved, history>> /\ Fail("corrupt")
  BY <1>3, <1>7
<1> QED BY <1>2, <1>4, <1>5, <1>6, <1>7 DEF ReadScope

LEMMA NextElementKeeps ==
    ASSUME IInv, NextElement
    PROVE  IInv'
<1>1. /\ Reading /\ Top.what = "array" /\ Running /\ err' = FALSE
      /\ UNCHANGED <<buffer, offset, pos>> /\ UNCHANGED answers
      /\ repeats' = repeats /\ lost' = lost
  BY ReadingIs DEF NextElement, reader, history
<1>2. LeaksAreRepeats'
  BY <1>1, LeaksKept
<1>3. CASE Fail("memory")
  BY <1>1, <1>2, <1>3, FailKeeps
<1>4. ASSUME NEW new, Created(Top.kind, new), Add(Top.kind, new),
             stack' = Below \o <<[Top EXCEPT !.left = @ - 1], Frame("map", Top.kind)>>,
             UNCHANGED <<call, result>>
      PROVE  IInv'
  <2>1. stack' = Push([Top EXCEPT !.left = Top.left - 1], Frame("map", Top.kind))
    BY <1>4 DEF Push
  <2>2. /\ IsList(stack') /\ \A i \in 1..Len(stack') : IsFrame(stack'[i])
        /\ Levels' /\ Open(Len(stack), trace)' /\ Fresh'
    BY <1>1, <1>4, <2>1, ElementAdded
  <2>3. call' = call /\ result' = result
    BY <1>4
  <2> QED BY <1>1, <1>2, <2>2, <2>3, GoesOn
<1>5. CASE /\ stack' = Below \o <<[Top EXCEPT !.left = @ - 1], Frame("map", Top.kind)>>
           /\ UNCHANGED <<call, result>>
           /\ Add(Top.kind, New[Top.kind]) /\ UNCHANGED starved
  <2>1. Created(Top.kind, New[Top.kind])
    BY DEF Created
  <2> QED BY <1>4, <1>5, <2>1
<1>6. CASE /\ stack' = Below \o <<[Top EXCEPT !.left = @ - 1], Frame("map", Top.kind)>>
           /\ UNCHANGED <<call, result>>
           /\ Top.kind = "event" /\ Starve("event attributes")
           /\ Add("event", [New.event EXCEPT !.attr = NULL])
  <2>1. Created(Top.kind, [New.event EXCEPT !.attr = NULL])
    BY <1>6 DEF Created, Starve
  <2>2. Add(Top.kind, [New.event EXCEPT !.attr = NULL])
    BY <1>6
  <2> QED BY <1>4, <1>6, <2>1, <2>2
<1> QED BY <1>3, <1>5, <1>6 DEF NextElement

-----------------------------------------------------------------------------
(* The way out, and the next call.                                         *)

LEMMA UnwindKeeps ==
    ASSUME IInv, Unwind
    PROVE  IInv'
<1>1. /\ call = "reading" /\ result # "ok" /\ stack # <<>> /\ stack' = Below
      /\ UNCHANGED <<buffer, offset, pos>> /\ call' = call /\ result' = result
      /\ lost' = lost /\ repeats' = repeats /\ UNCHANGED answers
  BY DEF Unwind, reader, history
<1>2. IsList(stack) /\ \A i \in 1..Len(stack) : IsFrame(stack[i])
  BY DEF IInv, Typed
<1>3. /\ IsList(stack') /\ Len(stack') = Len(stack) - 1 /\ Len(stack) \in Nat \ {0}
      /\ \A i \in 1..(Len(stack) - 1) : stack'[i] = stack[i]
  BY <1>1, <1>2, FrontFacts, ListFacts DEF Below
<1>4. \A i \in 1..Len(stack') : i \in 1..Len(stack) /\ stack'[i] = stack[i]
  BY <1>3
<1>5. \A i \in 1..Len(stack') : IsFrame(stack'[i])
  BY <1>2, <1>4
<1>6. Typed'
  BY <1>1, <1>3, <1>5, ReaderKeeps DEF IInv, Typed, IsFrame
<1>7. Course' /\ ~Running' /\ CutIsRefused' /\ CrashesAreEarned'
  BY <1>1 DEF Course, Running, CutIsRefused, CrashesAreEarned
<1>8. LeaksAreRepeats'
  BY <1>1, LeaksKept
<1> QED BY <1>6, <1>7, <1>8 DEF IInv

LEMMA ReturnKeeps ==
    ASSUME IInv, Return
    PROVE  IInv'
<1>1. /\ call = "reading" /\ stack = <<>>
      /\ buffer' = buffer /\ pos' = pos /\ err' = err /\ stack' = stack /\ result' = result
      /\ lost' = lost /\ repeats' = repeats
  BY DEF Return
<1>2. offset' \in Nat
  <2>1. PICK s : s = buffer.tokens
    OBVIOUS
  <2>2. s \in Seq(Range(s)) /\ pos \in Nat
    BY <2>1, AttributesAreThere DEF IInv, Typed
  <2>3. Len(s) \in Nat
    BY <2>2, LenProperties
  <2> QED BY <2>1, <2>2, <2>3 DEF Return, NewOffset
<1>3. IsList(answers)
  BY DEF IInv, Typed
<1>4. \A a : IsList(Append(answers, a)) /\ Last(Append(answers, a)) = a
  BY <1>3, ListFacts
<1>5. CASE result = "ok"
  <2>1. /\ answers' = Append(answers, [result |-> "ok", trace |-> trace])
        /\ call' \in {"idle", "stopped"}
    BY <1>5 DEF Return, Answer
  <2>2. err = FALSE
    BY <1>1, <1>5 DEF IInv, Course
  <2>3. IsList(answers')
    BY <1>4, <2>1
  <2> QED BY <1>1, <1>2, <1>5, <2>1, <2>2, <2>3
          DEF IInv, Typed, IsFrame, Course, Running, CutIsRefused, LeaksAreRepeats, CrashesAreEarned
<1>6. CASE result # "ok" /\ "resource" \in starved
  <2>1. call' = "crashed" /\ answers' = answers /\ starved' = starved
    BY <1>6 DEF Return
  <2>2. CrashesAreEarned'
    BY <1>6, <2>1 DEF CrashesAreEarned
  <2> QED BY <1>1, <1>2, <1>3, <2>1, <2>2
          DEF IInv, Typed, IsFrame, Course, Running, CutIsRefused, LeaksAreRepeats
<1>7. CASE result # "ok" /\ "resource" \notin starved
  <2>1. call' = "stopped" /\ answers' = Append(answers, [result |-> result, trace |-> NULL])
    BY <1>7 DEF Return, Answer
  <2>2. IsList(answers') /\ Last(answers').result = result
    BY <1>4, <2>1
  <2>3. CutIsRefused'
    BY <1>7, <2>2 DEF CutIsRefused
  <2> QED BY <1>1, <1>2, <1>7, <2>1, <2>2, <2>3
          DEF IInv, Typed, IsFrame, Course, Running, LeaksAreRepeats, CrashesAreEarned
<1> QED BY <1>5, <1>6, <1>7

LEMMA CallKeeps ==
    ASSUME IInv, Call
    PROVE  IInv'
<1>1. call = "idle" /\ buffer' = buffer /\ offset' = offset /\ lost' = lost /\ repeats' = repeats
  BY DEF Call
<1>2. LeaksAreRepeats'
  BY <1>1, LeaksKept
<1>3. CASE /\ call' = "reading" /\ result' = "ok" /\ trace' = <<>>
           /\ pos' = offset /\ err' = FALSE
           /\ stack' = <<Frame("map", "context")>>
           /\ UNCHANGED <<starved, answers>>
  <2>1. PICK f : f = Frame("map", "context")
    OBVIOUS
  <2>2. IsFrame(f) /\ f.key = "" /\ Level(f) = 1
    <3>1. f = [what |-> "map", kind |-> "context", left |-> Unopened, key |-> "", keys |-> {}]
      BY <2>1 DEF Frame
    <3>2. "context" \in DOMAIN MapLevel
      BY DEF MapLevel
    <3>3. IsFrame(f)
      BY <3>1, <3>2, NewFrames
    <3> QED BY <3>1, <3>3 DEF Level, MapLevel
  <2>3. stack' = <<f>>
    BY <1>3, <2>1
  <2>4. Len(stack') = 1 /\ stack'[1] = f /\ IsList(stack')
    <3>1. <<f>> \in Seq({f})
      OBVIOUS
    <3> QED BY <2>3, <3>1 DEF IsList
  <2>5. Levels' /\ \A i \in 1..Len(stack') : IsFrame(stack'[i])
    <3>1. \A i \in 1..Len(stack') : i = 1
      BY <2>4
    <3> QED BY <2>2, <2>4, <3>1 DEF Levels
  <2>6. Open(Len(stack), trace)'
    <3>1. Open(1, <<>>)
      BY EmptyIsList DEF Open
    <3> QED BY <1>3, <2>4, <3>1
  <2>7. \A i \in {6, 7, 8, 9} : \A kind : ~IsOpen(i, kind)'
    BY <2>4 DEF IsOpen
  <2>8. Fresh'
    BY <2>7 DEF Fresh, ScopeIsFresh, SpanIsFresh, StatusIsFresh, EventIsThere, LinkIsFresh
  <2>9. Typed'
    BY <1>1, <1>3, <2>4, <2>5 DEF IInv, Typed
  <2>10. Course' /\ CutIsRefused' /\ CrashesAreEarned'
    BY <1>3 DEF Course, CutIsRefused, CrashesAreEarned
  <2> QED BY <1>2, <2>5, <2>6, <2>8, <2>9, <2>10 DEF IInv
<1>4. CASE /\ call' = "stopped" /\ Answer("none", NULL)
           /\ UNCHANGED <<pos, err, stack, trace, result>>
  <2>1. IsList(answers') /\ Last(answers').result = "none"
    BY <1>4, ListFacts DEF IInv, Typed, Answer
  <2>2. Typed'
    BY <1>1, <1>4, <2>1 DEF IInv, Typed, IsFrame
  <2>3. Course' /\ ~Running' /\ CutIsRefused' /\ CrashesAreEarned'
    BY <1>4, <2>1 DEF Course, Running, CutIsRefused, CrashesAreEarned
  <2> QED BY <1>2, <2>2, <2>3 DEF IInv
<1> QED BY <1>3, <1>4 DEF Call

-----------------------------------------------------------------------------
(* The theorems.                                                           *)

LEMMA InitHolds ==
    ASSUME Init
    PROVE  IInv
<1>1. IsList(stack) /\ IsList(answers) /\ Len(stack) = 0
  BY EmptyIsList DEF Init
<1>2. Typed
  BY <1>1 DEF Init, Typed
<1>3. Course /\ ~Running /\ CutIsRefused /\ LeaksAreRepeats /\ CrashesAreEarned
  BY DEF Init, Course, Running, CutIsRefused, LeaksAreRepeats, CrashesAreEarned
<1> QED BY <1>2, <1>3 DEF IInv

LEMMA StepKeeps ==
    ASSUME IInv, [Next]_vars
    PROVE  IInv'
<1>1. CASE Next
  BY <1>1, CallKeeps, OpenKeeps, CloseKeeps, ReadKeyKeeps, ReadNumberKeeps, ReadStringKeeps,
     ReadIdKeeps, ReadAttributesKeeps, EnterKeeps, ReadScopeKeeps, NextElementKeeps,
     UnwindKeeps, ReturnKeeps DEF Next
<1>2. CASE UNCHANGED vars
  <2>1. UNCHANGED <<buffer, offset, pos, err, call, stack, trace, result, lost, repeats, starved,
                    answers>>
    BY <1>2 DEF vars
  <2>2. Typed'
    BY <2>1 DEF IInv, Typed, IsFrame
  <2>3. Course' /\ CutIsRefused' /\ LeaksAreRepeats' /\ CrashesAreEarned'
    BY <2>1 DEF IInv, Course, CutIsRefused, LeaksAreRepeats, CrashesAreEarned
  <2>4. Running' => Levels' /\ Open(Len(stack), trace)'
    BY <2>1 DEF IInv, Running, Levels
  <2>5. Running' => Fresh'
    <3>1. Fresh' = Fresh
      BY <2>1 DEF Fresh, ScopeIsFresh, SpanIsFresh, StatusIsFresh, EventIsThere, LinkIsFresh,
                  IsOpen, Came
    <3> QED BY <2>1, <3>1 DEF IInv, Running
  <2> QED BY <2>2, <2>3, <2>4, <2>5 DEF IInv
<1> QED BY <1>1, <1>2

\* While a call goes on, the stack of maps and arrays is a path of the grammar
\* of messages (ctr_decode_msgpack.c), the structures that its depth asks for
\* are there, and whatever can be overwritten is NULL until its key has come.
THEOREM AlwaysIInv == Spec => []IInv
<1>1. Init => IInv
  BY InitHolds
<1>2. IInv /\ [Next]_vars => IInv'
  BY StepKeeps
<1> QED BY <1>1, <1>2, PTL DEF Spec

\* No end that is missing is taken for a message, wherever any buffer is cut and
\* whatever fails: mpack_reader_error is looked at after every map and array.
THEOREM CutsAreRefused == Spec => []CutIsRefused
<1>1. IInv => CutIsRefused
  BY DEF IInv
<1> QED BY <1>1, AlwaysIInv, PTL

\* Only a key that comes twice in one map makes a handler of
\* ctr_decode_msgpack.c overwrite a pointer that it does not free.
THEOREM OnlyRepeatsLeak == Spec => []LeaksAreRepeats
<1>1. IInv => LeaksAreRepeats
  BY DEF IInv
<1> QED BY <1>1, AlwaysIInv, PTL

\* However many allocations fail, only three of them bring the decoder down.
THEOREM ThreeAllocationsCrash == Spec => []CrashesAreEarned
<1>1. IInv => CrashesAreEarned
  BY DEF IInv
<1> QED BY <1>1, AlwaysIInv, PTL
=============================================================================
