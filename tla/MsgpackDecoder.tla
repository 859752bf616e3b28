---------------------------- MODULE MsgpackDecoder ----------------------------
(***************************************************************************)
(* ctr_decode_msgpack_create step by step: the recursion of                *)
(* ctr_mpack_unpack_map, ctr_mpack_unpack_array and the handlers of        *)
(* ctr_decode_msgpack.c over the tokens of a buffer, the context that      *)
(* grows meanwhile, and the caller that goes on while there are messages   *)
(* in the buffer.                                                          *)
(*                                                                         *)
(* At any token the buffer may turn into something else: up to MaxFree     *)
(* tokens of Offered come instead, and then its end.  Every allocation may *)
(* fail; starved is the set of those that did.                             *)
(***************************************************************************)
EXTENDS MsgpackTokens

CONSTANTS
    Buffer,     \* records [tokens, expected], expected the contexts or NULL for a foreign one
    Offered,    \* the tokens that may come instead
    MaxFree,    \* how many of them
    MaxMap, MaxArray,   \* CTR_MPACK_MAX_MAP_ENTRY_COUNT and _ARRAY_ENTRY_COUNT
    Word, LongWord,     \* the numbers of uint32_t and of uint64_t
    MaxCalls,           \* bound: the calls for one buffer, no fewer than it has messages
    Now                 \* the clock

ASSUME WordsAreEven == Word % 2 = 0 /\ Word < LongWord
ASSUME AttributesAreThere ==
    /\ \A b \in Buffer : b.tokens \in Seq(Range(b.tokens))
    /\ \A t \in Offered \cup UNION {Range(b.tokens) : b \in Buffer} :
          t[1] = "attrs" => t[2] \in AttributeSet

VARIABLES
    buffer, offset, pos,    \* the buffer; where a call starts; the tokens read
    free,       \* how many came from elsewhere
    err,        \* the sticky error of the reader
    call,       \* "idle", "reading", "stopped" or "crashed"
    stack,      \* the maps and arrays being read, the innermost last
    trace,      \* the context of this call
    result,     \* "ok" or what went wrong
    lost,       \* the pointers overwritten, as pairs of a map and a key
    repeats,    \* the keys that came again in one map, likewise
    starved,    \* what got no memory
    answers     \* of the calls so far, [result, trace]

vars == <<buffer, offset, pos, free, err, call, stack, trace, result, lost, repeats, starved, answers>>

reader == <<buffer, offset, pos, free, err>>
history == <<lost, repeats, answers>>

\* left is Unopened until the tag is read; the keys that came are a history.
Unopened == -1
Frame(what, kind) == [what |-> what, kind |-> kind, left |-> Unopened, key |-> "", keys |-> {}]

Top == Last(stack)
Below == Front(stack)

-----------------------------------------------------------------------------
(* The context: each object that is read is the last one of its list.      *)

Container ==
    [scope_span |-> <<"resource_span", "scope_spans">>, span |-> <<"scope_span", "spans">>,
     event |-> <<"span", "events">>, link |-> <<"span", "links">>]

Object(ctx, kind) ==
    LET r == Last(ctx)
        s == Last(r.scope_spans)
        p == Last(s.spans)
    IN  CASE kind = "resource_span" -> r
          [] kind = "resource"      -> r.resource
          [] kind = "scope_span"    -> s
          [] kind = "scope"         -> s.instrumentation_scope
          [] kind = "span"          -> p
          [] kind = "status"        -> p.status
          [] kind = "event"         -> Last(p.events)
          [] kind = "link"          -> Last(p.links)

WithLast(list, new) == [list EXCEPT ![Len(list)] = new]

WithScopeSpan(ctx, new) ==
    LET r == Object(ctx, "resource_span")
    IN  WithLast(ctx, [r EXCEPT !.scope_spans = WithLast(r.scope_spans, new)])

WithSpan(ctx, new) ==
    LET s == Object(ctx, "scope_span")
    IN  WithScopeSpan(ctx, [s EXCEPT !.spans = WithLast(s.spans, new)])

\* The context with that object replaced.
With(ctx, kind, new) ==
    LET r == Object(ctx, "resource_span")
        s == Object(ctx, "scope_span")
        p == Object(ctx, "span")
    IN  CASE kind = "resource_span" -> WithLast(ctx, new)
          [] kind = "resource"      -> WithLast(ctx, [r EXCEPT !.resource = new])
          [] kind = "scope_span"    -> WithScopeSpan(ctx, new)
          [] kind = "scope"         -> WithScopeSpan(ctx, [s EXCEPT !.instrumentation_scope = new])
          [] kind = "span"          -> WithSpan(ctx, new)
          [] kind = "status"        -> WithSpan(ctx, [p EXCEPT !.status = new])
          [] kind = "event"         -> WithSpan(ctx, [p EXCEPT !.events = WithLast(p.events, new)])
          [] kind = "link"          -> WithSpan(ctx, [p EXCEPT !.links = WithLast(p.links, new)])

\* The list of the objects of a kind, and the context with that list replaced.
List(ctx, kind) ==
    IF kind = "resource_span" THEN ctx
    ELSE Object(ctx, Container[kind][1])[Container[kind][2]]

WithList(ctx, kind, list) ==
    IF kind = "resource_span" THEN list
    ELSE With(ctx, Container[kind][1],
              [Object(ctx, Container[kind][1]) EXCEPT ![Container[kind][2]] = list])

\* The fields of a structure are named as the keys, two apart.
Field(key) ==
    CASE key = "attributes" -> "attr"
      [] key = "dropped_attributes_count" -> "dropped_attr_count"
      [] OTHER -> key

Get(kind, key) == Object(trace, kind)[Field(key)]
Set(kind, key, v) == trace' = With(trace, kind, [Object(trace, kind) EXCEPT ![Field(key)] = v])

\* Mutant: an event is created without a set, as a link is.
NoAttributes == NULL

NewAttributes == <<>>

\* What the constructors make, with the arguments that the decoder gives them.
New ==
    [resource_span |-> [resource |-> [attr |-> <<>>, dropped_attr_count |-> 0],
                        schema_url |-> NULL, scope_spans |-> <<>>],
     scope_span    |-> [instrumentation_scope |-> NULL, schema_url |-> NULL, spans |-> <<>>],
     scope         |-> [name |-> NULL, version |-> NULL, attr |-> NULL, dropped_attr_count |-> 0],
     span          |-> [trace_id |-> NULL, span_id |-> NULL, parent_span_id |-> NULL,
                        trace_state |-> NULL, name |-> "", schema_url |-> NULL,
                        kind |-> CTRACE_SPAN_INTERNAL, flags |-> 0,
                        start_time_unix_nano |-> Now, end_time_unix_nano |-> 0,
                        attr |-> <<>>, dropped_attr_count |-> 0,
                        events |-> <<>>, dropped_events_count |-> 0,
                        links |-> <<>>, dropped_links_count |-> 0,
                        status |-> [code |-> 0, message |-> NULL]],
     event         |-> [name |-> "", time_unix_nano |-> Now, attr |-> NewAttributes,
                        dropped_attr_count |-> 0],
     link          |-> [trace_id |-> NULL, span_id |-> NULL, trace_state |-> NULL, attr |-> NULL,
                        dropped_attr_count |-> 0, flags |-> 0]]

-----------------------------------------------------------------------------
(* The reader.                                                             *)

Upcoming == IF err THEN {} ELSE
    (IF free = 0 /\ pos < Len(buffer.tokens) THEN {buffer.tokens[pos + 1]} ELSE {})
    \cup (IF free < MaxFree THEN Offered ELSE {})

OnScript(t) == free = 0 /\ pos < Len(buffer.tokens) /\ t = buffer.tokens[pos + 1]

\* mpack_read_tag, and the bytes of the string that follow.
Take(t) ==
    /\ IF OnScript(t) THEN pos' = pos + 1 /\ UNCHANGED free ELSE free' = free + 1 /\ UNCHANGED pos
    /\ UNCHANGED <<buffer, offset>>

TypeOf(t) == IF t[1] \in StringTypes THEN "string"
             ELSE IF t[1] \in {"attrs", "badattrs"} THEN "map" ELSE t[1]

\* The number of entries that a map token announces.
CountOf(t) == IF t[1] = "map" THEN t[2] ELSE Len(t[2])

Reading == call = "reading" /\ result = "ok" /\ stack # <<>>

Fail(why) == result' = why /\ UNCHANGED <<call, stack>>
Starve(what) == starved' = starved \cup {what}

\* The buffer ends before the tag, or where no tag may begin.
EndAt(why) ==
    /\ err' = TRUE /\ Fail(why)
    /\ UNCHANGED <<buffer, offset, pos, free, trace, starved, history>>

\* A tag of another type than the one that is asked for; peeked at or read.
WrongType(type, peeked) ==
    \E t \in Upcoming :
        /\ TypeOf(t) \notin type
        /\ IF peeked /\ OnScript(t) THEN UNCHANGED reader ELSE Take(t) /\ UNCHANGED err
        /\ Fail("type")
        /\ UNCHANGED <<trace, starved, history>>

-----------------------------------------------------------------------------
(* ctr_mpack_unpack_map and ctr_mpack_unpack_array.                        *)

Opening(what) == Reading /\ Top.what = what /\ Top.left = Unopened

\* Mutant: one element of an array is left unread.
OneLess(count) == IF count > 1 THEN count - 1 ELSE count

ElementsToRead(count) == count

Opened(t, limit, count) ==
    /\ Take(t) /\ UNCHANGED err
    /\ IF count > limit
       THEN Fail("corrupt")
       ELSE stack' = Append(Below, [Top EXCEPT !.left = count]) /\ UNCHANGED <<call, result>>
    /\ UNCHANGED <<trace, starved, history>>

OpenMap ==
    /\ Opening("map")
    /\ \/ \E t \in Upcoming : TypeOf(t) = "map" /\ Opened(t, MaxMap, CountOf(t))
       \/ EndAt("engine")
       \/ WrongType({"map"}, FALSE)

OpenArray ==
    /\ Opening("array")
    /\ \/ \E t \in Upcoming : t[1] = "array" /\ Opened(t, MaxArray, ElementsToRead(t[2]))
       \/ EndAt("engine")
       \/ WrongType({"array"}, FALSE)

\* mpack_done_map and mpack_done_array find no error.
Close ==
    /\ Reading /\ Top.left = 0
    /\ stack' = Below
    /\ UNCHANGED <<reader, call, trace, result, starved, history>>

InMap(kind) == Reading /\ Top.what = "map" /\ Top.kind = kind /\ Top.left > 0

\* What comes of the string after its tag (ctr_mpack_consume_string_tag).
Outcomes(t) ==
    CASE t[1] = "long" -> {"corrupt"}
      [] t[1] = "torn" -> {"memory", "engine"}
      [] OTHER         -> {"memory", "ok"}

ConsumeString(t, outcome, what) ==
    /\ outcome \in Outcomes(t)
    /\ Take(t)
    /\ err' = (outcome = "engine")
    /\ starved' = IF outcome = "memory" THEN starved \cup {what} ELSE starved

\* Digits or a key where any string will do are one more of them.
TextOf(t) == IF t[1] = "str" THEN t[2] ELSE CHOOSE string \in Text : TRUE

IsKey(t) == t[1] = "key" /\ t[2] \in Range(Entries[Top.kind])

ReadKey ==
    /\ Reading /\ Top.what = "map" /\ Top.left > 0 /\ Top.key = ""
    /\ \/ EndAt("engine")
       \/ WrongType({"string"}, FALSE)
       \/ \E t \in Upcoming, outcome \in {"ok", "memory", "engine", "corrupt"} :
            /\ TypeOf(t) = "string"
            /\ ConsumeString(t, outcome, "key")
            /\ IF outcome = "ok" /\ IsKey(t)
               THEN /\ stack' = Append(Below, [Top EXCEPT !.key = t[2], !.keys = @ \cup {t[2]}])
                    /\ repeats' = IF t[2] \in Top.keys THEN repeats \cup {<<Top.kind, t[2]>>}
                                  ELSE repeats
                    /\ UNCHANGED <<call, result>>
               ELSE Fail(IF outcome = "ok" THEN "key" ELSE outcome) /\ UNCHANGED repeats
            /\ UNCHANGED <<trace, lost, answers>>

-----------------------------------------------------------------------------
(* The handlers of ctr_decode_msgpack.c.                                   *)

Handling(keys) == Reading /\ Top.what = "map" /\ Top.left > 0 /\ Top.key \in keys

\* The handler returned without an error.
HandledFrame == [Top EXCEPT !.left = @ - 1, !.key = ""]
Handled == stack' = Append(Below, HandledFrame) /\ UNCHANGED <<call, result>>

AsUint(n, words) == n % words
AsInt32(n) == ((n + Word \div 2) % Word) - Word \div 2

\* Of either sign, and any size: ctr_mpack_consume_uint32_tag and its like cut it.
Cut(key, n) ==
    CASE key \in {"kind", "code"} -> AsInt32(n)
      [] key \in {"time_unix_nano", "start_time_unix_nano", "end_time_unix_nano"} -> AsUint(n, LongWord)
      [] OTHER -> AsUint(n, Word)

\* Mutant: the error of the reader is not looked at.
EndUnseen(why) ==
    /\ err' = TRUE /\ Handled
    /\ UNCHANGED <<buffer, offset, pos, free, trace, starved, history>>

EndAtNumber(why) == EndAt(why)

ReadNumber ==
    /\ Handling(NumberKeys)
    /\ \/ EndAtNumber("engine")
       \/ WrongType({"num"}, FALSE)
       \/ \E t \in Upcoming :
            /\ t[1] = "num" /\ Take(t)
            /\ Set(Top.kind, Top.key, Cut(Top.key, t[2]))
            /\ Handled
            /\ UNCHANGED <<err, starved, history>>

\* Mutant: the name of a span is not freed before.
FreedButOne == {<<"span", "trace_state">>, <<"event", "name">>, <<"scope_span", "schema_url">>,
                <<"resource_span", "schema_url">>}

\* The handlers that free the old string; the others overwrite the pointer.
FreedFirst == {<<"span", "trace_state">>, <<"span", "name">>, <<"event", "name">>,
               <<"scope_span", "schema_url">>, <<"resource_span", "schema_url">>}

Overwrite == lost' = IF Get(Top.kind, Top.key) = NULL THEN lost
                     ELSE lost \cup {<<Top.kind, Top.key>>}

Replace == IF <<Top.kind, Top.key>> \in FreedFirst THEN UNCHANGED lost ELSE Overwrite

ReadString ==
    /\ Handling(StringKeys)
    /\ \/ EndAt("type")
       \/ WrongType({"string", "nil"}, TRUE)
       \/ \E t \in Upcoming :
            \/ /\ t = Nil /\ Take(t) /\ Replace
               /\ Set(Top.kind, Top.key, NULL)
               /\ Handled
               /\ UNCHANGED <<err, starved>>
            \/ /\ TypeOf(t) = "string"
               /\ \E outcome \in Outcomes(t) :
                    /\ ConsumeString(t, outcome, "string")
                    /\ IF outcome = "corrupt" THEN UNCHANGED lost ELSE Replace
                    /\ IF outcome = "ok" THEN Set(Top.kind, Top.key, TextOf(t)) /\ Handled
                                         ELSE Fail(outcome) /\ UNCHANGED trace
    /\ UNCHANGED <<repeats, answers>>

Readable(t) == t[1] = "id" /\ ctr_id_from_base16(t[2]) # NULL

\* A span copies the identifier that was read, and does not notice when there is
\* no memory for the copy; a link takes it over, and the old one is forgotten.
ReadId ==
    /\ Handling(IdKeys)
    /\ \/ EndAt("type")
       \/ WrongType({"string", "nil"}, TRUE)
       \/ \E t \in Upcoming :
            \/ /\ t = Nil /\ Take(t) /\ Handled
               /\ UNCHANGED <<err, trace, lost, starved>>
            \/ /\ TypeOf(t) = "string"
               /\ \E outcome \in Outcomes(t) \ {"ok"} :
                    ConsumeString(t, outcome, "string") /\ Fail(outcome)
               /\ UNCHANGED <<trace, lost>>
            \/ /\ TypeOf(t) = "string" /\ "ok" \in Outcomes(t) /\ Take(t) /\ UNCHANGED err
               /\ IF Top.kind = "link" THEN Overwrite ELSE UNCHANGED lost
               /\ \/ /\ Fail("corrupt") /\ UNCHANGED trace
                     /\ IF Readable(t) THEN Starve("string") ELSE UNCHANGED starved
                  \/ /\ Readable(t) /\ Handled
                     /\ \/ Set(Top.kind, Top.key, ctr_id_from_base16(t[2])) /\ UNCHANGED starved
                        \/ Top.kind = "span" /\ Set("span", Top.key, NULL) /\ Starve("id")
    /\ UNCHANGED <<repeats, answers>>

Crash == call' = "crashed" /\ UNCHANGED <<stack, trace, result>>

\* The new list replaces that of the structure.  An event may have none to
\* replace, and a link has to create one: both are used without a look.
ReadAttributes ==
    /\ Handling({"attributes"})
    /\ UNCHANGED history
    /\ \/ /\ err' = TRUE /\ Fail("variant") /\ UNCHANGED <<buffer, offset, pos, free, trace, starved>>
       \/ /\ Fail("variant") /\ Starve("attributes") /\ UNCHANGED <<reader, trace>>
       \/ \E t \in Upcoming :
            /\ Take(t)
            /\ UNCHANGED err
            /\ \/ t = Nil /\ Handled /\ UNCHANGED <<trace, starved>>
               \/ /\ t # Nil /\ t[1] # "attrs" /\ t # Map(0)
                  /\ Fail("variant") /\ UNCHANGED <<trace, starved>>
               \/ /\ t[1] = "attrs" \/ t = Map(0)
                  /\ \/ /\ Top.kind = "event" => Get("event", "attributes") # NULL
                        /\ Set(Top.kind, "attributes", IF t = Map(0) THEN <<>> ELSE t[2])
                        /\ Handled /\ UNCHANGED starved
                     \/ /\ Top.kind = "event" /\ Get("event", "attributes") = NULL
                        /\ Crash /\ UNCHANGED starved
                     \/ /\ Top.kind = "link" /\ Get("link", "attributes") = NULL
                        /\ Crash /\ Starve("link attributes")

\* unpack_resource and unpack_span_status.
EnterMap ==
    /\ Handling({"resource", "status"})
    /\ stack' = Below \o <<HandledFrame, Frame("map", Top.key)>>
    /\ UNCHANGED <<reader, call, trace, result, starved, history>>

\* A scope that came before is destroyed by ctr_scope_span_set_instrumentation_scope.
ReadScope ==
    /\ Handling({"scope"})
    /\ \/ EndAt("engine")
       \/ WrongType({"map", "nil"}, FALSE)
       \/ Fail("memory") /\ Starve("scope") /\ UNCHANGED <<reader, trace, history>>
       \/ \E t \in Upcoming :
            /\ Take(t)
            /\ UNCHANGED <<err, starved, history>>
            /\ \/ t = Nil /\ Handled /\ UNCHANGED trace
               \/ /\ TypeOf(t) = "map" /\ CountOf(t) > MaxMap
                  /\ Fail("corrupt") /\ UNCHANGED trace
               \/ /\ TypeOf(t) = "map" /\ CountOf(t) <= MaxMap
                  /\ Set("scope_span", "instrumentation_scope", New.scope)
                  /\ stack' = Below \o <<HandledFrame, [Frame("map", "scope") EXCEPT !.left = CountOf(t)]>>
                  /\ UNCHANGED <<call, result>>

EnterArray ==
    /\ Handling(ArrayKeys)
    /\ stack' = Below \o <<HandledFrame, Frame("array", Element[Top.key])>>
    /\ UNCHANGED <<reader, call, trace, result, starved, history>>

Add(kind, new) == trace' = WithList(trace, kind, Append(List(trace, kind), new))

\* The structure for the next element; an event may come without attributes, and
\* a resource span that gets no resource stays in the context's list.
NextElement ==
    /\ Reading /\ Top.what = "array" /\ Top.left > 0
    /\ UNCHANGED <<reader, history>>
    /\ \/ /\ Fail("memory") /\ UNCHANGED trace
          /\ \/ Starve(Top.kind)
             \/ Top.kind = "resource_span" /\ Starve("resource")
       \/ /\ stack' = Below \o <<[Top EXCEPT !.left = @ - 1], Frame("map", Top.kind)>>
          /\ UNCHANGED <<call, result>>
          /\ \/ Add(Top.kind, New[Top.kind]) /\ UNCHANGED starved
             \/ /\ Top.kind = "event" /\ Starve("event attributes")
                /\ Add("event", [New.event EXCEPT !.attr = NULL])

-----------------------------------------------------------------------------
(* The way out.                                                            *)

\* Spans, scope spans and scopes are destroyed by the handler that created them.
Unwind ==
    /\ call = "reading" /\ result # "ok" /\ stack # <<>>
    /\ stack' = Below
    /\ trace' = CASE Top.what = "map" /\ Top.kind \in {"span", "scope_span"} ->
                        WithList(trace, Top.kind, Front(List(trace, Top.kind)))
                  [] Top.what = "map" /\ Top.kind = "scope" ->
                        With(trace, "scope_span",
                             [Object(trace, "scope_span") EXCEPT !.instrumentation_scope = NULL])
                  [] OTHER -> trace
    /\ UNCHANGED <<reader, call, result, starved, history>>

Answer(r, ctx) == answers' = Append(answers, [result |-> r, trace |-> ctx])

\* Mutant: the call leaves the offset where it was.
Stays == offset

\* What remains in the buffer is nothing once the reader has failed.
NewOffset == IF err THEN Len(buffer.tokens) ELSE pos

Return ==
    /\ call = "reading" /\ stack = <<>>
    /\ UNCHANGED <<buffer, pos, free, err, stack, result, lost, repeats, starved>>
    /\ offset' = NewOffset
    /\ IF result = "ok"
       THEN /\ Answer("ok", trace)
            /\ call' = IF free = 0 /\ offset' < Len(buffer.tokens) THEN "idle" ELSE "stopped"
            /\ UNCHANGED trace
       ELSE /\ trace' = NULL
            /\ IF "resource" \in starved THEN call' = "crashed" /\ UNCHANGED answers
                                         ELSE call' = "stopped" /\ Answer(result, NULL)

\* The caller has a buffer that holds more.
Call ==
    /\ call = "idle" /\ Len(answers) < MaxCalls
    /\ UNCHANGED <<buffer, offset, free, lost, repeats>>
    /\ \/ /\ call' = "reading" /\ result' = "ok" /\ trace' = <<>>
          /\ pos' = offset /\ err' = FALSE
          /\ stack' = <<Frame("map", "context")>>
          /\ UNCHANGED <<starved, answers>>
       \/ /\ call' = "stopped" /\ Starve("trace") /\ Answer("none", NULL)
          /\ UNCHANGED <<pos, err, stack, trace, result>>

Init ==
    /\ buffer \in Buffer
    /\ offset = 0 /\ pos = 0 /\ free = 0 /\ err = FALSE
    /\ call = "idle" /\ stack = <<>> /\ trace = NULL /\ result = "ok"
    /\ lost = {} /\ repeats = {} /\ starved = {} /\ answers = <<>>

Next ==
    \/ Call \/ OpenMap \/ OpenArray \/ Close \/ ReadKey
    \/ ReadNumber \/ ReadString \/ ReadId \/ ReadAttributes
    \/ EnterMap \/ ReadScope \/ EnterArray \/ NextElement
    \/ Unwind \/ Return

\* A call waits for nothing, and its caller does not stop in the middle of a buffer.
Spec == Init /\ [][Next]_vars /\ WF_vars(Next)

-----------------------------------------------------------------------------
(* Properties.                                                             *)

Ended == call \in {"stopped", "crashed"}

\* Without the identifiers of the spans.
NoIdsInSpan(p) == [p EXCEPT !.trace_id = NULL, !.span_id = NULL, !.parent_span_id = NULL]

NoIdsInScope(s) == [s EXCEPT !.spans = [i \in DOMAIN @ |-> NoIdsInSpan(@[i])]]

NoIdsBelow(r) == [r EXCEPT !.scope_spans = [i \in DOMAIN @ |-> NoIdsInScope(@[i])]]

NoIds(ctx) == [i \in DOMAIN ctx |-> NoIdsBelow(ctx[i])]

\* The messages of the encoder, one after another in the buffer, whatever the
\* order of their keys, come back each as the functional translation of
\* MsgpackCodec has it: none is refused but for a limit, for memory or for its
\* end that is missing, and memory can only cost the identifiers of spans.
OwnComeBack ==
    buffer.expected # NULL /\ free = 0 =>
        \A i \in DOMAIN answers :
            LET expected == buffer.expected[i]
            IN  IF answers[i].result = "ok"
                THEN /\ expected # NULL
                     /\ starved = {} => answers[i].trace = expected
                     /\ NoIds(answers[i].trace) = NoIds(expected)
                ELSE expected = NULL \/ starved # {} \/ (err /\ i = Len(answers))

\* A message whose end is missing is refused, wherever it was cut and whatever
\* came before the cut.
CutIsRefused == call = "stopped" /\ err => Last(answers).result # "ok"

\* A pointer is overwritten only where a map of another program has a key twice
\* (or a span a second status); never in a string that the constructor made.
LeaksAreRepeats ==
    \A l \in lost : l \in repeats \/ (l = <<"status", "message">> /\ <<"span", "status">> \in repeats)

\* The decoder crashes only where the attributes of an event, those of a link or
\* the resource of a resource span got no memory.
CrashesAreEarned ==
    call = "crashed" => starved \cap {"event attributes", "link attributes", "resource"} # {}

\* A caller that calls as long as there is something in the buffer comes to an
\* end of it, or to a refusal, and needs no more than MaxCalls calls for that.
CallerEnds == <>Ended

=============================================================================
