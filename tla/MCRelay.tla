------------------------------ MODULE MCRelay ------------------------------
(* Constants for model checking Relay: contexts and messages that differ   *)
(* where the codecs do.                                                    *)
EXTENDS Relay, TLC

CONSTANTS text, short, other, long  \* a string; two keys that fit, one that does not

Attr(key, value) == [key |-> key, value |-> value]

Plain  == <<Attr(short, "plain")>>
Bytes  == <<Attr(short, "plain"), Attr(other, "bytes")>>
Nested == <<Attr(other, "nested")>>
Long   == <<Attr(long, "plain")>>

-----------------------------------------------------------------------------
(* Contexts.                                                               *)

E(attr) == [name |-> text, time_unix_nano |-> 3, attr |-> attr, dropped_attr_count |-> 1]

L(attr) == [trace_id |-> <<255>>, span_id |-> NULL, trace_state |-> text,
            attr |-> attr, dropped_attr_count |-> 2, flags |-> 1]

Root ==
    [trace_id |-> <<1, 160>>, span_id |-> <<18>>, parent_span_id |-> NULL,
     trace_state |-> NULL, name |-> text, schema_url |-> NULL,
     kind |-> CTRACE_SPAN_CONSUMER, flags |-> 1, start_time_unix_nano |-> 2,
     end_time_unix_nano |-> 5, attr |-> Plain, dropped_attr_count |-> 1,
     events |-> <<>>, dropped_events_count |-> 1, links |-> <<>>,
     dropped_links_count |-> 1, status |-> [code |-> 0, message |-> NULL]]

Child ==
    [Root EXCEPT !.span_id = <<16, 0>>, !.parent_span_id = <<18>>, !.trace_state = "",
                 !.schema_url = text, !.kind = CTRACE_SPAN_UNSPECIFIED, !.flags = 0,
                 !.status = [code |-> 2, message |-> text], !.attr = <<>>]

\* A span is created without identifiers, and with a time that is set later.
Bare ==
    [Root EXCEPT !.trace_id = NULL, !.span_id = NULL, !.end_time_unix_nano = 0,
                 !.name = "", !.trace_state = text]

Spans ==
    {Root, Child, Bare} \cup
    {[Root EXCEPT !.attr = a, !.events = e, !.links = l] :
        a \in {Plain, Bytes, Nested},
        e \in {<<>>, <<E(<<>>), E(Nested)>>, <<E(Plain), E(Bytes), E(<<>>)>>, <<E(Bytes), E(Bytes)>>},
        l \in {<<>>, <<L(NULL)>>, <<L(Bytes), L(Plain)>>, <<L(Plain), L(Nested)>>}}

Scope(attr) == [name |-> NULL, version |-> text, attr |-> attr, dropped_attr_count |-> 1]

InScope(scope, url, spans) ==
    [instrumentation_scope |-> scope, schema_url |-> url, spans |-> spans]

Resource(attr, url, scope_spans) ==
    [resource |-> [attr |-> attr, dropped_attr_count |-> 1],
     schema_url |-> url, scope_spans |-> scope_spans]

One(span) == <<Resource(Plain, NULL, <<InScope(NULL, NULL, <<span>>)>>)>>

Family == <<InScope(NULL, text, <<Root, Child>>), InScope(Scope(NULL), NULL, <<Bare>>)>>

OwnContexts ==
    {One(p) : p \in Spans} \cup
    {<<>>, <<Resource(<<>>, text, <<>>), Resource(Nested, "", Family)>>,
     <<Resource(Bytes, text, Family)>>, <<Resource(Plain, text, Family \o Family)>>} \cup
    {<<Resource(Plain, NULL, <<InScope(Scope(attr), "", <<Root>>)>>)>> :
        attr \in {<<>>, Plain, Bytes, Nested}} \cup
    {One([Root EXCEPT !.attr = Long]), One([Root EXCEPT !.events = <<E(Plain), E(Long)>>]),
     One([Root EXCEPT !.links = <<L(Bytes), L(Long)>>]), <<Resource(Long, text, Family)>>,
     <<Resource(Plain, text, <<InScope(Scope(Long), NULL, <<>>)>>)>>}

-----------------------------------------------------------------------------
(* Messages of other programs.                                             *)

Message(span) == OtlpEncode(One(span))

\* The message of a span, with a span of the message changed.
Changed(Change(_)) ==
    [Message([Root EXCEPT !.events = <<E(Plain), E(Plain)>>, !.links = <<L(Plain), L(Plain)>>])
        EXCEPT ![1].scope_spans[1].spans[1] = Change(@)]

ForeignSets == {<<Attr(short, "none")>>, <<Attr(short, "strindex"), Attr(other, "plain")>>,
                <<Attr(short, "plain"), Attr(other, "none")>>, Long, <<>>}

OtlpMessages ==
    {Changed(LAMBDA p : [p EXCEPT !.kind = 7]),
     Changed(LAMBDA p : [p EXCEPT !.status = NULL, !.trace_state = ""]),
     Changed(LAMBDA p : [p EXCEPT !.dropped_links_count = 4]),
     Changed(LAMBDA p : [p EXCEPT !.trace_id = <<>>, !.events[1].time_unix_nano = 0]),
     <<>>,
     [Message(Root) EXCEPT ![1].resource = NULL],
     Message(Root) \o [Message(Root) EXCEPT ![1].resource = NULL]} \cup
    {Changed(LAMBDA p : [p EXCEPT !.attributes = attr]) : attr \in ForeignSets} \cup
    {Changed(LAMBDA p : [p EXCEPT !.events[1].attributes = attr]) : attr \in ForeignSets} \cup
    {Changed(LAMBDA p : [p EXCEPT !.links[1].attributes = attr]) : attr \in ForeignSets} \cup
    {Changed(LAMBDA p : [p EXCEPT !.links[1].attributes = <<Attr(short, "strindex")>>,
                                  !.links[2].span_id = <<>>])} \cup
    {[Message(Root) EXCEPT ![1].resource.attributes = attr] : attr \in ForeignSets}

Packed(span) == MsgpackEncode(One(span))

MsgpackMessages ==
    {[Packed(Root) EXCEPT ![1].scope_spans[1].spans[1].kind = 7],
     [Packed(Root) EXCEPT ![1].scope_spans[1].spans[1].trace_id = <<1>>],
     [Packed(Root) EXCEPT ![1].scope_spans[1].spans[1].span_id = <<>>],
     [Packed(Root) EXCEPT ![1].scope_spans[1].spans[1].parent_span_id = <<1, 16>>],
     [Packed(Root) EXCEPT ![1].scope_spans[1].spans[1].attributes = NULL,
                          ![1].scope_spans[1].spans[1].name = NULL],
     [Packed([Root EXCEPT !.events = <<E(Plain)>>])
        EXCEPT ![1].scope_spans[1].spans[1].events[1].time_unix_nano = 0,
               ![1].scope_spans[1].spans[1].events[1].name = NULL]}

NoMessage == {}

\* At takes what SelectSeq takes.
ASSUME AtSelects ==
    \A attr \in ForeignSets :
        At(attr, {i \in DOMAIN attr : attr[i].value # "none"})
            = SelectSeq(attr, LAMBDA kv : kv.value # "none")

=============================================================================
