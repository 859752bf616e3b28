--------------------------- MODULE MCMsgpackDecoder ---------------------------
(* Buffers for model checking MsgpackDecoder: one or two messages of the   *)
(* encoder, with the keys in either order, and messages of other programs. *)
EXTENDS MsgpackWire

CONSTANTS text, short, long     \* a string; an attribute key that fits, one that does not

Plain == <<[key |-> short, value |-> "plain"]>>
Long  == <<[key |-> long, value |-> "plain"]>>

E(attr) == [name |-> text, time_unix_nano |-> 3, attr |-> attr, dropped_attr_count |-> 1]
L(attr) == [trace_id |-> <<255>>, span_id |-> NULL, trace_state |-> text,
            attr |-> attr, dropped_attr_count |-> 2, flags |-> 0]

Span1 ==
    [trace_id |-> <<1, 160>>, span_id |-> <<18>>, parent_span_id |-> NULL,
     trace_state |-> NULL, name |-> text, schema_url |-> NULL,
     kind |-> CTRACE_SPAN_CONSUMER, flags |-> 0, start_time_unix_nano |-> 2,
     end_time_unix_nano |-> 5, attr |-> Plain, dropped_attr_count |-> 1,
     events |-> <<>>, dropped_events_count |-> 1, links |-> <<>>,
     dropped_links_count |-> 0, status |-> [code |-> 2, message |-> text]]

Scope(attr) == [name |-> NULL, version |-> text, attr |-> attr, dropped_attr_count |-> 1]
In(scope, spans) == [instrumentation_scope |-> scope, schema_url |-> text, spans |-> spans]
Resource(scope_spans) ==
    [resource |-> [attr |-> Plain, dropped_attr_count |-> 1], schema_url |-> NULL,
     scope_spans |-> scope_spans]

Rich == <<Resource(<<In(Scope(Plain), <<[Span1 EXCEPT !.events = <<E(<<>>), E(Plain)>>,
                                                      !.links = <<L(Plain), L(NULL)>>]>>)>>)>>
Wide == <<Resource(<<In(NULL, <<>>), In(Scope(NULL), <<Span1, [Span1 EXCEPT !.name = ""]>>)>>),
          Resource(<<>>)>>
\* An array of three elements is over the limit of this instance.
Over == <<Resource(<<In(NULL, <<Span1, Span1, Span1>>)>>)>>
Bad  == <<Resource(<<In(Scope(Long), <<Span1>>)>>)>>

Packed(contexts, order) ==
    [messages |-> [i \in DOMAIN contexts |-> MsgpackEncode(contexts[i])], order |-> order]

\* A span of another program, in a message that is as short as can be.
Foreign(span) ==
    [tokens |-> <<Map(1), KeyToken("resourceSpans"), Array(1), Map(1), KeyToken("scope_spans"),
                  Array(1), Map(2), KeyToken("schema_url"), <<"str", text>>, KeyToken("spans"),
                  Array(1), Map(Len(span) \div 2)>> \o span,
     expected |-> NULL]

Twice(key, token) == Foreign(<<KeyToken(key), token, KeyToken(key), token>>)

ForeignBuffers ==
    {Twice("name", <<"str", text>>), Twice("trace_state", Nil), Twice("schema_url", <<"str", "">>),
     Twice("trace_id", <<"id", <<1, 2>>>>), Twice("kind", Number(-9)), Twice("attributes", Map(0)),
     Foreign(<<KeyToken("kind"), Number(Word + 1), KeyToken("end_time_unix_nano"), Number(-1)>>)}

MCSent ==
    {Packed(<<Wide, <<>>>>, Written), Packed(<<<<>>, Rich>>, Backwards), Packed(<<Over>>, Written),
     Packed(<<Bad>>, Backwards)}

MCBuffer == {Own(s.messages, s.order) : s \in MCSent} \cup ForeignBuffers

MCOffered ==
    {Nil, Map(1), Map(MaxMap + 1), Array(1), Number(1), <<"long", 0>>, <<"torn", 0>>,
     <<"id", <<1>>>>, <<"id", <<1, 2>>>>, KeyToken("status"), KeyToken("attributes"),
     <<"attrs", Plain>>, <<"badattrs", Plain>>}

=============================================================================
