------------------------------ MODULE OtlpCodec ------------------------------
(***************************************************************************)
(* The two translations between a context and an OpenTelemetry message:    *)
(* ctr_encode_opentelemetry.c and ctr_decode_opentelemetry.c.  A message   *)
(* is what protobuf-c unpacks: a string or a bytes field that the sender   *)
(* left out is empty, a submessage that it left out is NULL.               *)
(*                                                                         *)
(* A message may come from another program, and then hold what no context  *)
(* does: an attribute without a value ("none") or with a reference to a    *)
(* string table ("strindex").  No allocation fails here.                   *)
(***************************************************************************)
EXTENDS TraceData, FiniteSets

-----------------------------------------------------------------------------
(* The messages, over the counts and times Num.                            *)

StringValue == {""} \cup Text

KeyValues == Seq([key : Key, value : Value \cup {"none", "strindex"}])

EventMessage(Num) ==
    [name : StringValue, time_unix_nano : Num, attributes : KeyValues,
     dropped_attributes_count : Num]

LinkMessage(Num) ==
    [trace_id : Seq(Byte), span_id : Seq(Byte), trace_state : StringValue,
     attributes : KeyValues, dropped_attributes_count : Num]

StatusMessage == [code : Int, message : StringValue]

SpanMessage(Num) ==
    [name : StringValue, trace_id : Seq(Byte), span_id : Seq(Byte), parent_span_id : Seq(Byte),
     kind : Int, trace_state : StringValue, start_time_unix_nano : Num,
     end_time_unix_nano : Num, status : StatusMessage \cup {NULL}, attributes : KeyValues,
     dropped_attributes_count : Num, events : Seq(EventMessage(Num)),
     dropped_events_count : Num, links : Seq(LinkMessage(Num)), dropped_links_count : Num]

ScopeMessage(Num) ==
    [name : StringValue, version : StringValue, attributes : KeyValues,
     dropped_attributes_count : Num]

ScopeSpanMessage(Num) ==
    [scope : ScopeMessage(Num) \cup {NULL}, schema_url : StringValue,
     spans : Seq(SpanMessage(Num))]

ResourceMessage(Num) == [attributes : KeyValues, dropped_attributes_count : Num]

ResourceSpanMessage(Num) ==
    [resource : ResourceMessage(Num) \cup {NULL}, schema_url : StringValue,
     scope_spans : Seq(ScopeSpanMessage(Num))]

OtlpMessage(Num) == Seq(ResourceSpanMessage(Num))

ASSUME NullIsNoMessage ==
    NULL \notin StatusMessage \cup ScopeMessage(Nat) \cup ResourceMessage(Nat)

-----------------------------------------------------------------------------
(* From the context to the message.                                        *)

StringField(s) == IF s = NULL THEN "" ELSE s
BytesField(id) == IF id = NULL THEN <<>> ELSE id

\* Mutant: the last attribute is left behind.
AllButLast(attr) == IF attr \in {NULL, <<>>} THEN <<>> ELSE SubSeq(attr, 1, Len(attr) - 1)

set_attributes_from_ctr(attr) == IF attr = NULL THEN <<>> ELSE attr

set_event(e) ==
    [name                     |-> StringField(e.name),
     time_unix_nano           |-> e.time_unix_nano,
     attributes               |-> set_attributes_from_ctr(e.attr),
     dropped_attributes_count |-> e.dropped_attr_count]

\* The flags of the link stay behind.
set_link(l) ==
    [trace_id                 |-> BytesField(l.trace_id),
     span_id                  |-> BytesField(l.span_id),
     trace_state              |-> StringField(l.trace_state),
     attributes               |-> set_attributes_from_ctr(l.attr),
     dropped_attributes_count |-> l.dropped_attr_count]

set_kind(kind) == IF kind \in SpanKind THEN kind ELSE CTRACE_SPAN_UNSPECIFIED

\* The flags of the span, its schema URL and its count of dropped links stay
\* behind: the last is a field of the message, never set.
set_span(p) ==
    [name                     |-> StringField(p.name),
     trace_id                 |-> BytesField(p.trace_id),
     span_id                  |-> BytesField(p.span_id),
     parent_span_id           |-> BytesField(p.parent_span_id),
     kind                     |-> set_kind(p.kind),
     trace_state              |-> StringField(p.trace_state),
     start_time_unix_nano     |-> p.start_time_unix_nano,
     end_time_unix_nano       |-> p.end_time_unix_nano,
     status                   |-> [code |-> p.status.code,
                                   message |-> StringField(p.status.message)],
     attributes               |-> set_attributes_from_ctr(p.attr),
     dropped_attributes_count |-> p.dropped_attr_count,
     events                   |-> [i \in DOMAIN p.events |-> set_event(p.events[i])],
     dropped_events_count     |-> p.dropped_events_count,
     links                    |-> [i \in DOMAIN p.links |-> set_link(p.links[i])],
     dropped_links_count      |-> 0]

set_instrumentation_scope(scope) ==
    [name                     |-> StringField(scope.name),
     version                  |-> StringField(scope.version),
     attributes               |-> set_attributes_from_ctr(scope.attr),
     dropped_attributes_count |-> scope.dropped_attr_count]

set_scope_span(s) ==
    [scope      |-> IF s.instrumentation_scope = NULL THEN NULL
                    ELSE set_instrumentation_scope(s.instrumentation_scope),
     schema_url |-> StringField(s.schema_url),
     spans      |-> [i \in DOMAIN s.spans |-> set_span(s.spans[i])]]

set_resource_span(r) ==
    [resource    |-> [attributes |-> set_attributes_from_ctr(r.resource.attr),
                      dropped_attributes_count |-> r.resource.dropped_attr_count],
     schema_url  |-> StringField(r.schema_url),
     scope_spans |-> [i \in DOMAIN r.scope_spans |-> set_scope_span(r.scope_spans[i])]]

OtlpEncode(ctx) == [i \in DOMAIN ctx |-> set_resource_span(ctx[i])]

-----------------------------------------------------------------------------
(* From the message to the context.                                        *)

\* Mutant: no attribute is refused.
AcceptAll(attributes) == TRUE

\* One attribute that has no value, or bytes as its value, refuses them all.
Accepted(attributes) ==
    \A i \in DOMAIN attributes : attributes[i].value \notin {"bytes", "none"}

\* The elements of s at the places K, in order.
At(s, K) ==
    [n \in 1..Cardinality(K) |-> s[CHOOSE i \in K : Cardinality({j \in K : j <= i}) = n]]

\* The attribute set, or NULL; references to a string table are passed over.
convert_otel_attrs(attributes) ==
    IF Accepted(attributes)
    THEN At(attributes, {i \in DOMAIN attributes : attributes[i].value # "strindex"})
    ELSE NULL

\* What stays where a conversion fails: the set the structure was created with.
OrEmpty(attr) == IF attr = NULL THEN <<>> ELSE attr

\* How many events, or links, are decoded: the loop is left at the first whose
\* attributes are refused, and that one stays, half set.
Reached(elements) ==
    LET refused == {i \in DOMAIN elements : ~Accepted(elements[i].attributes)}
    IN  IF refused = {} THEN Len(elements)
        ELSE CHOOSE i \in refused : \A j \in refused : i <= j

\* An event without a time gets the time of its decoding.
decode_event(e, now) ==
    [name               |-> e.name,
     time_unix_nano     |-> IF e.time_unix_nano = 0 THEN now ELSE e.time_unix_nano,
     attr               |-> OrEmpty(convert_otel_attrs(e.attributes)),
     dropped_attr_count |-> IF Accepted(e.attributes) THEN e.dropped_attributes_count ELSE 0]

DecodedId(bytes) == IF bytes = <<>> THEN NULL ELSE bytes

\* The trace state of the link is not read.
decode_link(l) ==
    [trace_id           |-> DecodedId(l.trace_id),
     span_id            |-> DecodedId(l.span_id),
     trace_state        |-> NULL,
     attr               |-> convert_otel_attrs(l.attributes),
     dropped_attr_count |-> IF Accepted(l.attributes) THEN l.dropped_attributes_count ELSE 0,
     flags              |-> 0]

\* A kind that is unknown leaves the default one.
decode_span(p, now) ==
    [name                 |-> p.name,
     trace_id             |-> DecodedId(p.trace_id),
     span_id              |-> DecodedId(p.span_id),
     parent_span_id       |-> DecodedId(p.parent_span_id),
     trace_state          |-> IF p.trace_state = "" THEN NULL ELSE p.trace_state,
     schema_url           |-> NULL,
     kind                 |-> IF p.kind \in SpanKind THEN p.kind ELSE CTRACE_SPAN_INTERNAL,
     flags                |-> 0,
     start_time_unix_nano |-> p.start_time_unix_nano,
     end_time_unix_nano   |-> p.end_time_unix_nano,
     status               |-> IF p.status = NULL THEN [code |-> 0, message |-> NULL] ELSE p.status,
     attr                 |-> OrEmpty(convert_otel_attrs(p.attributes)),
     dropped_attr_count   |-> p.dropped_attributes_count,
     events               |-> [i \in 1..Reached(p.events) |-> decode_event(p.events[i], now)],
     dropped_events_count |-> p.dropped_events_count,
     links                |-> [i \in 1..Reached(p.links) |-> decode_link(p.links[i])],
     dropped_links_count  |-> p.dropped_links_count]

\* A scope whose attributes are refused is left out.
decode_scope(scope) ==
    IF scope = NULL \/ ~Accepted(scope.attributes) THEN NULL
    ELSE [name               |-> scope.name,
          version            |-> scope.version,
          attr               |-> convert_otel_attrs(scope.attributes),
          dropped_attr_count |-> scope.dropped_attributes_count]

decode_scope_span(s, now) ==
    [instrumentation_scope |-> decode_scope(s.scope),
     schema_url            |-> s.schema_url,
     spans                 |-> [i \in DOMAIN s.spans |-> decode_span(s.spans[i], now)]]

decode_resource_span(r, now) ==
    [resource    |-> [attr |-> OrEmpty(convert_otel_attrs(r.resource.attributes)),
                      dropped_attr_count |-> r.resource.dropped_attributes_count],
     schema_url  |-> r.schema_url,
     scope_spans |-> [i \in DOMAIN r.scope_spans |-> decode_scope_span(r.scope_spans[i], now)]]

\* The context, or NULL: a message with a resource span that has no resource is
\* refused, and so is an empty one, which takes no bytes.
OtlpDecode(message, now) ==
    IF message = <<>> \/ \E i \in DOMAIN message : message[i].resource = NULL THEN NULL
    ELSE [i \in DOMAIN message |-> decode_resource_span(message[i], now)]

=============================================================================
