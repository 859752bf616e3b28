---------------------------- MODULE MsgpackCodec ----------------------------
(***************************************************************************)
(* The two translations between a context and a MessagePack message:       *)
(* ctr_encode_msgpack.c and ctr_decode_msgpack.c.  A message is the tree   *)
(* of maps and arrays that the encoder writes, every key of every map      *)
(* there once; NULL is the nil of MessagePack, and an identifier the       *)
(* sequence of its hexadecimal digits.                                     *)
(*                                                                         *)
(* A message that another program wrote may hold digits that are no        *)
(* identifier.  No allocation fails here and no limit on the length of a   *)
(* string or an array is met, the one on the length of a key apart.        *)
(***************************************************************************)
EXTENDS TraceData

-----------------------------------------------------------------------------
(* The messages, over the counts and times Num.                            *)

Digits == Seq(Nat)

PackedEvent(Num) ==
    [time_unix_nano : Num, name : String, attributes : AttributeSet \cup {NULL},
     dropped_attributes_count : Num]

PackedLink(Num) ==
    [trace_id : Digits \cup {NULL}, span_id : Digits \cup {NULL}, trace_state : String,
     attributes : AttributeSet \cup {NULL}, dropped_attributes_count : Num]

PackedSpan(Num) ==
    [trace_id : Digits \cup {NULL}, span_id : Digits \cup {NULL},
     parent_span_id : Digits \cup {NULL}, trace_state : String, name : String, kind : Int,
     start_time_unix_nano : Num, end_time_unix_nano : Num,
     attributes : AttributeSet \cup {NULL}, dropped_attributes_count : Num,
     dropped_events_count : Num, dropped_links_count : Num, events : Seq(PackedEvent(Num)),
     links : Seq(PackedLink(Num)), schema_url : String,
     status : [code : Int, message : String]]

PackedScope(Num) ==
    [name : String, version : String, attributes : AttributeSet \cup {NULL},
     dropped_attributes_count : Num]

PackedScopeSpan(Num) ==
    [scope : PackedScope(Num) \cup {NULL}, spans : Seq(PackedSpan(Num)), schema_url : String]

PackedResourceSpan(Num) ==
    [resource : [attributes : AttributeSet \cup {NULL}, dropped_attributes_count : Num],
     schema_url : String, scope_spans : Seq(PackedScopeSpan(Num))]

MsgpackMessage(Num) == Seq(PackedResourceSpan(Num))

ASSUME NullIsNotPacked == NULL \notin PackedScope(Nat)

-----------------------------------------------------------------------------
(* From the context to the message.  Nothing packs the flags of a span or  *)
(* of a link; strings, counts and times are packed as they are.            *)

pack_id(id) == IF id = NULL THEN NULL ELSE ctr_id_to_lower_base16(id)

pack_events(events) ==
    [i \in DOMAIN events |->
        [time_unix_nano           |-> events[i].time_unix_nano,
         name                     |-> events[i].name,
         attributes               |-> events[i].attr,
         dropped_attributes_count |-> events[i].dropped_attr_count]]

pack_links(links) ==
    [i \in DOMAIN links |->
        [trace_id                 |-> pack_id(links[i].trace_id),
         span_id                  |-> pack_id(links[i].span_id),
         trace_state              |-> links[i].trace_state,
         attributes               |-> links[i].attr,
         dropped_attributes_count |-> links[i].dropped_attr_count]]

pack_span(p) ==
    [trace_id                 |-> pack_id(p.trace_id),
     span_id                  |-> pack_id(p.span_id),
     parent_span_id           |-> pack_id(p.parent_span_id),
     trace_state              |-> p.trace_state,
     name                     |-> p.name,
     kind                     |-> p.kind,
     start_time_unix_nano     |-> p.start_time_unix_nano,
     end_time_unix_nano       |-> p.end_time_unix_nano,
     attributes               |-> p.attr,
     dropped_attributes_count |-> p.dropped_attr_count,
     dropped_events_count     |-> p.dropped_events_count,
     dropped_links_count      |-> p.dropped_links_count,
     events                   |-> pack_events(p.events),
     links                    |-> pack_links(p.links),
     schema_url               |-> p.schema_url,
     status                   |-> p.status]

pack_instrumentation_scope(scope) ==
    IF scope = NULL THEN NULL
    ELSE [name                     |-> scope.name,
          version                  |-> scope.version,
          attributes               |-> scope.attr,
          dropped_attributes_count |-> scope.dropped_attr_count]

pack_scope_spans(scope_spans) ==
    [i \in DOMAIN scope_spans |->
        [scope      |-> pack_instrumentation_scope(scope_spans[i].instrumentation_scope),
         spans      |-> [j \in DOMAIN scope_spans[i].spans |-> pack_span(scope_spans[i].spans[j])],
         schema_url |-> scope_spans[i].schema_url]]

MsgpackEncode(ctx) ==
    [i \in DOMAIN ctx |->
        [resource    |-> [attributes |-> ctx[i].resource.attr,
                          dropped_attributes_count |-> ctx[i].resource.dropped_attr_count],
         schema_url  |-> ctx[i].schema_url,
         scope_spans |-> pack_scope_spans(ctx[i].scope_spans)]]

-----------------------------------------------------------------------------
(* From the message to the context.                                        *)

\* Mutant: a key of any length fits.
NoLimit(attributes) == TRUE

\* unpack_cfl_kvlist reads a key into 256 bytes, the NUL at its end included.
KeysFit(attributes) ==
    attributes = NULL \/ \A i \in DOMAIN attributes : attributes[i].key \notin LongKey

\* An identifier that can be read, or nil for none.
IdReads(digits) == digits = NULL \/ ctr_id_from_base16(digits) # NULL

EventReads(e) == KeysFit(e.attributes)

LinkReads(l) == IdReads(l.trace_id) /\ IdReads(l.span_id) /\ KeysFit(l.attributes)

SpanReads(p) ==
    /\ IdReads(p.trace_id) /\ IdReads(p.span_id) /\ IdReads(p.parent_span_id)
    /\ KeysFit(p.attributes)
    /\ \A i \in DOMAIN p.events : EventReads(p.events[i])
    /\ \A i \in DOMAIN p.links : LinkReads(p.links[i])

ScopeSpanReads(s) ==
    /\ s.scope = NULL \/ KeysFit(s.scope.attributes)
    /\ \A i \in DOMAIN s.spans : SpanReads(s.spans[i])

ResourceSpanReads(r) ==
    /\ KeysFit(r.resource.attributes)
    /\ \A i \in DOMAIN r.scope_spans : ScopeSpanReads(r.scope_spans[i])

unpack_id(digits) == IF digits = NULL THEN NULL ELSE ctr_id_from_base16(digits)

\* Mutant: the first attribute only.
FirstAttribute(attributes) ==
    IF attributes \in {NULL, <<>>} THEN <<>> ELSE <<attributes[1]>>

\* nil leaves the empty set that the structure was created with.
unpack_attributes(attributes) == IF attributes = NULL THEN <<>> ELSE attributes

unpack_event(e) ==
    [name               |-> e.name,
     time_unix_nano     |-> e.time_unix_nano,
     attr               |-> unpack_attributes(e.attributes),
     dropped_attr_count |-> e.dropped_attributes_count]

\* A link is created without a set: nil leaves none.
unpack_link(l) ==
    [trace_id           |-> unpack_id(l.trace_id),
     span_id            |-> unpack_id(l.span_id),
     trace_state        |-> l.trace_state,
     attr               |-> l.attributes,
     dropped_attr_count |-> l.dropped_attributes_count,
     flags              |-> 0]

\* Any kind is taken, known or not: ctr_span_kind_set is not called.
unpack_span(p) ==
    [trace_id             |-> unpack_id(p.trace_id),
     span_id              |-> unpack_id(p.span_id),
     parent_span_id       |-> unpack_id(p.parent_span_id),
     trace_state          |-> p.trace_state,
     name                 |-> p.name,
     schema_url           |-> p.schema_url,
     kind                 |-> p.kind,
     flags                |-> 0,
     start_time_unix_nano |-> p.start_time_unix_nano,
     end_time_unix_nano   |-> p.end_time_unix_nano,
     attr                 |-> unpack_attributes(p.attributes),
     dropped_attr_count   |-> p.dropped_attributes_count,
     events               |-> [i \in DOMAIN p.events |-> unpack_event(p.events[i])],
     dropped_events_count |-> p.dropped_events_count,
     links                |-> [i \in DOMAIN p.links |-> unpack_link(p.links[i])],
     dropped_links_count  |-> p.dropped_links_count,
     status               |-> p.status]

unpack_instrumentation_scope(scope) ==
    IF scope = NULL THEN NULL
    ELSE [name               |-> scope.name,
          version            |-> scope.version,
          attr               |-> scope.attributes,
          dropped_attr_count |-> scope.dropped_attributes_count]

unpack_scope_span(s) ==
    [instrumentation_scope |-> unpack_instrumentation_scope(s.scope),
     schema_url            |-> s.schema_url,
     spans                 |-> [i \in DOMAIN s.spans |-> unpack_span(s.spans[i])]]

unpack_resource_span(r) ==
    [resource    |-> [attr |-> unpack_attributes(r.resource.attributes),
                      dropped_attr_count |-> r.resource.dropped_attributes_count],
     schema_url  |-> r.schema_url,
     scope_spans |-> [i \in DOMAIN r.scope_spans |-> unpack_scope_span(r.scope_spans[i])]]

\* All or nothing: what cannot be read anywhere leaves no context.
MsgpackDecode(message) ==
    IF \A i \in DOMAIN message : ResourceSpanReads(message[i])
    THEN [i \in DOMAIN message |-> unpack_resource_span(message[i])]
    ELSE NULL

=============================================================================
