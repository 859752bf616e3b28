------------------------------- MODULE Relay -------------------------------
(***************************************************************************)
(* A context on its way through programs that use ctraces: each encodes    *)
(* the context that it has, as an OpenTelemetry or as a MessagePack        *)
(* message, and the next one decodes the message (the use that             *)
(* tests/decoding.c makes of the codecs, hop by hop).  The way starts with *)
(* a context that was built here or with a message of another program.     *)
(***************************************************************************)
EXTENDS OtlpCodec, MsgpackCodec, TextEncoder

CONSTANTS
    Contexts,       \* contexts that the functions of the library build
    ForeignOtlp,    \* OpenTelemetry messages of other programs
    ForeignMsgpack, \* MessagePack messages of other programs
    Clock,          \* the times that cfl_time_now may tell
    MaxHops         \* the bound on the hops

VARIABLES
    doc,            \* the context at hand, NULL for none
    wire,           \* the message on its way, with its codec, NULL for none
    origin,         \* the context that was built, NULL if a message came first
    via             \* the codecs doc came through, in order

vars == <<doc, wire, origin, via>>

Num == Nat

Codec == {"otlp", "msgpack"}

\* What the functions of the library see to, whatever is built: a span has a kind
\* that there is, and an event a time.
BuiltSpan(p) == p.kind \in SpanKind /\ \A e \in DOMAIN p.events : p.events[e].time_unix_nano # 0

Built(ctx) ==
    \A i \in DOMAIN ctx : \A j \in DOMAIN ctx[i].scope_spans :
        \A k \in DOMAIN ctx[i].scope_spans[j].spans : BuiltSpan(ctx[i].scope_spans[j].spans[k])

ASSUME ContextsAreBuilt == \A ctx \in Contexts : ctx \in Context(Num) /\ Built(ctx)
ASSUME MessagesAreTyped ==
    /\ \A message \in ForeignOtlp : message \in OtlpMessage(Num)
    /\ \A message \in ForeignMsgpack : message \in MsgpackMessage(Num)
ASSUME TimeHasBegun == Clock \subseteq Num \ {0}

Init ==
    /\ via = <<>>
    /\ \/ wire = NULL /\ origin \in Contexts /\ doc = origin
       \/ doc = NULL /\ origin = NULL
          /\ \/ wire \in [codec : {"otlp"}, body : ForeignOtlp]
             \/ wire \in [codec : {"msgpack"}, body : ForeignMsgpack]

\* ctr_encode_opentelemetry_create and ctr_encode_msgpack_create: the context
\* stays as it is.
Send(codec, body) ==
    /\ doc # NULL /\ wire = NULL /\ Len(via) < MaxHops
    /\ wire' = [codec |-> codec, body |-> body]
    /\ UNCHANGED <<doc, origin, via>>

ctr_encode_opentelemetry_create == Send("otlp", OtlpEncode(doc))

ctr_encode_msgpack_create == Send("msgpack", MsgpackEncode(doc))

\* The next program takes the message; where it cannot read it, it has nothing.
Receive(codec, context) ==
    /\ wire' = NULL
    /\ doc' = context
    /\ via' = Append(via, codec)
    /\ UNCHANGED origin

ctr_decode_opentelemetry_create ==
    /\ wire # NULL /\ wire.codec = "otlp"
    /\ \E now \in Clock : Receive("otlp", OtlpDecode(wire.body, now))

ctr_decode_msgpack_create ==
    /\ wire # NULL /\ wire.codec = "msgpack"
    /\ Receive("msgpack", MsgpackDecode(wire.body))

Next ==
    \/ ctr_encode_opentelemetry_create
    \/ ctr_encode_msgpack_create
    \/ ctr_decode_opentelemetry_create
    \/ ctr_decode_msgpack_create

Spec == Init /\ [][Next]_vars

-----------------------------------------------------------------------------
(* Safety.                                                                 *)

\* What is at hand is a context: nothing that only a message can hold, such as an
\* attribute without a value, is in it, and no identifier is empty
\* (ctr_decode_opentelemetry.c:267-346, ctr_id.c:57-79).
TypeOK ==
    /\ doc \in Context(Num) \cup {NULL}
    /\ origin \in Context(Num) \cup {NULL}
    /\ wire # NULL => wire.codec \in Codec
    /\ via \in Seq(Codec)

\* Two strings that are the same but for a null one, which may have become empty
\* or the other way round.
Alike(s, t) == s = t \/ {s, t} \subseteq {NULL, ""}

\* An attribute set is kept, or it holds bytes and is lost as a whole.
AttributesKept(attr, was) ==
    \/ attr = was
    \/ was = NULL /\ attr = <<>>
    \/ was # NULL /\ attr \in {NULL, <<>>} /\ \E i \in DOMAIN was : was[i].value = "bytes"

\* A list is kept up to its end or up to an element whose attributes hold bytes.
ListKept(list, was, Kept(_, _)) ==
    /\ Len(list) <= Len(was)
    /\ \A i \in DOMAIN list : Kept(list[i], was[i]) /\ AttributesKept(list[i].attr, was[i].attr)
    /\ Len(list) < Len(was) =>
          Len(list) > 0 /\ \E i \in DOMAIN was[Len(list)].attr : was[Len(list)].attr[i].value = "bytes"

EventKept(e, was) == e.time_unix_nano = was.time_unix_nano /\ Alike(e.name, was.name)

LinkKept(l, was) == l.trace_id = was.trace_id /\ l.span_id = was.span_id

SpanKept(p, was) ==
    /\ \A f \in {"trace_id", "span_id", "parent_span_id", "kind", "start_time_unix_nano",
                 "end_time_unix_nano", "dropped_attr_count", "dropped_events_count"} : p[f] = was[f]
    /\ Alike(p.name, was.name) /\ Alike(p.trace_state, was.trace_state)
    /\ p.status.code = was.status.code /\ Alike(p.status.message, was.status.message)
    /\ AttributesKept(p.attr, was.attr)
    /\ ListKept(p.events, was.events, EventKept)
    /\ ListKept(p.links, was.links, LinkKept)

\* A scope is kept, or its attributes hold bytes and it is lost as a whole.
ScopeKept(scope, was) ==
    IF scope = NULL \/ was = NULL
    THEN scope = was \/ (was # NULL /\ was.attr # NULL
                           /\ \E i \in DOMAIN was.attr : was.attr[i].value = "bytes")
    ELSE /\ Alike(scope.name, was.name) /\ Alike(scope.version, was.version)
         /\ scope.dropped_attr_count = was.dropped_attr_count
         /\ AttributesKept(scope.attr, was.attr)

ScopeSpanKept(s, was) ==
    /\ ScopeKept(s.instrumentation_scope, was.instrumentation_scope)
    /\ Alike(s.schema_url, was.schema_url)
    /\ Len(s.spans) = Len(was.spans)
    /\ \A k \in DOMAIN s.spans : SpanKept(s.spans[k], was.spans[k])

ResourceSpanKept(r, was) ==
    /\ Alike(r.schema_url, was.schema_url)
    /\ AttributesKept(r.resource.attr, was.resource.attr)
    /\ r.resource.dropped_attr_count = was.resource.dropped_attr_count
    /\ Len(r.scope_spans) = Len(was.scope_spans)
    /\ \A j \in DOMAIN r.scope_spans : ScopeSpanKept(r.scope_spans[j], was.scope_spans[j])

\* Through any hops, every span stays where it was, with its identifiers, its
\* parent, its kind and its times, and what else there was of it is either kept
\* or lost for bytes that the same set of attributes, or one before it in the
\* same list, held (span_set_events, ctr_span_set_links, span_set_attributes).
LineageKept ==
    origin # NULL /\ doc # NULL =>
        /\ Len(doc) = Len(origin)
        /\ \A i \in DOMAIN doc : ResourceSpanKept(doc[i], origin[i])

\* Where MessagePack can carry the context, it makes no difference whether it goes
\* by MessagePack and then by OpenTelemetry or the other way round.
RoutesCommute ==
    \A now \in Clock :
        LET packed == IF doc = NULL THEN NULL ELSE MsgpackDecode(MsgpackEncode(doc))
        IN  packed # NULL /\ doc # <<>> =>
              OtlpDecode(OtlpEncode(packed), now)
                = MsgpackDecode(MsgpackEncode(OtlpDecode(OtlpEncode(doc), now)))

-----------------------------------------------------------------------------
(* Action properties, of the hop that ends with the decoding of an own     *)
(* message: doc is still the context that was encoded.                     *)

Arrives(codec) == wire # NULL /\ wire.codec = codec /\ doc # NULL /\ wire' = NULL

\* A context with each of its spans changed.
EachSpan(ctx, Change(_)) ==
    LET InScopeSpan(s) == [s EXCEPT !.spans = [k \in DOMAIN @ |-> Change(@[k])]]
        InResourceSpan(r) == [r EXCEPT !.scope_spans = [j \in DOMAIN @ |-> InScopeSpan(@[j])]]
    IN  [i \in DOMAIN ctx |-> InResourceSpan(ctx[i])]

Flagless(p) ==
    [p EXCEPT !.flags = 0,
              !.links = [i \in DOMAIN @ |-> [@[i] EXCEPT !.flags = 0]]]

ScopeSpansOf(ctx) ==
    UNION {{ctx[i].scope_spans[j] : j \in DOMAIN ctx[i].scope_spans} : i \in DOMAIN ctx}

SpansOf(ctx) == UNION {{s.spans[k] : k \in DOMAIN s.spans} : s \in ScopeSpansOf(ctx)}

ScopesOf(ctx) == {s.instrumentation_scope : s \in ScopeSpansOf(ctx)} \ {NULL}

\* The attribute sets of a context, each one somewhere in it.
AttributeSetsOf(ctx) ==
    ({ctx[i].resource.attr : i \in DOMAIN ctx}
     \cup {scope.attr : scope \in ScopesOf(ctx)}
     \cup {p.attr : p \in SpansOf(ctx)}
     \cup (UNION {{p.events[i].attr : i \in DOMAIN p.events} : p \in SpansOf(ctx)})
     \cup (UNION {{p.links[i].attr : i \in DOMAIN p.links} : p \in SpansOf(ctx)})) \ {NULL}

\* A hop by MessagePack loses the flags and nothing else, or all: where there is a
\* key of 256 bytes or more, and only there, the decoder refuses the message
\* (ctr_variant_utils.h:322-328).
MsgpackLosesOnlyFlags ==
    [][Arrives("msgpack") =>
         IF \E attr \in AttributeSetsOf(doc) : \E i \in DOMAIN attr : attr[i].key \in LongKey
         THEN doc' = NULL
         ELSE doc' = EachSpan(doc, Flagless)]_vars

\* What a second hop by OpenTelemetry still changes.
Settled(p) ==
    LET WithAttributes(l) == [l EXCEPT !.attr = IF @ = NULL THEN <<>> ELSE @]
    IN  [p EXCEPT !.dropped_links_count = 0,
                  !.status.message = IF @ = NULL THEN "" ELSE @,
                  !.links = [i \in DOMAIN @ |-> WithAttributes(@[i])]]

\* What OpenTelemetry loses it loses at once: a context that came by it and goes by
\* it again stays the same, but that a link without attributes gets an empty
\* set, a status its message and the count of dropped links, which the encoder
\* never sets, is 0 (ctr_encode_opentelemetry.c:817-835).
OtlpSettles ==
    [][Arrives("otlp") /\ via # <<>> /\ via[Len(via)] = "otlp" /\ doc # <<>>
         => doc' = EachSpan(doc, Settled)]_vars

\* The text of the context that was decoded from MessagePack is the text of the
\* one that was encoded: what tests/decoding.c:503-512 sets out to compare.
TextSurvivesMsgpack ==
    [][Arrives("msgpack") /\ doc' # NULL
         => ctr_encode_text_create(doc') = ctr_encode_text_create(doc)]_vars

\* The claim of tests/decoding.c:532-535: what the MessagePack encoder made of a
\* context, the decoder takes.
EncodedDecodes == [][Arrives("msgpack") => doc' # NULL]_vars

=============================================================================
