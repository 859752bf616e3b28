------------------------------ MODULE MsgpackWire ------------------------------
(***************************************************************************)
(* The buffers that this library writes, for MsgpackDecoder to read:       *)
(* MsgpackCodec says what the values of a message are, this module says in *)
(* which order they stand, map by map, as the tokens of their bytes.       *)
(***************************************************************************)
EXTENDS MsgpackDecoder

CONSTANT Sent   \* records [messages, order]: what is in a buffer of this library

-----------------------------------------------------------------------------
(* The tokens of a message, order[kind] the keys of a map in their order.  *)

\* A map, given the tokens of the value under each of its keys.
WireMap(kind, values, order) ==
    <<Map(EntryCount[kind])>>
    \o FlattenSeq([i \in DOMAIN order[kind] |->
          <<KeyToken(order[kind][i])>> \o values[order[kind][i]]])

WireArray(elements) == <<Array(Len(elements))>> \o FlattenSeq(elements)

\* A value that is neither a map nor an array.
LeafToken(key, v) ==
    CASE key \in NumberKeys                  -> Number(v)
      [] key \notin NumberKeys /\ v = NULL   -> Nil
      [] key = "attributes" /\ v # NULL      -> <<IF KeysFit(v) THEN "attrs" ELSE "badattrs", v>>
      [] key \in IdKeys /\ v # NULL          -> <<"id", v>>
      [] key \in StringKeys /\ v # NULL      -> <<"str", v>>

Leaf(key, v) == <<LeafToken(key, v)>>

\* A map that holds neither maps nor arrays.
WireFlat(kind, v, order) == WireMap(kind, [key \in DOMAIN v |-> Leaf(key, v[key])], order)

WireSpan(p, order) ==
    WireMap("span", [key \in DOMAIN p |->
        CASE key = "events" -> WireArray([i \in DOMAIN p.events |-> WireFlat("event", p.events[i], order)])
          [] key = "links"  -> WireArray([i \in DOMAIN p.links |-> WireFlat("link", p.links[i], order)])
          [] key = "status" -> WireFlat("status", p.status, order)
          [] OTHER          -> Leaf(key, p[key])], order)

WireScopeSpan(s, order) ==
    WireMap("scope_span",
        [scope      |-> IF s.scope = NULL THEN <<Nil>> ELSE WireFlat("scope", s.scope, order),
         spans      |-> WireArray([i \in DOMAIN s.spans |-> WireSpan(s.spans[i], order)]),
         schema_url |-> Leaf("schema_url", s.schema_url)], order)

WireResourceSpan(r, order) ==
    WireMap("resource_span",
        [resource    |-> WireFlat("resource", r.resource, order),
         schema_url  |-> Leaf("schema_url", r.schema_url),
         scope_spans |-> WireArray([i \in DOMAIN r.scope_spans |->
                                       WireScopeSpan(r.scope_spans[i], order)])], order)

Wire(message, order) ==
    WireMap("context",
        [resourceSpans |-> WireArray([i \in DOMAIN message |-> WireResourceSpan(message[i], order)])],
        order)

\* The order of the encoder, and the reverse of it.
Written == Entries
Backwards == [kind \in DOMAIN Entries |-> Reverse(Entries[kind])]

-----------------------------------------------------------------------------
(* The buffers.                                                            *)

\* No array is longer than the decoder takes.
SpanFits(p) == Len(p.events) <= MaxArray /\ Len(p.links) <= MaxArray

ScopeSpanFits(s) == Len(s.spans) <= MaxArray /\ \A i \in DOMAIN s.spans : SpanFits(s.spans[i])

Fits(message) ==
    /\ Len(message) <= MaxArray
    /\ \A i \in DOMAIN message :
          /\ Len(message[i].scope_spans) <= MaxArray
          /\ \A j \in DOMAIN message[i].scope_spans : ScopeSpanFits(message[i].scope_spans[j])

Expected(message) == IF Fits(message) THEN MsgpackDecode(message) ELSE NULL

Own(messages, order) ==
    [tokens |-> FlattenSeq([i \in DOMAIN messages |-> Wire(messages[i], order)]),
     expected |-> [i \in DOMAIN messages |-> Expected(messages[i])]]

\* The numbers of a map are such as its structure can hold.
Held(map) == \A key \in DOMAIN map \cap NumberKeys : Cut(key, map[key]) = map[key]

\* An event has a set of attributes, empty as it may be, unless its sender was
\* out of memory in ctr_span_event_add_ts.
SpanIsHeld(p) ==
    /\ Held(p) /\ Held(p.status)
    /\ \A i \in DOMAIN p.events : Held(p.events[i]) /\ p.events[i].attributes # NULL
    /\ \A i \in DOMAIN p.links : Held(p.links[i])

ScopeSpanIsHeld(s) ==
    /\ s.scope # NULL => Held(s.scope)
    /\ \A i \in DOMAIN s.spans : SpanIsHeld(s.spans[i])

ResourceSpanIsHeld(r) ==
    /\ Held(r.resource)
    /\ \A i \in DOMAIN r.scope_spans : ScopeSpanIsHeld(r.scope_spans[i])

\* Every key once, in some order.
Orders == {order \in [DOMAIN Entries -> Seq(STRING)] :
              \A kind \in DOMAIN Entries : /\ Len(order[kind]) = EntryCount[kind]
                                           /\ IsInjective(order[kind])
                                           /\ Range(order[kind]) = Range(Entries[kind])}

\* A map of the largest kind is not refused for its size.
ASSUME MapsAreTaken == MaxMap \in Nat /\ \A kind \in DOMAIN EntryCount : EntryCount[kind] <= MaxMap

ASSUME SentAssumption ==
    /\ MaxArray \in Nat
    /\ \A s \in Sent :
          /\ s.messages \in Seq(MsgpackMessage(Int)) /\ s.messages # <<>>
          /\ s.order \in Orders
          /\ \A i \in DOMAIN s.messages : \A j \in DOMAIN s.messages[i] :
                ResourceSpanIsHeld(s.messages[i][j])
    /\ \A b \in Buffer : b.expected # NULL => \E s \in Sent : b = Own(s.messages, s.order)

ASSUME NullIsNoContext ==
    \A s \in Sent : \A i \in DOMAIN s.messages :
        [j \in DOMAIN s.messages[i] |-> unpack_resource_span(s.messages[i][j])] # NULL

=============================================================================
