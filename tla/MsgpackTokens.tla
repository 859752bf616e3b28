----------------------------- MODULE MsgpackTokens -----------------------------
(***************************************************************************)
(* What the bytes of a MessagePack message are, as tokens: the encoder     *)
(* (ctr_encode_msgpack.c) writes every map with its number of entries and  *)
(* then the entries, a key before each value.                              *)
(*                                                                         *)
(* A token is a pair of its type and its content.  Strings come as three   *)
(* types, keys, digits of identifiers and all others; a set of attributes  *)
(* is one token (VariantUnpacker has its parts), "badattrs" where the      *)
(* decoder cannot read it.                                                 *)
(***************************************************************************)
EXTENDS MsgpackCodec, SequencesExt

Nil == <<"nil", 0>>
Map(count) == <<"map", count>>
Array(count) == <<"array", count>>
KeyToken(key) == <<"key", key>>
Number(n) == <<"num", n>>

StringTypes == {"key", "id", "str", "long", "torn"}

\* The maps, each with its entries in the order in which they are written.
Entries ==
    [context       |-> <<"resourceSpans">>,
     resource_span |-> <<"resource", "schema_url", "scope_spans">>,
     resource      |-> <<"attributes", "dropped_attributes_count">>,
     scope_span    |-> <<"scope", "spans", "schema_url">>,
     scope         |-> <<"name", "version", "attributes", "dropped_attributes_count">>,
     span          |-> <<"trace_id", "span_id", "parent_span_id", "trace_state", "name", "kind",
                         "start_time_unix_nano", "end_time_unix_nano", "attributes",
                         "dropped_attributes_count", "dropped_events_count",
                         "dropped_links_count", "events", "links", "schema_url", "status">>,
     event         |-> <<"time_unix_nano", "name", "attributes", "dropped_attributes_count">>,
     link          |-> <<"trace_id", "span_id", "trace_state", "attributes",
                         "dropped_attributes_count">>,
     status        |-> <<"code", "message">>]

\* The numbers of entries, which the code gives apart from them.
EntryCount ==
    [context |-> 1, resource_span |-> 3, resource |-> 2, scope_span |-> 3, scope |-> 4,
     span |-> 16, event |-> 4, link |-> 5, status |-> 2]

\* What the elements of an array are.
Element == [resourceSpans |-> "resource_span", scope_spans |-> "scope_span", spans |-> "span",
            events |-> "event", links |-> "link"]

IdKeys == {"trace_id", "span_id", "parent_span_id"}
MapKeys == {"resource", "scope", "status"}
ArrayKeys == DOMAIN Element
StringKeys == {"schema_url", "name", "version", "trace_state", "message"}
NumberKeys == {"dropped_attributes_count", "dropped_events_count", "dropped_links_count",
               "kind", "code", "time_unix_nano", "start_time_unix_nano", "end_time_unix_nano"}

=============================================================================
