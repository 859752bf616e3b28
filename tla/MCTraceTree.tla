----------------------------- MODULE MCTraceTree -----------------------------
(* Constants for model checking TraceTree. *)
EXTENDS TraceTree, TLC

\* The calls that build the tree and take it down.
Structure == {"ctr_destroy", "ctr_resource_span_create", "ctr_scope_span_create",
              "ctr_span_create", "ctr_span_event_add", "ctr_link_create"}

Destructors == {"ctr_scope_span_destroy", "ctr_span_destroy",
                "ctr_span_event_delete", "ctr_link_destroy"}

\* The calls of both; a trace ID is a block that comes and goes.
LifecycleCalls == Structure \cup Destructors \cup
    {"ctr_resource_set_attributes", "ctr_span_set_trace_id"}

\* What reads the tree, with allocations that may fail; the setters of span
\* IDs, which ctr_span_create reads, and those of the nodes above the spans.
FailureCalls == Structure \cup Destructors \cup Encoders \cup
    {"ctr_resource_span_destroy", "ctr_resource_span_set_schema_url",
     "ctr_scope_span_set_schema_url", "ctr_span_event_set_attribute",
     "ctr_span_event_set_attributes", "ctr_span_set_span_id",
     "ctr_span_set_parent_span_id"}

\* The setters of strings, attribute sets and scopes, of spans and links.
OwnershipCalls == {"ctr_destroy", "ctr_resource_span_create", "ctr_scope_span_create",
    "ctr_span_create", "ctr_link_create", "ctr_link_destroy", "ctr_span_destroy",
    "ctr_scope_span_set_instrumentation_scope", "ctr_span_set_attributes",
    "ctr_span_set_trace_state", "ctr_span_set_schema_url", "ctr_span_set_status",
    "ctr_link_set_trace_state", "ctr_link_set_attributes",
    "ctr_encode_text_create", "ctr_encode_msgpack_create"}

\* Spans that get their IDs before or after they get children.
IdCalls == {"ctr_resource_span_create", "ctr_scope_span_create", "ctr_span_create",
            "ctr_span_set_span_id"}

\* Addresses of one type are interchangeable.
Symmetry == Permutations(RSpan) \cup Permutations(SSpan) \cup Permutations(Span)
              \cup Permutations(Event) \cup Permutations(Link)

==============================================================================
