---------------------------- MODULE TextEncoder ----------------------------
(***************************************************************************)
(* What the text of a context shows (ctr_encode_text.c), as the tree of    *)
(* what is printed: every field in the words it appears in.  Layout, and   *)
(* the cut of a line at 1022 bytes, are left out.                          *)
(***************************************************************************)
EXTENDS TraceData

\* printf of a null string.
Printed(s) == IF s = NULL THEN "(null)" ELSE s

\* NULL stands for the words that tell that there is no identifier
\* (CTR_ID_TRACE_DEFAULT, CTR_ID_SPAN_DEFAULT): no digits read so.
PrintedId(id) == IF id = NULL THEN NULL ELSE ctr_id_to_lower_base16(id)

\* Nothing is printed for bytes; of a list or an array, what can be printed is.
\* For an empty set, and for the NULL of a link or of a scope, a word tells so.
format_attributes(attr) ==
    [i \in DOMAIN attr |->
        [key |-> attr[i].key, value |-> IF attr[i].value = "bytes" THEN "" ELSE attr[i].value]]

format_event(e) ==
    [name       |-> Printed(e.name),
     timestamp  |-> e.time_unix_nano,
     dropped    |-> e.dropped_attr_count,
     attributes |-> format_attributes(e.attr)]

format_link(l) ==
    [trace_id    |-> PrintedId(l.trace_id),
     span_id     |-> PrintedId(l.span_id),
     trace_state |-> Printed(l.trace_state),
     dropped     |-> l.dropped_attr_count,
     attributes  |-> IF l.attr = NULL THEN NULL ELSE format_attributes(l.attr)]

\* The flags are not printed.
format_span(p) ==
    [name           |-> Printed(p.name),
     trace_id       |-> PrintedId(p.trace_id),
     span_id        |-> PrintedId(p.span_id),
     parent_span_id |-> PrintedId(p.parent_span_id),
     kind           |-> p.kind,
     times          |-> <<p.start_time_unix_nano, p.end_time_unix_nano>>,
     dropped        |-> <<p.dropped_attr_count, p.dropped_events_count, p.dropped_links_count>>,
     trace_state    |-> Printed(p.trace_state),
     schema_url     |-> {p.schema_url} \ {NULL},
     code           |-> p.status.code,
     message        |-> {p.status.message} \ {NULL},
     attributes     |-> format_attributes(p.attr),
     events         |-> [i \in DOMAIN p.events |-> format_event(p.events[i])],
     links          |-> [i \in DOMAIN p.links |-> format_link(p.links[i])]]

format_instrumentation_scope(scope) ==
    [name       |-> Printed(scope.name),
     version    |-> Printed(scope.version),
     dropped    |-> scope.dropped_attr_count,
     attributes |-> IF scope.attr = NULL THEN NULL ELSE format_attributes(scope.attr)]

\* A schema URL that is not set is printed as two quotes.
PrintedUrl(url) == IF url = NULL THEN "\"\"" ELSE url

format_scope_span(s) ==
    [scope      |-> IF s.instrumentation_scope = NULL THEN NULL
                    ELSE format_instrumentation_scope(s.instrumentation_scope),
     schema_url |-> PrintedUrl(s.schema_url),
     spans      |-> [i \in DOMAIN s.spans |-> format_span(s.spans[i])]]

ctr_encode_text_create(ctx) ==
    [i \in DOMAIN ctx |->
        [attributes  |-> format_attributes(ctx[i].resource.attr),
         dropped     |-> ctx[i].resource.dropped_attr_count,
         schema_url  |-> PrintedUrl(ctx[i].schema_url),
         scope_spans |-> [j \in DOMAIN ctx[i].scope_spans |->
                             format_scope_span(ctx[i].scope_spans[j])]]]

=============================================================================
