------------------------------ MODULE TraceTree ------------------------------
(***************************************************************************)
(* The object tree of ctraces: one context, its resource spans, their      *)
(* scope spans, their spans, and each span's events and links, with the    *)
(* memory every object owns.  One action per call of the public API        *)
(* (ctraces.c, ctr_resource.c, ctr_scope.c, ctr_span.c, ctr_link.c).       *)
(*                                                                         *)
(* Each structure is a model value of the pool of its type: its address.   *)
(* A heap block a structure owns through a pointer field (an ID, a string, *)
(* an attribute set) is the slot <<address, field>>: NULL, owned, or       *)
(* dangling (the pointer survives its block).  A linked list is the set of *)
(* its nodes, for cfl_list_add and cfl_list_del are only ever given a node *)
(* that is in no list and in one; resource_spans, from which nothing is    *)
(* ever removed, keeps its order, as adding to it touches its last node.   *)
(*                                                                         *)
(* The first undefined behaviour ends the behaviour: "fault" names it and  *)
(* nothing happens after.  "met" is a history variable: which of the       *)
(* situations that the code leaves unguarded the calls have gone through.  *)
(*                                                                         *)
(* The client passes structures that it has not destroyed, hands over an   *)
(* attribute set or a scope once (the structure that takes it owns it from *)
(* then on), and gives strings and IDs that are its own, or that a         *)
(* structure of the tree still owns.                                       *)
(***************************************************************************)
EXTENDS Naturals, Sequences

CONSTANTS
    RSpan,      \* addresses of struct ctrace_resource_span
    SSpan,      \* addresses of struct ctrace_scope_span
    Span,       \* addresses of struct ctrace_span
    Event,      \* addresses of struct ctrace_span_event
    Link,       \* addresses of struct ctrace_link
    NULL,       \* the null pointer, as the argument of a call
    Arg,        \* any other argument: the caller's bytes, string or object
    Calls,      \* the API functions that the client uses
    MayFail     \* whether an allocation may fail

Node == RSpan \cup SSpan \cup Span \cup Event \cup Link

ASSUME PoolsAreDisjoint ==
    /\ RSpan \cap (SSpan \cup Span \cup Event \cup Link) = {}
    /\ SSpan \cap (Span \cup Event \cup Link) = {}
    /\ Span \cap (Event \cup Link) = {}
    /\ Event \cap Link = {}
    /\ NULL # Arg /\ {NULL, Arg} \cap Node = {}

ASSUME MayFailIsBoolean == MayFail \in BOOLEAN

VARIABLES
    ctx,             \* TRUE while the context is allocated
    last_span_id,    \* ctx->last_span_id
    live,            \* the allocated structures
    resource_spans,  \* ctx->resource_spans, in order
    kids,            \* per structure, the nodes of its list(s): scope_spans
                     \* of a resource span, spans of a scope span, events
                     \* and links of a span
    span_list,       \* ctx->span_list
    owned,           \* the slots that point to an allocated block
    dangling,        \* the slots that point to a freed block
    leaked,          \* slots that lost a block nobody freed
    children,        \* history: the spans created with a parent span
    met,             \* history: the unguarded situations gone through
    fault,           \* the first undefined behaviour, or "none"
    ret              \* what the last call returned: "ok", "fail" (NULL, -1)

tree == <<live, resource_spans, kids, span_list, children, last_span_id>>
heap == <<owned, dangling, leaked>>
vars == <<ctx, tree, heap, met, fault, ret>>

-----------------------------------------------------------------------------
(* The structures and what they own.                                       *)

RSpanSlot == RSpan \X {"resource", "resource_attr", "schema_url"}
SSpanSlot == SSpan \X {"instrumentation_scope", "schema_url"}
SpanSlot  == Span  \X {"name", "trace_id", "span_id", "parent_span_id",
                       "attr", "trace_state", "schema_url", "message"}
EventSlot == Event \X {"name", "attr"}
LinkSlot  == Link  \X {"trace_id", "span_id", "trace_state", "attr"}

Slot == RSpanSlot \cup SSpanSlot \cup SpanSlot \cup EventSlot \cup LinkSlot

\* The slots of the structures in D.
SlotsOf(D) == {x \in Slot : x[1] \in D}

Listed == {resource_spans[i] : i \in DOMAIN resource_spans}

\* The situations that the code does not guard against.
Situation == {"status_cleared", "link_reset", "resource_failed",
              "rspan_destroyed", "event_attr_missing",
              "link_without_trace_id", "own_value", "otlp_no_memory"}

\* The outcomes of an allocation.
Alloc == IF MayFail THEN BOOLEAN ELSE {TRUE}

-----------------------------------------------------------------------------
(* How a call ends.                                                        *)

Called(f) == ctx /\ fault = "none" /\ f \in Calls

Return(r) == ret' = r /\ UNCHANGED <<ctx, met, fault>>

\* Nothing to undo: a failed allocation, or an argument that is refused.
Refuse == Return("fail") /\ UNCHANGED <<tree, heap>>

\* The call runs into undefined behaviour.
Misuse(kind, situation) ==
    /\ fault' = kind
    /\ met' = met \cup situation
    /\ UNCHANGED <<ctx, tree, heap, ret>>

-----------------------------------------------------------------------------
(* Lists and structures.                                                   *)

\* The new structure n, zeroed by calloc but for the slots given, at the end
\* of p's list; cfl_list_add writes to the list's last node.
Attach(n, p, slots) ==
    /\ live' = live \cup {n}
    /\ kids' = [kids EXCEPT ![p] = @ \cup {n}, ![n] = {}]
    /\ owned' = owned \cup slots
    /\ UNCHANGED <<resource_spans, last_span_id, dangling, leaked>>

\* Mutants: a walk that stops at the second list; one that goes through the
\* list that n is in.
SubtreeShallow(n) == {n} \cup kids[n] \cup UNION {kids[m] : m \in kids[n]}
SubtreeOfSiblings(n) ==
    LET level == {n} \cup UNION {kids[p] : p \in {q \in Node : n \in kids[q]}}
        below1 == UNION {kids[m] : m \in level}
        below2 == UNION {kids[m] : m \in below1}
    IN  level \cup below1 \cup below2 \cup UNION {kids[m] : m \in below2}

\* What a walk from n through the lists visits.
Subtree(n) ==
    LET below1 == kids[n]
        below2 == UNION {kids[m] : m \in below1}
        below3 == UNION {kids[m] : m \in below2}
    IN  {n} \cup below1 \cup below2 \cup below3

\* The slots whose block each destructor frees.
RSpanFrees == RSpan \X {"resource", "resource_attr", "schema_url"}
SSpanFrees == SSpan \X {"instrumentation_scope", "schema_url"}
SpanFrees  == Span  \X {"name", "trace_id", "span_id", "parent_span_id",
                        "attr", "trace_state", "schema_url", "message"}
EventFrees == Event \X {"name", "attr"}
LinkFreesButState == Link \X {"trace_id", "span_id", "attr"}    \* mutant
LinkFrees  == Link  \X {"trace_id", "span_id", "trace_state", "attr"}

Frees == RSpanFrees \cup SSpanFrees \cup SpanFrees \cup EventFrees \cup LinkFrees

UnlinksButEvents == SSpan \cup Span \cup Link                   \* mutant

\* The structures whose destructor takes them out of their parent's list:
\* every cfl_list_del(&x->_head).
Unlinks == SSpan \cup Span \cup Event \cup Link

UnlinksGlobalNever == {}                                       \* mutant

\* cfl_list_del(&span->_head_global)
UnlinksGlobal == Span

\* The nodes that a destruction of D reads or writes: those it frees and, for
\* cfl_list_del, their neighbours.
Touched(D) ==
    D \cup (UNION {kids[p] : p \in {q \in Node : kids[q] \cap D # {}}})
      \cup (IF D \cap UnlinksGlobal = {} THEN {} ELSE span_list)

\* What goes wrong in a destruction of D.
DestroyFaults(D) ==
    (IF Touched(D) \subseteq live THEN {} ELSE {"use_after_free"}) \cup
    (IF SlotsOf(D) \cap dangling = {} THEN {} ELSE {"double_free"})

\* The destructors, run over the structures in D.
Release(D) ==
    /\ live' = live \ D
    /\ kids' = [m \in Node |-> IF m \in D THEN {} ELSE kids[m] \ (D \cap Unlinks)]
    /\ span_list' = span_list \ (D \cap UnlinksGlobal)
    /\ owned' = owned \ SlotsOf(D)
    /\ leaked' = leaked \cup ((owned \cap SlotsOf(D)) \ Frees)
    /\ children' = children \ D
    /\ UNCHANGED <<dangling, last_span_id>>

Destroy(D, situation) ==
    IF DestroyFaults(D) = {}
    THEN /\ Release(D)
         /\ ret' = "ok"
         /\ met' = met \cup situation
         /\ UNCHANGED <<ctx, resource_spans, fault>>
    ELSE \E kind \in DestroyFaults(D) : Misuse(kind, situation)

-----------------------------------------------------------------------------
(* Owned blocks.                                                           *)

\* Mutants: the pointer to the freed block stays when the creation fails; the
\* failure is not reported.
ReplaceDangling(x, from, onFailure) ==
    IF x \in dangling THEN Misuse("double_free", {})
    ELSE IF from = x THEN Misuse("use_after_free", {"own_value"})
    ELSE /\ \E ok \in Alloc :
              /\ owned' = IF ok THEN owned \cup {x} ELSE owned \ {x}
              /\ dangling' = IF ok THEN dangling ELSE dangling \cup ({x} \cap owned)
              /\ Return(IF ok THEN "ok" ELSE onFailure)
         /\ UNCHANGED <<tree, leaked>>
ReplaceSilently(x, from, onFailure) ==
    /\ \E ok \in Alloc : owned' = IF ok THEN owned \cup {x} ELSE owned \ {x}
    /\ Return("ok")
    /\ UNCHANGED <<tree, dangling, leaked>>

\* "If it is set, free it; create a copy of what was given": if that fails the
\* slot is NULL, and the call answers onFailure.  What was given may be the
\* block that has just been freed.
Replace(x, from, onFailure) ==
    IF x \in dangling THEN Misuse("double_free", {})
    ELSE IF from = x THEN Misuse("use_after_free", {"own_value"})
    ELSE /\ \E ok \in Alloc :
              /\ owned' = IF ok THEN owned \cup {x} ELSE owned \ {x}
              /\ Return(IF ok THEN "ok" ELSE onFailure)
         /\ UNCHANGED <<tree, dangling, leaked>>

\* Mutant: frees the old one and forgets to keep the new one.
TakeNothing(x) ==
    owned' = owned \ {x} /\ Return("ok") /\ UNCHANGED <<tree, dangling, leaked>>

\* "If it is set, free it; take the caller's": nothing to allocate.
Take(x) ==
    IF x \in dangling THEN Misuse("double_free", {})
    ELSE /\ owned' = owned \cup {x}
         /\ Return("ok")
         /\ UNCHANGED <<tree, dangling, leaked>>

\* The new pointer overwrites the old one, whose block is lost.
Overwrite(x, outcomes) ==
    /\ \E ok \in outcomes :
         /\ owned' = IF ok THEN owned \cup {x} ELSE owned \ {x}
         /\ ret' = IF ok THEN "ok" ELSE "fail"
    /\ leaked' = leaked \cup ({x} \cap owned)
    /\ met' = met \cup (IF x \in owned THEN {"link_reset"} ELSE {})
    /\ UNCHANGED <<ctx, tree, dangling, fault>>

-----------------------------------------------------------------------------
(* The context.                                                            *)

ctr_create ==
    /\ ~ctx /\ fault = "none"
    /\ \E ok \in Alloc : ctx' = ok /\ ret' = IF ok THEN "ok" ELSE "fail"
    /\ resource_spans' = <<>> /\ span_list' = {} /\ last_span_id' = 0
    /\ UNCHANGED <<live, kids, children, heap, met, fault>>

\* The walk over ctx->resource_spans reads every node it lists.
ctr_destroy ==
    LET all == UNION {Subtree(r) : r \in Listed}
    IN  /\ Called("ctr_destroy")
        /\ IF DestroyFaults(all) = {}
           THEN /\ Release(all)
                /\ ctx' = FALSE /\ resource_spans' = <<>> /\ ret' = "ok"
                /\ UNCHANGED <<met, fault>>
           ELSE \E kind \in DestroyFaults(all) : Misuse(kind, {})

-----------------------------------------------------------------------------
(* Resource spans.                                                         *)

\* The last node of ctx->resource_spans has been freed under the list.
StaleTail ==
    resource_spans # <<>> /\ resource_spans[Len(resource_spans)] \notin live

\* The structure is linked before its resource is created; when that fails
\* it is freed, and still linked.
LinkRSpan(r, ok) ==
    /\ resource_spans' = Append(resource_spans, r)
    /\ live' = IF ok THEN live \cup {r} ELSE live
    /\ kids' = [kids EXCEPT ![r] = {}]
    /\ owned' = IF ok THEN owned \cup {<<r, "resource">>, <<r, "resource_attr">>}
                      ELSE owned
    /\ ret' = IF ok THEN "ok" ELSE "fail"
    /\ met' = met \cup (IF ok THEN {} ELSE {"resource_failed"})
    /\ UNCHANGED <<ctx, span_list, children, last_span_id, dangling, leaked, fault>>

ctr_resource_span_create ==
    /\ Called("ctr_resource_span_create")
    /\ \/ MayFail /\ Refuse
       \/ \E r \in RSpan \ (live \cup Listed) :
            IF StaleTail THEN Misuse("use_after_free", {})
                         ELSE \E ok \in Alloc : LinkRSpan(r, ok)

ctr_resource_span_set_schema_url(r, url) ==
    Called("ctr_resource_span_set_schema_url") /\ Replace(<<r, "schema_url">>, url, "fail")

ctr_resource_set_attributes(r, attr) ==
    /\ Called("ctr_resource_set_attributes")
    /\ IF attr = NULL THEN Refuse ELSE Take(<<r, "resource_attr">>)

\* Frees the structure and does not take it out of ctx->resource_spans.
ctr_resource_span_destroy(r) ==
    /\ Called("ctr_resource_span_destroy")
    /\ Destroy(Subtree(r), {"rspan_destroyed"})

-----------------------------------------------------------------------------
(* Scope spans.                                                            *)

\* Mutant: links the scope span to ctx->span_list too.
ScopeSpanCreateGlobal(r) ==
    /\ Called("ctr_scope_span_create")
    /\ \E s \in SSpan \ live :
         /\ Attach(s, r, {})
         /\ Return("ok")
         /\ span_list' = span_list \cup {s} /\ UNCHANGED children

ctr_scope_span_create(r) ==
    /\ Called("ctr_scope_span_create")
    /\ \/ MayFail /\ Refuse
       \/ \E s \in SSpan \ live :
            IF ~(kids[r] \subseteq live) THEN Misuse("use_after_free", {})
            ELSE /\ Attach(s, r, {})
                 /\ Return("ok")
                 /\ UNCHANGED <<span_list, children>>

ctr_scope_span_set_schema_url(s, url) ==
    Called("ctr_scope_span_set_schema_url") /\ Replace(<<s, "schema_url">>, url, "fail")

\* NULL is taken too: it clears the field.
ctr_scope_span_set_instrumentation_scope(s, scope) ==
    LET x == <<s, "instrumentation_scope">>
    IN  /\ Called("ctr_scope_span_set_instrumentation_scope")
        /\ IF x \in dangling THEN Misuse("double_free", {})
           ELSE /\ owned' = IF scope = NULL THEN owned \ {x} ELSE owned \cup {x}
                /\ Return("ok")
                /\ UNCHANGED <<tree, dangling, leaked>>

ctr_scope_span_destroy(s) ==
    Called("ctr_scope_span_destroy") /\ Destroy(Subtree(s), {})

-----------------------------------------------------------------------------
(* Spans.                                                                  *)

\* The parent span's ID is copied if it has one, and whether the copy could
\* be allocated is not looked at.
ParentIds(p, parent) ==
    IF parent # NULL /\ <<parent, "span_id">> \in owned
    THEN {IF ok THEN {<<p, "parent_span_id">>} ELSE {} : ok \in Alloc}
    ELSE {{}}

ctr_span_create(s, parent) ==
    /\ Called("ctr_span_create")
    /\ \/ MayFail /\ Refuse
       \/ \E p \in Span \ live :
            IF ~(kids[s] \cup span_list \subseteq live)
            THEN Misuse("use_after_free", {})
            ELSE /\ \E id \in ParentIds(p, parent) :
                      Attach(p, s, {<<p, "name">>, <<p, "attr">>} \cup id)
                 /\ span_list' = span_list \cup {p}
                 /\ children' = IF parent = NULL THEN children
                                                 ELSE children \cup {p}
                 /\ Return("ok")

\* The bytes of an ID come from the caller or from the ID of some span.
SetId(p, field, from) ==
    IF from = NULL THEN Refuse ELSE Replace(<<p, field>>, from, "fail")

ctr_span_set_trace_id(p, from) ==
    Called("ctr_span_set_trace_id") /\ SetId(p, "trace_id", from)

ctr_span_set_span_id(p, from) ==
    Called("ctr_span_set_span_id") /\ SetId(p, "span_id", from)

ctr_span_set_parent_span_id(p, from) ==
    Called("ctr_span_set_parent_span_id") /\ SetId(p, "parent_span_id", from)

ctr_span_set_attributes(p, attr) ==
    /\ Called("ctr_span_set_attributes")
    /\ IF attr = NULL THEN Refuse ELSE Take(<<p, "attr">>)

ctr_span_set_trace_state(p, state) ==
    Called("ctr_span_set_trace_state") /\ Replace(<<p, "trace_state">>, state, "fail")

\* Returns nothing: its caller does not learn of a failure.
ctr_span_set_schema_url(p, url) ==
    Called("ctr_span_set_schema_url") /\ Replace(<<p, "schema_url">>, url, "ok")

\* The old message is freed; without a new one the pointer to it stays.
ctr_span_set_status(p, message) ==
    LET x == <<p, "message">>
    IN  /\ Called("ctr_span_set_status")
        /\ IF message # NULL THEN Replace(x, message, "fail")
           ELSE IF x \in dangling THEN Misuse("double_free", {})
           ELSE /\ owned' = owned \ {x}
                /\ dangling' = dangling \cup ({x} \cap owned)
                /\ met' = met \cup (IF x \in owned THEN {"status_cleared"} ELSE {})
                /\ ret' = "ok"
                /\ UNCHANGED <<ctx, tree, leaked, fault>>

ctr_span_destroy(p) ==
    Called("ctr_span_destroy") /\ Destroy(Subtree(p), {})

-----------------------------------------------------------------------------
(* Events.                                                                 *)

\* Whether the attribute set could be allocated is not looked at.
ctr_span_event_add(p, name) ==
    /\ Called("ctr_span_event_add")
    /\ \/ (MayFail \/ name = NULL) /\ Refuse
       \/ /\ name # NULL
          /\ \E e \in Event \ live :
               IF ~(kids[p] \cap Event \subseteq live)
               THEN Misuse("use_after_free", {})
               ELSE \E ok \in Alloc :
                      /\ Attach(e, p, {<<e, "name">>} \cup
                                      (IF ok THEN {<<e, "attr">>} ELSE {}))
                      /\ met' = met \cup (IF ok THEN {} ELSE {"event_attr_missing"})
                      /\ ret' = "ok"
                      /\ UNCHANGED <<ctx, span_list, children, fault>>

\* The six ctr_span_event_set_attribute_*: event->attr is read unchecked.
ctr_span_event_set_attribute(e) ==
    /\ Called("ctr_span_event_set_attribute")
    /\ IF <<e, "attr">> \in owned THEN Return("ok") /\ UNCHANGED <<tree, heap>>
                                  ELSE Misuse("null_deref", {})

ctr_span_event_set_attributes(e, attr) ==
    /\ Called("ctr_span_event_set_attributes")
    /\ IF attr = NULL THEN Refuse ELSE Take(<<e, "attr">>)

ctr_span_event_delete(e) ==
    Called("ctr_span_event_delete") /\ Destroy({e}, {})

-----------------------------------------------------------------------------
(* Links.                                                                  *)

\* Mutant: links the structure before it creates the IDs.
LinkCreateLinksFirst(p, given) ==
    /\ Called("ctr_link_create")
    /\ \E l \in Link \ live, ok \in Alloc :
         /\ Attach(l, p, IF ok THEN {l} \X given ELSE {})
         /\ Return(IF ok THEN "ok" ELSE "fail")
         /\ UNCHANGED <<span_list, children>>

\* given: which of "trace_id" and "span_id" the caller passes; they are copied,
\* and nothing is freed before, whosever they are.  When the span
\* ID cannot be allocated, the trace ID is freed whether there is one or not.
ctr_link_create(p, given) ==
    /\ Called("ctr_link_create")
    /\ \/ MayFail /\ Refuse
       \/ /\ MayFail /\ given = {"span_id"}
          /\ Misuse("null_deref", {"link_without_trace_id"})
       \/ \E l \in Link \ live :
            IF ~(kids[p] \cap Link \subseteq live)
            THEN Misuse("use_after_free", {})
            ELSE /\ Attach(l, p, {l} \X given)
                 /\ Return("ok")
                 /\ UNCHANGED <<span_list, children>>

\* Copies the string first: the link's own is lost as any other, and not read
\* after.
ctr_link_set_trace_state(l, trace_state) ==
    /\ Called("ctr_link_set_trace_state")
    /\ IF trace_state = NULL THEN Refuse
                             ELSE Overwrite(<<l, "trace_state">>, Alloc)

ctr_link_set_attributes(l, attr) ==
    /\ Called("ctr_link_set_attributes")
    /\ IF attr = NULL THEN Refuse ELSE Overwrite(<<l, "attr">>, {TRUE})

ctr_link_destroy(l) == Called("ctr_link_destroy") /\ Destroy({l}, {})

-----------------------------------------------------------------------------
(* Encoding reads the whole tree and changes nothing.  Without memory, the   *)
(* OpenTelemetry encoder uses what it could not allocate (OtlpEncode).       *)

\* The encoders that read event->attr unchecked.
NeedsEventAttr == {"ctr_encode_text_create", "ctr_encode_opentelemetry_create"}

EncodeFaults(encoder) ==
    LET all == UNION {Subtree(r) : r \in Listed}
    IN  (IF all \subseteq live /\ SlotsOf(all) \cap dangling = {}
         THEN {} ELSE {"use_after_free"}) \cup
        (IF encoder \notin NeedsEventAttr \/ \A e \in all \cap Event : <<e, "attr">> \in owned
         THEN {} ELSE {"null_deref"})

Encode(encoder) ==
    /\ Called(encoder)
    /\ \/ MayFail /\ Refuse
       \/ /\ MayFail /\ encoder = "ctr_encode_opentelemetry_create"
          /\ Misuse("null_deref", {"otlp_no_memory"})
       \/ IF EncodeFaults(encoder) = {} THEN Return("ok") /\ UNCHANGED <<tree, heap>>
          ELSE \E kind \in EncodeFaults(encoder) : Misuse(kind, {})

-----------------------------------------------------------------------------

Init ==
    /\ ctx = FALSE /\ last_span_id = 0
    /\ live = {} /\ resource_spans = <<>> /\ kids = [n \in Node |-> {}]
    /\ span_list = {} /\ children = {}
    /\ owned = {} /\ dangling = {} /\ leaked = {}
    /\ met = {} /\ fault = "none" /\ ret = "ok"

\* The strings and the IDs of the tree that a client may pass to the setters, as
\* the fields of the structures are public.  A string that no setter frees (a
\* name, the trace state of a link) is as good as the caller's: Arg.
Strings == owned \cap
    ((RSpan \cup SSpan \cup Span) \X {"schema_url", "trace_state", "message"})

SpanIds == owned \cap (Span \X {"trace_id", "span_id", "parent_span_id"})

ResourceSpanCall ==
    \E r \in live \cap RSpan :
        \/ \E url \in {Arg} \cup Strings : ctr_resource_span_set_schema_url(r, url)
        \/ \E attr \in {NULL, Arg} : ctr_resource_set_attributes(r, attr)
        \/ ctr_resource_span_destroy(r)
        \/ ctr_scope_span_create(r)

ScopeSpanCall ==
    \E s \in live \cap SSpan :
        \/ \E url \in {Arg} \cup Strings : ctr_scope_span_set_schema_url(s, url)
        \/ \E scope \in {NULL, Arg} : ctr_scope_span_set_instrumentation_scope(s, scope)
        \/ ctr_scope_span_destroy(s)
        \/ \E parent \in {NULL} \cup (live \cap Span) : ctr_span_create(s, parent)

SpanCall ==
    \E p \in live \cap Span :
        \/ \E from \in {NULL, Arg} \cup SpanIds :
              \/ ctr_span_set_trace_id(p, from)
              \/ ctr_span_set_span_id(p, from)
              \/ ctr_span_set_parent_span_id(p, from)
        \/ \E attr \in {NULL, Arg} : ctr_span_set_attributes(p, attr)
        \/ \E state \in {Arg} \cup Strings : ctr_span_set_trace_state(p, state)
        \/ \E url \in {Arg} \cup Strings : ctr_span_set_schema_url(p, url)
        \/ \E message \in {NULL, Arg} \cup Strings : ctr_span_set_status(p, message)
        \/ ctr_span_destroy(p)
        \/ \E name \in {NULL, Arg} : ctr_span_event_add(p, name)
        \/ \E given \in SUBSET {"trace_id", "span_id"} : ctr_link_create(p, given)

EventCall ==
    \E e \in live \cap Event :
        \/ ctr_span_event_set_attribute(e)
        \/ \E attr \in {NULL, Arg} : ctr_span_event_set_attributes(e, attr)
        \/ ctr_span_event_delete(e)

LinkCall ==
    \E l \in live \cap Link :
        \/ \E trace_state \in {NULL, Arg} \cup Strings : ctr_link_set_trace_state(l, trace_state)
        \/ \E attr \in {NULL, Arg} : ctr_link_set_attributes(l, attr)
        \/ ctr_link_destroy(l)

Encoders == {"ctr_encode_text_create", "ctr_encode_msgpack_create",
             "ctr_encode_opentelemetry_create"}

Next ==
    \/ ctr_create
    \/ ctr_destroy
    \/ ctr_resource_span_create
    \/ ResourceSpanCall
    \/ ScopeSpanCall
    \/ SpanCall
    \/ EventCall
    \/ LinkCall
    \/ \E encoder \in Encoders : Encode(encoder)

Spec == Init /\ [][Next]_vars

-----------------------------------------------------------------------------
(* Correctness.                                                            *)

\* The type invariant: every variable has its type, only listed kinds of
\* structures are children of each kind, and no memory outlives its structure.
TypeOK ==
    /\ ctx \in BOOLEAN /\ last_span_id \in Nat
    /\ live \subseteq Node /\ span_list \subseteq Span /\ children \subseteq Span
    /\ resource_spans \in Seq(RSpan)
    /\ kids \in [Node -> SUBSET Node]
    /\ owned \subseteq Slot /\ dangling \subseteq Slot /\ leaked \subseteq Slot
    /\ met \subseteq Situation
    /\ fault \in {"none", "use_after_free", "double_free", "null_deref"}
    /\ ret \in {"ok", "fail"}

\* Which structures may be in the lists of which.
Levels ==
    /\ \A r \in RSpan : kids[r] \subseteq SSpan
    /\ \A s \in SSpan : kids[s] \subseteq Span
    /\ \A p \in Span : kids[p] \subseteq Event \cup Link
    /\ \A n \in Event \cup Link : kids[n] = {}

\* Lists and lifetimes agree, whatever sequence of calls: a list names no
\* freed structure and a freed structure keeps no list; every structure is in
\* exactly one list, of a structure that is alive, or is a resource span that
\* the context lists.  (The cascade of the destructors and of cfl_list_del,
\* ctr_scope.c:38-61, ctr_span.c:350-407 and 503-515, ctr_link.c:113-133.)
ListsAreExact ==
    /\ \A p \in Node : kids[p] \subseteq live /\ (p \notin live => kids[p] = {})
    /\ \A p, q \in Node : p # q => kids[p] \cap kids[q] = {}
    /\ \A n \in live \ RSpan : \E p \in live : n \in kids[p]
    /\ live \cap RSpan \subseteq Listed

\* "every 'span' is linked to a 'scope_span' and to 'span_list'" (ctraces.h:62):
\* the context's list of all spans is the union of the scope spans' lists, also
\* after a span, a scope span or a resource span is destroyed.
SpansAreInBothLists ==
    /\ span_list = live \cap Span
    /\ span_list = UNION {kids[s] : s \in SSpan}

\* The context's list of resource spans holds a freed one only after a failed
\* ctr_resource_span_create, which frees what it has linked, or after a direct
\* ctr_resource_span_destroy, which does not unlink.
FreedButListed ==
    Listed \subseteq live \/ met \cap {"resource_failed", "rspan_destroyed"} # {}

\* A context that has been destroyed leaves nothing behind (ctraces.c:58-71):
\* no structure, and no block that one of them owned.
NothingOutlivesContext ==
    ~ctx => live = {} /\ owned = {} /\ dangling = {} /\ span_list = {}

\* Every misuse of memory comes from one of the situations that the code leaves
\* unguarded; a program that keeps to the rules for clients above and avoids
\* these never meets undefined behaviour.  Setting a structure's ID or string
\* from itself is one of them: the setters free before they copy
\* (ctr_span.c:97-103, 286-291, 303-307, 323-327; ctr_resource.c:125-129;
\* ctr_scope.c:66-70).
FaultsAreEarned ==
    /\ fault = "double_free" => "status_cleared" \in met
    /\ fault = "null_deref" =>
          met \cap {"event_attr_missing", "link_without_trace_id", "otlp_no_memory"} # {}
    /\ fault = "use_after_free" =>
          met \cap {"status_cleared", "resource_failed", "rspan_destroyed", "own_value"} # {}

\* A pointer to a freed block is only ever a span's status message, and only
\* after ctr_span_set_status cleared it (ctr_span.c:281-299).
OnlyMessagesDangle ==
    /\ dangling \subseteq Span \X {"message"}
    /\ dangling # {} => "status_cleared" \in met

\* The abstract promise: see OwnedForest.  A structure's parent is the one in
\* whose list it is.
Root == Arg
parent == [n \in live |-> IF n \in RSpan THEN Root
                                         ELSE CHOOSE p \in Node : n \in kids[p]]

Forest == INSTANCE OwnedForest WITH Node <- Node, Root <- Root, parent <- parent

\* The tree implements the forest: structures never move, and disappear only
\* with everything below them.
ImplementsForest == Forest!Spec

\* Memory is lost only by the two setters of a link that overwrite a value
\* (ctr_link.c:79-101), never by another setter, a failed call or a destructor.
LeaksAreEarned ==
    /\ leaked \subseteq Link \X {"trace_state", "attr"}
    /\ leaked # {} => "link_reset" \in met

\* A structure is complete: a span has a name and an attribute set, a resource
\* span a resource, whatever failed while it was created or changed; an event
\* may lack its attribute set, and then the client has met that situation.
LiveIsComplete ==
    /\ \A p \in live \cap Span : {<<p, "name">>, <<p, "attr">>} \subseteq owned
    /\ \A r \in live \cap RSpan : {<<r, "resource">>, <<r, "resource_attr">>} \subseteq owned
    /\ \A e \in live \cap Event :
          /\ <<e, "name">> \in owned
          /\ <<e, "attr">> \in owned \/ "event_attr_missing" \in met

\* A call that answers NULL or -1 has added and removed no structure and linked
\* none, unless the resource of a resource span could not be created.
FailureAddsNothing ==
    [][ ret' = "fail" /\ fault' = "none" =>
          /\ UNCHANGED <<live, kids, span_list>>
          /\ resource_spans' = resource_spans \/ "resource_failed" \in met' \ met ]_vars

\* A value that a live structure loses is reported by -1; three fields are
\* lost without a word: the two that NULL clears, and a span's schema URL,
\* whose setter returns nothing (ctr_span.c:321-328).
LossIsReported ==
    [][ \A x \in owned \ owned' :
          \/ x[1] \notin live'
          \/ ret' = "fail"
          \/ x \in (Span \X {"message", "schema_url"}) \cup (SSpan \X {"instrumentation_scope"})
      ]_vars

\* ctraces.h:46-50 says of ctx->last_span_id that "every time a new span is
\* created this value gets incremented".
LastSpanIdCounts ==
    [][ Span \cap (live' \ live) # {} => last_span_id' > last_span_id ]_vars

\* ctr_span.h:69 says of parent_span_id that "a NULL means a root span": a span
\* that was created with a parent has one.
NullParentMeansRoot ==
    \A p \in children : <<p, "parent_span_id">> \in owned

=============================================================================
