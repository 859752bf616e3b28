------------------------------ MODULE TraceData ------------------------------
(***************************************************************************)
(* What a context of ctraces holds, as data: the values that the encoders  *)
(* read and the decoders set (ctr_span.h, ctr_scope.h, ctr_resource.h,     *)
(* ctr_link.h), and the identifiers with their hexadecimal form            *)
(* (ctr_id.c).  A context is the sequence of its resource spans, a         *)
(* resource span has the sequence of its scope spans, and so on; an        *)
(* attribute set is a sequence of records [key, value].                    *)
(*                                                                         *)
(* Of a value only its kind is kept: "bytes" for bytes, "nested" for an    *)
(* array or a list that holds bytes, "plain" for all others.               *)
(***************************************************************************)
EXTENDS Integers, Sequences

CONSTANTS
    NULL,       \* the null pointer
    Text,       \* the strings that are not empty; "" is the empty one
    Key,        \* the attribute keys
    LongKey     \* those of 256 bytes or more, or whose value nests such a key

ASSUME LongKeysAreKeys == LongKey \subseteq Key
ASSUME NullIsNoString == NULL \notin Text \cup {""}
ASSUME TextIsNotEmpty == "" \notin Text

Value == {"plain", "bytes", "nested"}

AttributeSet == Seq([key : Key, value : Value])

\* A pointer to a string.
String == {NULL, ""} \cup Text

-----------------------------------------------------------------------------
(* Identifiers: one byte or more.                                          *)

Byte == 0..255

ctrace_id == Seq(Byte) \ {<<>>}

\* Mutant: the lower half of each byte first.
LowerHalfFirst(id) ==
    [i \in 1..2 * Len(id) |-> IF i % 2 = 0 THEN id[i \div 2] \div 16
                                           ELSE id[(i + 1) \div 2] % 16]

\* Two digits for each byte, the upper half first.
ctr_id_to_lower_base16(id) ==
    [i \in 1..2 * Len(id) |-> IF i % 2 = 1 THEN id[(i + 1) \div 2] \div 16
                                           ELSE id[i \div 2] % 16]

\* Refuses a string that has less than two digits, an odd number of them or
\* something that is no digit.
ctr_id_from_base16(s) ==
    IF Len(s) >= 2 /\ Len(s) % 2 = 0 /\ \A i \in DOMAIN s : s[i] \in 0..15
    THEN [i \in 1..(Len(s) \div 2) |-> 16 * s[2 * i - 1] + s[2 * i]]
    ELSE NULL

-----------------------------------------------------------------------------
(* The kinds of a span (ctr_span.h:32-38).                                 *)

CTRACE_SPAN_UNSPECIFIED == 0
CTRACE_SPAN_INTERNAL == 1
CTRACE_SPAN_CONSUMER == 5

SpanKind == CTRACE_SPAN_UNSPECIFIED..CTRACE_SPAN_CONSUMER

-----------------------------------------------------------------------------
(* The structures, over the counts and times Num.                          *)

Event(Num) ==
    [name : String, time_unix_nano : Num, attr : AttributeSet, dropped_attr_count : Num]

Link(Num) ==
    [trace_id : ctrace_id \cup {NULL}, span_id : ctrace_id \cup {NULL},
     trace_state : String, attr : AttributeSet \cup {NULL},
     dropped_attr_count : Num, flags : Num]

Span(Num) ==
    [trace_id : ctrace_id \cup {NULL}, span_id : ctrace_id \cup {NULL},
     parent_span_id : ctrace_id \cup {NULL}, trace_state : String,
     name : String, schema_url : String, kind : Int, flags : Num,
     start_time_unix_nano : Num, end_time_unix_nano : Num,
     attr : AttributeSet, dropped_attr_count : Num,
     events : Seq(Event(Num)), dropped_events_count : Num,
     links : Seq(Link(Num)), dropped_links_count : Num,
     status : [code : Int, message : String]]

InstrumentationScope(Num) ==
    [name : String, version : String, attr : AttributeSet \cup {NULL},
     dropped_attr_count : Num]

ScopeSpan(Num) ==
    [instrumentation_scope : InstrumentationScope(Num) \cup {NULL},
     schema_url : String, spans : Seq(Span(Num))]

ResourceSpan(Num) ==
    [resource : [attr : AttributeSet, dropped_attr_count : Num],
     schema_url : String, scope_spans : Seq(ScopeSpan(Num))]

Context(Num) == Seq(ResourceSpan(Num))

ASSUME NullIsNoData ==
    NULL \notin Seq(Nat) \cup AttributeSet \cup InstrumentationScope(Nat) \cup Context(Nat)

=============================================================================
