# ctraces in TLA+

TLA+ modules for [ctraces](../src/README.md), the C library that builds, encodes
and decodes traces: spans with their events and links, under scopes and resources.
The modules model the object tree with the memory it owns, what the encoders and
decoders do to a context and to their own memory on the way, and the MessagePack
library that both stand on. TLC checks them on small instances; TLAPS proves the
properties of the object tree, of the codecs, of the OpenTelemetry encoder's memory and of the
MessagePack writer and reader for every instance.

Paths such as `src/ctr_span.c` are relative to the repository's root; `PROJECT.json`
gives for each definition the lines it models (there the repository is `src/`).

## 1. The system

ctraces is a library without threads, timers or sockets. All concurrency there is
comes from the order in which its user calls it, and all failure from allocations that
fail and from messages that cannot be read. What makes it hard is ownership: about
twenty calls link, unlink, free or replace blocks of one tree, and nothing but the
convention of each destructor keeps lists and memory consistent.

| Component | State | Operations | Talks to |
|---|---|---|---|
| Context (`ctraces.c`) | `last_span_id`, list of resource spans, list of all spans | create, destroy | destroys resource spans |
| Resources (`ctr_resource.c`) | resource span: resource, its attributes, schema URL, list of scope spans | create, set, destroy | destroys scope spans |
| Scopes (`ctr_scope.c`) | scope span: instrumentation scope, schema URL, list of spans | create, set, destroy | destroys spans |
| Spans (`ctr_span.c`) | three IDs, name, attributes, strings, status, kind, times, counts; lists of events and links; two list nodes | create, set, destroy; events: add, set, delete | destroys events and links |
| Links (`ctr_link.c`) | two IDs, trace state, attributes | create, set, destroy | |
| Identifiers (`ctr_id.c`, `ctr_random.c`) | bytes | create, compare, hexadecimal form and back, random | |
| Attributes (`ctr_attributes.c`) | a key-value list of cfl | create, insert, destroy | |
| Encoders (`ctr_encode_{text,msgpack,opentelemetry}.c`) | none | context to text or message | read the whole tree |
| Decoders (`ctr_decode_{msgpack,opentelemetry}.c`, `ctr_mpack_utils.c`, `ctr_variant_utils.h`) | place in the message | message to a new context | call the functions above |
| mpack writer (`mpack.c`) | a buffer, how much of it is used, a flush and a teardown function, the first error | init, write, flush, destroy | realloc, a file; the MessagePack encoder calls it |
| mpack reader (`mpack.c`) | a buffer, what of it is unread, a fill and a skip function, the first error | init, read, peek, skip, discard, destroy | memory, a file or a callback; the MessagePack decoder calls it |
| Logging, version | | | |

**Interaction.** A structure is linked to its owner's list when it is created, a span
to two lists. A destructor destroys what its structure owns, takes the structure out of
its list and frees it; the cascade runs from the context down. Encoders walk the tree
and change nothing. Decoders build a tree by the same calls as a user and destroy it
when a message is refused. The MessagePack encoder gives its tags to an mpack writer
whose buffer grows, and takes the buffer over when it destroys the writer; the decoder
peeks at and reads tags from an mpack reader over the caller's memory, which remembers
the first error and answers nothing after it.

**What makes each part correct.**
- Tree: the lists name exactly the structures that exist; the two lists of spans agree;
  destroying the context leaves nothing; a failed call leaves the tree as it was;
  nothing is freed twice, used after it was freed, or lost.
- IDs: the hexadecimal form is reversible; a child names its parent.
- Codecs: what is encoded decodes to the same context, up to losses that can be named;
  a further hop, or another order of hops, loses nothing more; a message of another
  program is refused or becomes a proper context.
- Codecs' memory: a call that comes back has freed what it does not hand out; a message
  that is handed out is complete; a message that is cut off is refused.
- mpack: every byte arrives once and in order through any buffer; an error has a cause
  and is final; a call that waits for a fill function comes back.

**What is hard to test** is listed, line by line, under `hazards` in `PROJECT.json`.

## 2. Modules

| Module | Models | Role |
|---|---|---|
| `TraceTree` | `ctraces.c`, `ctr_resource.c`, `ctr_scope.c`, `ctr_span.c`, `ctr_link.c`, what encoders read | core: one action per call |
| `OwnedForest` | | abstract promise: a forest whose objects keep their owner and go with all they own |
| `TraceTreeProofs` | | theorems about `TraceTree`; that it implements `OwnedForest` |
| `MCTraceTree` | | constants for TLC |
| `TraceData` | structures as data, `ctr_id.c` hexadecimal form | shared by the codecs |
| `OtlpCodec` | `ctr_encode_opentelemetry.c`, `ctr_decode_opentelemetry.c` | what is translated and what is refused |
| `MsgpackCodec` | `ctr_encode_msgpack.c`, `ctr_decode_msgpack.c`, `unpack_cfl_kvlist` | same |
| `TextEncoder` | `ctr_encode_text.c` | what the text shows |
| `Relay`, `MCRelay` | a context going from program to program | composes the four above |
| `RelayProofs` | | theorems about the codecs and `Relay` |
| `OtlpEncoder`, `MCOtlpEncoder` | `ctr_encode_opentelemetry.c` | the blocks of the request, allocation by allocation |
| `OtlpEncoderProofs` | | theorems about `OtlpEncoder` |
| `VariantUnpacker`, `MCVariantUnpacker` | `ctr_variant_utils.h` | attributes from any tokens, with the blocks they take |
| `VariantRoundTrip` | `ctr_variant_utils.h` | what is packed comes back from `VariantUnpacker` |
| `VariantUnpackerProofs` | | induction over the natural numbers; theorems about `VariantUnpacker` and `VariantRoundTrip` |
| `MsgpackTokens` | `ctr_encode_msgpack.c` | tokens, and the maps of a message with their keys |
| `MsgpackWire` | `ctr_encode_msgpack.c` | a MessagePack message as the tokens of its buffer; which buffers are of this library |
| `MsgpackDecoder`, `MCMsgpackDecoder` | `ctr_decode_msgpack.c`, `ctr_mpack_utils.c` | the decoder token by token, and its caller; shown to agree with `MsgpackCodec` |
| `MsgpackDecoderProofs` | | theorems about `MsgpackDecoder`, for any buffer |
| `MsgpackOwnProofs` | | the theorem about `MsgpackDecoder` on buffers of this library |
| `MpackTag` | `mpack.c`, `mpack.h` | one value as bytes, written and read back |
| `MpackWriter` | `mpack.c`, `mpack.h` | the writer, over buffers that grow, are flushed or are lent |
| `MpackWriterProofs` | | theorems about `MpackWriter` |
| `MpackReader`, `MCMpackReader` | `mpack.c`, `mpack.h` | the reader, over memory, a file or a fill function |
| `MpackReaderProofs` | | theorems about `MpackTag` and `MpackReader` |

### TraceTree

A structure is a model value of the pool of its type: its *address*. `live` holds the
allocated ones, `kids[n]` the nodes of `n`'s list (`scope_spans`, `spans`, or `events`
and `links` together), `span_list` and `resource_spans` the context's lists. A block
that a structure owns through a pointer (an ID, a string, an attribute set) is a *slot*
`<<address, field>>`; it is in `owned` while the pointer is good, in `dangling` when
the block was freed and the pointer kept, in `leaked` when the block was lost.

Every public call that allocates, links, frees or replaces is an action of the same
name, with its early returns and, when `MayFail`, the failure of each of its
allocations. `Destroy` runs a cascade: `Subtree` is what it visits, `Frees` what each
destructor frees, `Unlinks` and `UnlinksGlobal` which of them call `cfl_list_del`.
Undefined behaviour is a step that sets `fault`, after which nothing happens. `met`
records the situations that the code leaves unguarded, so that a property can say
*only there*:

| Situation | Code |
|---|---|
| `status_cleared` | `ctr_span_set_status(span, code, NULL)` frees the message and keeps the pointer |
| `link_reset` | the trace state or the attributes of a link are set twice |
| `resource_failed` | `ctr_resource_span_create` frees what it has linked when its resource cannot be created |
| `rspan_destroyed` | `ctr_resource_span_destroy` does not unlink |
| `event_attr_missing` | an event is created although its attribute set could not be |
| `link_without_trace_id` | `ctr_id_destroy(NULL)` in `ctr_link_create` |
| `own_value` | a structure's ID or string is set from itself: the setters free before they copy |
| `otlp_no_memory` | the OpenTelemetry encoder without memory |

A value that a setter copies has a source: the caller's own (`Arg`), or a slot that the
tree owns, of the same structure or of another one. `SpanIds` are the sources of IDs,
`Strings` those of strings; `Replace` and `SetId` are undefined behaviour when source and
target are one.

Rules for clients: the client passes only structures that it has not destroyed; it gives
an attribute set or a scope to one structure and once, because the library takes
ownership; a string or an ID that it gives exists, be it its own or a structure's.

Abstractions: there is one context; an address is not used again while a list still names its freed
structure; `resource_spans` keeps its order because linking touches its last node, the
other lists are sets, since every removal is by node; scalars (kind, times, counts,
flags) and the contents of attribute sets are left out, as no list or block depends on
them.

### The codecs and Relay

A context is data here: sequences of records with the fields of the C structures. A
string is `NULL`, empty or a model value; an ID is a sequence of bytes; of an attribute
value only the kind is kept that the codecs tell apart (`bytes`, an array or list with
bytes `nested` in it, `plain` for all others; in a foreign message also `none` and
`strindex`). Keys of 256 bytes or more are a class of their own, `LongKey`.

`OtlpEncode`, `OtlpDecode`, `MsgpackEncode` and `MsgpackDecode` are built from one
operator per C function, with its name where it has one. `Relay` is the state machine
around them: a program holds a context (`doc`), encodes it, and the next program decodes
the message (`wire`) at a time that `cfl_time_now` tells; `origin` is the context that
the way began with, `via` the codecs so far. The modules define which records are contexts
and which are messages (`Context`, `OtlpMessage`, `MsgpackMessage`). `Relay` assumes that
what arrives from elsewhere is a message, and that what was built here is `Built`: a span
has one of the six kinds, as `ctr_span_kind_set` sees to, and an event a time, as
`ctr_span_event_add_ts` does.

Abstractions (of these modules; the ones below lift the first two): allocations do not
fail; a message arrives whole, and a MessagePack map has each of its keys once;
protobuf-c turns a field that was left out into an empty
string or a NULL submessage; limits on sizes other than the key's are not met.

### OtlpEncoder

The request is a tree of blocks: a function from paths to the kind of the block there and the
number of blocks it points to, in the order of their allocation. `Call` and the operators above
it build one; `IsRequest` says what every one is like: whatever is on a path is there, and each
block is held by one that may hold it (`Holds`). The encoder is a walk over the tree: `at` and
`step` say which block is filled. `Allocate` gets the next block, `AllocationFails` does
not. Each C function has its own way to go on without memory, which `KeepNull`,
`CleanUp`, `NoResourceSpan` and `NoElement` are. A pointer that nobody looked at is a crash as
soon as it is used, which may be in `get_packed_size` or in the destructor. `live` holds
the blocks allocated, `stored` those whose pointer reached its owner.

### VariantUnpacker

`unpack_cfl_kvlist` and what it calls, with an explicit stack instead of recursion.
Tokens come one by one, of any kind, and the input may end at any of them. A value is a
record with its kind and its elements; `blocks` are the allocations it consists of,
`live` those not freed. `starved` names the allocations that failed, so that a leak can be
pinned to the lines that cause it. `VariantRoundTrip` adds what `pack_cfl_variant` writes and
compares: `Packed[d]` gives the tokens of every value that nests up to `d` deep, by those of the
values inside it, and `Values` are the values that the limits have room for.

### MsgpackTokens, MsgpackWire and MsgpackDecoder

`MsgpackTokens` has the grammar of messages: which keys a map has and what stands under each of
them. `Wire` of `MsgpackWire` flattens the message that `MsgpackEncode` describes into tokens,
structure by structure as the `pack_` functions do (`WireSpan`, `WireScopeSpan`,
`WireResourceSpan`), with the keys of its maps in a given order: `Written` is the encoder's,
`Backwards` its reverse, `Orders` are all there are. The constant `Sent` is what this library has
sent, some messages and an order for each buffer, and `Own` the buffer of them. A message in `Sent` has
values of the C types (`ResourceSpanIsHeld`: a number is what its field can hold), and its events have
their sets of attributes, which `ctr_span_event_add_ts` gives them unless the sender is out of memory
at that call. An event without attributes that meets a decoder out of memory at the same call
would come back without attributes too, where otherwise an empty set comes back. `Fits` says which messages the
limits of the decoder have room for. `MsgpackDecoder` reads such tokens:
`stack` is the recursion of `ctr_mpack_unpack_map` and `ctr_mpack_unpack_array` (a frame
for each map or array, with the elements left in it and the key at hand), `Handling` the tables
of callbacks, `trace` the context that grows meanwhile, `Unwind` the way out after an
error, with the structures that handlers destroy. `lost` records each pointer that a setter or
a handler overwrites without freeing it. `Call` and `Return` are the caller, who goes on
at `*offset` while the buffer holds more. At any token the buffer may turn into up to
`MaxFree` tokens of `Offered`, or end.

Abstractions: a token is a tag with the bytes that belong to it (`torn` if some are
missing); attribute lists are one token, since `VariantUnpacker` has their inside; integers
wrap at `Word` and `LongWord`.

### MpackTag, MpackWriter, MpackReader

mpack is modelled as ctraces builds it: `MPACK_EXTENSIONS` on, files on, the tracking of
compounds and the assertions of debug builds off.

`MpackTag` is the byte level: `mpack_write_tag` chooses the shortest form, as
`mpack_write_u64`, `mpack_write_i64` and the `mpack_start_*` functions do, and
`mpack_parse_tag` takes it apart. A byte has `Base` values. The 32 bytes `0xc0` to `0xdf` keep
their order for any `Base`; the small numbers and lengths share the rest as in the code. Numbers
are put together of two halves (`store_u8` to `store_u64`, `load_u8` to `load_u64`), a signed one
with its sign in the first byte (`load_i8` to `load_i64`), which is what the casts of
`mpack_load_i64` and its like come to. `IsTag` says which tags there are: those of the C types in
`mpack_tag_t`.

`MpackWriter` numbers the bytes that it is given, so that one that is lost, doubled or moved
shows. `mem`, `size` and `current` are the buffer, `file` and `sent` what a file got,
`asked` how much the caller gave. The outcomes of a call are a *set* of writers, one for each
way that `realloc`, `fwrite` or `fclose` can go. `starved` remembers that one of them failed.

`MpackReader` reads `input.src` by `data` and `end`. A call that needs bytes becomes a
`job` for the fill function (`mpack_fill_range`), whose calls are steps of their own: `then`
says where the call goes on. `used` counts what was read from the source and is what the
answers (`got`) are compared with. `starts` remembers what was written where. A file
reader may be told to `Seek`.

Abstractions: `mpack_discard` calls itself for what an array or a map holds, and `todo`
counts what is left of that: the depth of the stack is not modelled. Sizes do not overflow `size_t`; strings are not checked for UTF-8; a
string with a NUL in it is one for `mpack_read_cstr` to refuse; `fread` gives less than it is
asked for only at the end of the file or with an error.

## 3. Runs

| Run | Checks | Shows |
|---|---|---|
| `lifecycle` | `ListsAreExact`, `SpansAreInBothLists`, `NothingOutlivesContext`, `ImplementsForest` | every order of creating and destroying |
| `failures` | `FaultsAreEarned`, `LiveIsComplete`, `FailureAddsNothing` | every allocation may fail; events, encoders, span IDs and schema URLs from any source |
| `ownership` | `TypeOK`, `LeaksAreEarned`, `OnlyMessagesDangle`, `FaultsAreEarned`, `LossIsReported` | setters of strings, attribute sets and scopes, also those whose allocation fails; strings of the caller, of another span and of the span itself; cleared messages, links set twice |
| `relay` | `TypeOK`, `LineageKept`, `RoutesCommute`, `MsgpackLosesOnlyFlags`, `TextSurvivesMsgpack`, `OtlpSettles` | contexts of the library and messages of other programs on every route |
| `otlp_memory` | `CleanExit`, `CompleteAnswer`, `CrashesAreEarned`, `CallEnds` | the OpenTelemetry encoder with any of its allocations failing |
| `variants` | `LeaksAreEarned`, `RepacksAlike`, `OwnIsTaken` | attributes read from any tokens, with any allocation failing |
| `msgpack_steps` | `OwnComeBack`, `CutIsRefused`, `LeaksAreRepeats`, `CrashesAreEarned`, `CallerEnds` | buffers of one or two messages, cut or corrupted at any token, with any allocation failing |
| `mpack_writer` | `TypeOK`, `AnswerIsExact`, `FileIsPrefix`, `BlockHasOneOwner`, `ErrorsAreEarned` | every sequence of writes through every kind of buffer |
| `mpack_reader` | `TypeOK`, `AnswersAreExact`, `ErrorsAreEarned`, `ErrorIsFinal`, `CallEnds` | every sequence of reads from every kind of source |
| `last_id`, `root_spans`, `relay_long_key` | `LastSpanIdCounts`, `NullParentMeansRoot`, `EncodedDecodes` | three claims that the code does not keep |

**Bounds of the tree.** Two addresses per type where siblings, neighbours in a list or a
second parent matter (`lifecycle`: two each of resource spans, scope spans and spans),
one where only the presence of a structure does. A defect in a destructor needs a
structure, its owner and a neighbour; a dangling pointer needs one structure and two
calls; an ID or a string copied between spans needs two spans (`failures`, `ownership`),
one of a structure's own only one. Every setter is in one of the three runs, with every
source that it can have: trace IDs and the attributes of a resource in `lifecycle`, span and parent IDs, events and
the schema URLs of resource and scope spans in `failures`, all others in `ownership`.
Pools are symmetric. Creation never runs out of addresses in the code, only in the model:
an action is then disabled.

**Bounds of the relay.** 63 contexts vary what the codecs treat differently: attribute
sets with and without bytes at every level and at every position of a list of events or
links, missing IDs, null and empty strings, long keys in each kind of place, the
empty context. Four hops suffice because a hop only depends on the context at hand, and
after one hop by each codec only what `OtlpSettles` names still changes. Messages end at
`MaxHops` or where one is refused: no deadlock check.

**Bounds of `otlp_memory`.** Six contexts with every kind of block and lists of no, one and
two elements: the cleanups differ for the first, a middle and the last element. Any number of
allocations may fail, so that a second failure meets the cleanup of the first.

**Bounds of `variants`.** Six tokens: two lists nested in a third, with two elements each. The
limits of the code are scaled to a key of two bytes, one element before an array has to
grow, three before it is refused, and integers of three bits, so that each limit is crossed.

**Bounds of `msgpack_steps`.** Eleven buffers: two messages in one, every kind of structure,
empty lists, a list over the limit, a long key, repeated keys. Two foreign tokens are enough to
open a map or an array and to put one element into it, and the end may come after any
token. A caller makes two calls at most, as many as a buffer has messages; `CallerEnds` says
that it needs no third one.

**Bounds of `mpack_writer`.** 13 bytes through a buffer of four that doubles up to three
times at once, which is three flushes, with strings at each boundary of the tags' widths. Lent
buffers have 0, 1, 2, 3 and 6 bytes, around the smallest that can be flushed.

**Bounds of `mpack_reader`.** Bytes of 128 values keep everything between `0xc0` and `0xdf`
apart and the small numbers too. Each value at each boundary of each width stands alone in
memory; three longer sources are read from memory, through a buffer of 9 bytes and from a
file through 10, also with the last byte missing. Callers ask for 0, 5 or 12 bytes (none,
less than and more than a buffer), stop at the end of the source and make one more call after an
error. A fill function gives nothing, 3 bytes or all: 3 is more than a tag's first byte
and less than what a refill wants.

**Deadlock** is not checked in any run: behaviours end with a fault (in `lifecycle` that of
a trace ID set from itself), a call that came back, or a bound. Where the code must not
stop, `CallEnds` and `CallerEnds` say so.

**Fairness.** The object tree and `Relay` have none and need none: they act only when
called, and no call waits. `OtlpEncoder` and `MsgpackDecoder` are one thread that waits
for nothing, so that weak fairness of `Next` says only that the program runs; their
liveness is about loops that end, over foreign tokens too. In `MpackReader` only `Fill`,
`Seek` and `More`, the steps inside of a call, are fair: the fill function has to
return, but may give as little as it likes, and the caller need not call again.

### What the runs show about the code

- `ctraces.h:46-49` says that `last_span_id` is incremented with every span; nothing
  increments it (`last_id`).
- `ctr_span.h:69` says that a NULL parent ID means a root span. `ctr_span_create`
  copies the parent's ID if it has one by then; a child created first is exported as a
  root (`root_spans`).
- An attribute key of 256 bytes is accepted by the setters and by the MessagePack encoder, and
  makes the decoder refuse the whole context, against the assertion of the
  round-trip helper in `tests/decoding.c:534-535` (`relay_long_key`).
- `FaultsAreEarned`, `LeaksAreEarned` and `OnlyMessagesDangle` hold with the situations
  above: each of them is a place where the code could free, use or lose a block wrongly,
  and for a client that keeps to the rules there is no other among the calls of `TraceTree`.
  Eight setters of IDs and strings share one of them: they free the old value before they read
  the argument (`own_value`), which no comment in the headers warns of.
- The OpenTelemetry encoder crashes for lack of memory, for almost any block
  (`CrashesAreEarned` names those it can go without); the cleanups that forget blocks
  (`ctr_encode_opentelemetry.c:997`) only ever run in calls that crash later, which is why
  `CleanExit` holds. The note at line 999 says that `destroy_scope_spans` has freed the list;
  it is not called when the first element got no memory.
- An attribute is lost from memory in five places of `ctr_variant_utils.h`, which
  `LeaksAreEarned` names; an integer of 2^63 or more becomes negative (`RepacksAlike`).
  The comment at line 35 of that file promises the innermost error code; a map answers
  its own.
- A MessagePack map with a key twice loses the first value's block, for the keys and with the
  one exception that `LeaksAreRepeats` states.
- A span whose ID cannot be copied for lack of memory is decoded without it, silently
  (`OwnComeBack` allows only that).
- A file reader that seeks behind the end of a file does not notice that its source was cut
  off (`sought` in `AnswersAreExact`); ctraces reads from memory only.
- One attribute of bytes costs, over OpenTelemetry, its whole attribute set and all later events
  or links of the span, silently; `LineageKept` says that this is all it costs, and
  `OtlpSettles` that it costs it once.

## 4. Proofs

`TraceTreeProofs` proves, for any pools of addresses, any set `Calls` and either
value of `MayFail`:

| Theorem | States |
|---|---|
| `TypeCorrect` | `Spec => []TypeOK` |
| `ListsExact` | `Spec => []ListsAreExact` |
| `SpansListed` | `Spec => []SpansAreInBothLists` |
| `NoUnearnedFault` | `Spec => []FaultsAreEarned` |
| `NoUnearnedLeak` | `Spec => []LeaksAreEarned` |
| `OnlyStatusDangles` | `Spec => []OnlyMessagesDangle` |
| `NothingHalfMade` | `Spec => []LiveIsComplete` |
| `ContextIsAll` | `Spec => []NothingOutlivesContext` |

The only assumptions are those of the module: the pools are disjoint, `NULL` and
`Arg` are no addresses, and `MayFail` is a Boolean. One inductive invariant, `IInv`, carries all of
them:

- the types, and `LiveIsComplete`;
- `Shape`: `Levels` (which structures may be in the lists of which), `ListsAreExact`,
  `SpansAreInBothLists`;
- `SlotsAreLive`: a block is owned, and a pointer dangles, only in a live structure;
- `NoContext`: without a context there is no structure and nothing is listed;
- `Blame`: `FaultsAreEarned`, `LeaksAreEarned`, `OnlyMessagesDangle` and `FreedButListed` (a
  freed resource span is listed only after one of two situations).

It is needed because hardly one of the theorems is inductive alone. That a destructor
touches only live memory follows from exact lists; that the lists stay exact when a subtree goes
follows from the levels (`Subtree` visits everything below a structure only because
events and links have no lists); that a use after free is earned follows from
`FreedButListed`, and that nothing outlives the context from `Shape` and `SlotsAreLive`. The
proof goes call by call; `Attach`, `Release`, `Destroy`, `Replace`, `Take`, `Overwrite` and
`Misuse` have lemmas of their own (`AttachStep`, `ReleaseStep`, ...), which the calls cite.

Of the steps `TraceTreeProofs` proves, from the same assumptions:

| Theorem | States |
|---|---|
| `ForestImplemented` | `Spec => ImplementsForest` |
| `FailureChangesNothing` | `Spec => FailureAddsNothing` |
| `LossReported` | `Spec => LossIsReported` |

`StepHasEffect` shows, call by call, that a step from a state of `IInv` has one of five effects
on the tree: none (`Quiet`), one structure more (`Grows`), a resource span linked with its resource
or without (`Linked`), one structure less with all below it (`Goes`), everything less
(`AllGoes`). The three theorems then look at effects and not at calls. The owner of a structure,
which the mapping takes from the lists by `CHOOSE`, is unique because lists are disjoint
(`OwnerIs`) and stays because no list of a live structure loses a node that lives (`OwnerStays`). `Grows` and
`Linked` map to `Add`, `Goes` to `Remove`, whose set of structures is the walk of the
destructor (`GoesRemoves`), `AllGoes` to `Clear`. `FailureAddsNothing` needs one fact more than `IInv`:
after a resource span has failed the tail of the list stays stale (`StaleStays`), so that no second
one is linked and freed.

`MpackWriterProofs` proves, for any sizes of buffers, any boundaries between the forms of
strings, any lengths and any bounds, from `WriterAssumption` alone (all are natural numbers; the
smallest buffer holds the longest tag, and the longest string with a short tag; both are
asserted in `mpack_writer_set_flush`):

| Theorem | States |
|---|---|
| `WriterTypeCorrect` | `Spec => []TypeOK`: nothing lies behind the end of the buffer |
| `WriterAnswerIsExact` | `Spec => []AnswerIsExact` |
| `WriterFileIsPrefix` | `Spec => []FileIsPrefix` |
| `WriterBlockHasOneOwner` | `Spec => []BlockHasOneOwner` |
| `WriterErrorsAreEarned` | `Spec => []ErrorsAreEarned` |

Its inductive invariant, also called `IInv`, is `Good(w, 0)` while the writer is open and
`Final(w)` once it is closed. `Good(s, k)` holds of an open writer that has stored `k` bytes
more than the calls that have returned gave it; it has five parts:

- `Typed`: the types, and `current <= size`;
- `Prefix`: what is in the file;
- `Exact`: without an error, file and buffer together are all bytes in order;
- `Kind`: flush function, teardown function and block go together;
- `Earned`: what an error says about the past.

None of the five theorems is inductive alone: that a closed writer has delivered everything
needs `Exact` of the open one, and that needs `Kind` (only a file is emptied by a flush).
`k` is there because one call, a string with its tag, stores twice. A lemma for each function
says that it keeps `Good` (`NativeIsGood`, `EncodedIsGood`, `StrIsGood`, ...), and
`FlushUncheckedIsGood` that after a flush without an error there is room for any tag, which is
what the code counts on. The teardown goes from `Good` by `Flushed` to `Final`.

The first part of `MpackReaderProofs` is about `MpackTag`. It proves, for any `Base` that `TagAssumption` allows (it is even, the encoding has
room for its 32 types, and two bits more than the nanoseconds go into four bytes):

| Theorem | States |
|---|---|
| `TagComesBack` | `IsTag(t)` implies that `mpack_parse_tag` makes `AsRead(t)` of `mpack_write_tag(t)`, and that its first byte tells its length |
| `TimeComesBack` | `Timestamp(mpack_write_timestamp(s, n)) = <<s, n>>` for every `s` of 64 bits and every `n` up to `NanoMax` |

They rest on four groups of lemmas. `DivMod` to `DivBetween` are about quotients and remainders,
of negative numbers too. `LoadedAre` and `SignedLoadedAre` say what number is read where a number
was stored: its remainder by the width, or itself if it fits. Each width is two of the width
before it (`HalvesAre`), so that there is one argument, four times. `LeastIs` and `LeastSignedIs` say
that the width that is chosen for a number holds it, and `EncodedReads`, `FixReads`,
`LengthReads` and `ExtReads` that each form of a tag is told from the others by its first byte.

The second part of `MpackReaderProofs` proves, for any source of bytes, any sizes of buffers, any numbers that
callers ask for and anything that a fill function may give, from `TagAssumption`,
`ReaderAssumption` (natural numbers; the smallest buffer holds the longest tag, which
`mpack_reader_set_fill` asserts; the source is bytes) and `WrittenAssumption` (what is said to be
written in the source stands there, as far as it has arrived):

| Theorem | States |
|---|---|
| `ReaderTypeCorrect` | `Spec => []TypeOK`: no fill function gets more room than there is |
| `ReaderAnswersAreExact` | `Spec => []AnswersAreExact` |
| `ReaderErrorsEarned` | `Spec => ErrorsAreEarned` |
| `ReaderErrorIsFinal` | `Spec => ErrorIsFinal` |

`AnswersAreExact` has two halves. That answers are what stands in the source
(`AnswersAreThere`) follows from the invariant alone. For the other half, that they are
the values that were written (`ValuesComeBack`), the invariant has to know that all of a tag had
arrived when it was read (`TagTold`), and all of a time (`TimeTold`): a file may be sought behind
its end, and what would be read there is no byte of the source. `BothStand` and `AllStands` find the
bytes of the value in it, and `TagComesBack` and `TimeComesBack` do the rest.

The invariant `Inv(s, m)` is of a reader `s` over a memory of `m` bytes, so that the lemmas can
follow a call through operators that have changed only a part of it. Its cases are what
the reader waits for:

- nothing (`Good`): what was not read yet is in the buffer, in order (`Holds`), and what the
  last call gave is what the source holds (`Told`);
- the next value of a `mpack_discard`, or `fseek()`;
- the fill function, for one of five reasons (`Asked`): to have bytes in one piece in the buffer, for
  the rest of a call's bytes, by way of the buffer or straight into the caller's memory, or to skip
  over bytes, of whole buffers or of the last one. For each the invariant says what of
  the source is in the buffer, what is with the caller and what is to come; `Filling` adds that it
  is not enough yet.

Every lemma about a part of a call ends in `Result`: the invariant holds again, and an error
is one that `ErrorsAreEarned` allows. `TookIs` is the step of the proof: whatever the fill function
gave, `Asked` holds again, with so many bytes more. From there `ResumeIs` goes on as the call
does, back into the lemmas about calls that need no filling. `ShortIs` says that the end of
the source is never reached while a call has all that it needs.

`OtlpEncoderProofs` proves, for contexts of any size and any allocations that fail, from
`RequestsAreTrees` alone:

| Theorem | States |
|---|---|
| `EncoderLeavesNothing` | `Spec => []CleanExit` |
| `EncoderSendsAll` | `Spec => []CompleteAnswer` |
| `EncoderCrashesAreEarned` | `Spec => []CrashesAreEarned` |

The walk divides the tree into what is `Past`, what is open and what was not touched, and `Walk`
says which blocks are live or stored accordingly. `CleanExit` needs the two halves of the
invariant that follow. As long as nothing `Harmful` has failed, the request is `Whole`: every live
block is linked to the root, and what is past is stored or can be spared. From the first
harmful failure on it is `Broken`: one block bears witness that the call crashes. Either it is
`Missing` at a place where the packing functions or the destructors read it without a test, or it
is `Unbacked`, a list without memory whose first element is still to be written. The cleanups
that forget blocks keep `Broken` (`AbandonKeeps` and the four lemmas after it), so that no call
that leaked comes back; `MissingIsMet` leads from the witness to the crash, `NothingMissing` from
`Whole` to the complete message.

`VariantUnpackerProofs` proves, for messages of any length and nesting, for any limits and
any allocations that fail:

| Theorem | States |
|---|---|
| `AttributesLeakNothingElse` | `Spec => []LeaksAreEarned` |
| `ReadingLosesNothing` | `Spec => []RepacksAlike` |
| `OwnListsAreTaken` | `Spec => []OwnIsTaken` |

The first needs no assumption. The other two need those of `VariantRoundTrip`: the limits are
numbers, and a key has room for its NUL (`RoomAssumption`); a token is what `mpack_read_tag`
can give, so that an integer has its width and a count is not negative (`TokenAssumption`); own
messages are maps within the limits (`OwnAssumption`). No bound on the nesting is assumed: the
values may be as deep as the messages are long.

The invariant of the first, `IInv`, says that every live block is `Owned`: by one of the lists being read, by the
value just read, or by the result, unless one of three allocations failed (`Forgotten`).
`OneOwner` is what makes that inductive: blocks are freed with their list, so two lists may never
own the same one. `Course` says which phases have an error and an empty stack; without it a
list could be closed after an error and its blocks handed to nobody.

`RepacksAlike` speaks of the end of a call only. What holds on the way is `RInv`: the tokens
read so far (`Read`) are those that the lists on the stack would be packed to as far as they
are known (`Before`, `Begun`), followed by the value just read (`ReadSoFar`); and each list
holds as many elements as its count and its place on the stack say (`Shape`). Reading an
element then appends its tokens to those of the innermost list, and closing a list makes its
tokens a value's: the head with the count, which by then is the number of elements.

`OwnIsTaken` says that no error is found in a message of this library. It needs to be known at
every token what such a message would have there. `PInv` says it by a *path*: as long as the tokens
read begin the message of an own value, there is for each list on the stack the list in that
value that it is being read from, each of them the next element of the one around it, and what
was read of them agrees (`Follows`). The token that comes next is therefore the head of that
element or its key (`Ahead`), and an error that a handler may raise contradicts it. `Refused`
keeps the conclusion after the error, while the lists are being left.

That packing a value takes as many tokens as it does, and that two values that are packed alike
to the end of the shorter one are alike, are statements about the recursive function `Packed`.
The induction theorems of the library cannot be used, as they take the property as an operator.
`VariantUnpackerProofs` therefore has induction over a *set* of numbers: a set that holds 0, and `n + 1`
with each `n`, holds every number (`Induction`, from the well-foundedness of `<`). Each
lemma names the set of depths at which it is true, and shows that it is such a set. `FlattenSeq`
of the community modules is defined by an inner recursive function; `Joins` names that function,
and `JoinsLonger` and the lemmas after it show that it exists, is unique and can be extended.

`RelayProofs` proves, for contexts and messages of any size, any number of hops and any times,
from the assumptions of the modules: `NULL` is no string, sequence or structure, a long key is a
key, contexts are `Built`, messages are typed, and the clock does not tell 0:

| Theorem | States |
|---|---|
| `ContextsStayContexts` | `Spec => []TypeOK` |
| `LineageIsKept` | `Spec => []LineageKept` |
| `TheRoutesCommute` | `Spec => []RoutesCommute` |
| `MsgpackLosesNothingElse` | `Spec => MsgpackLosesOnlyFlags` |
| `OpenTelemetrySettles` | `Spec => OtlpSettles` |
| `TheTextSurvives` | `Spec => TextSurvivesMsgpack` |

First come lemmas about the codecs, one for each structure from the identifiers up to the
context: what `MsgpackDecode` makes of `MsgpackEncode` (`ContextBack`), which contexts it refuses
(`LongKeysDoNotFit`), that encoding and decoding give messages and contexts (`ContextSent`,
`ContextReceived`). `Arrived` is the set of contexts that the OpenTelemetry decoder can give: no
bytes in an attribute set, no trace state in a link, no flags. A context in it only
changes as `Settled` says (`ArrivedContextSettles`), and goes through MessagePack as it is, up to
the links' attributes (`ContextThrough`).

The invariant of the way is `Course`: with `TypeOK`, that the message in flight is the encoding
of the context at hand (`InFlight`), and that what came last by OpenTelemetry is in `Arrived`
(`LastHop`). `LineageKept` is proved on top of it, by `Kin`: it needs `Built` in addition, since
an unknown kind or a time of 0 would be changed by a hop, and that a refused message of an own
context leaves nothing at hand. Its step is that being kept is transitive; for lists that is
`ListKeptThrough`, where the hop of a list that has already been cut cuts it at an element that
was reached before, and so its bytes were there in the original.

`MsgpackDecoderProofs` proves, for any buffers of tokens, any tokens that may come instead, any
limits, any number of calls and any allocations that fail, from `AttributesAreThere` (buffers are
sequences, and an `attrs` token has a set of attributes) and `NullIsNoData` (no set of attributes is
`NULL`):

| Theorem | States |
|---|---|
| `AlwaysIInv` | `Spec => []IInv` |
| `CutsAreRefused` | `Spec => []CutIsRefused` |
| `OnlyRepeatsLeak` | `Spec => []LeaksAreRepeats` |
| `ThreeAllocationsCrash` | `Spec => []CrashesAreEarned` |

`CutIsRefused` needs only `Course`, that the sticky error of the reader is always an error
of the call. The other two are about what a handler finds at the place where it writes, and the
handlers reach that place without a check: `Last` of a list of `Last` of a list. So the invariant
says, while a call goes on, that the stack is a path of the grammar (`Levels`: each frame stands at
the level of its kind, and only the innermost has a key at hand), that the depth of the stack gives
the structures that are there (`Open`), and what is in them (`Fresh`): a pointer that could be
overwritten is `NULL` until its key has `Came` in the map being read, and an event without
attributes has missed them. `Came` is weaker while the key is at hand, because it is
recorded before its handler runs; a second coming is then in `repeats`. The message of a status is
the one pointer whose map can be entered twice, which is why `StatusIsFresh` allows a repeated
`status` in the span. Each action then writes to the innermost structure (`FieldWritten`), puts a
structure and its frame on top (`ElementAdded`, `ScopeEntered`, `EnterKeeps`), takes a frame away
(`CloseKeeps`), or fails, and after that nothing is claimed of the stack.

`MsgpackOwnProofs` proves, for the same and for any `Sent` that `SentAssumption` describes, that is
any number of buffers of this library, each of any number of messages of any size with
the keys of their maps in any order:

| Theorem | States |
|---|---|
| `OwnMessagesComeBack` | `Spec => []OwnComeBack` |

It assumes besides that no map of the encoder is over the limit of the decoder (`MapsAreTaken`: it
has 16 keys at most, the limit is 512), that a buffer which claims to hold own messages is
`Own` of something in `Sent`, and that `NULL` is not a context (`NullIsNoContext`). TLC evaluates
these assumptions in the run `msgpack_steps`.

`AlwaysIInv` says where a handler writes. What is missing is what it reads, and what the
structures hold by then. A *node* is a part of the message: the value of a map, or the elements of an
array. The invariant `PInv` is `IInv` with `Told`: while no token came from elsewhere,

- the answers given so far are those for the messages read so far (`Fitting`);
- if the caller is between calls, what is left of the buffer is the messages after them;
- if a call goes on, some node stands for each frame of the stack (`Underway`), each a part of
  the one below it (`Linked`), such that what is left of the message is what is `Due` of each
  node, the innermost first (`Places`), and each structure that is being filled holds what was read
  of its node, and is blank elsewhere (`Content`: `HoldsMap` for a map, key by key, `HoldsArray` for
  an array, element by element);
- if a call has failed, it is for a reason that `OwnComeBack` allows (`Excused`).

`Holds` compares up to the identifiers of spans once memory has run out (`AlikeNode`, `Erased`).
That the keys come in any order is why the invariant needs sets of keys rather than a position in
the encoder: `HoldsMap` speaks of the keys that are done, and `Orders` that each comes once.

The proof has a layer for each of these:

- `FlattenSeq` of the community modules is a fold, so what it does with one sequence more
  or less is proved by induction, which is carried out here as the search for a least counterexample
  (`LeastNumber`, from `WFMin` of the library);
- lemmas about `Wire` say that it is made of tokens, that what is due of a node begins with
  the token which the decoder expects there, and that an opening token names the size of its node;
- lemmas about the context say which structures a write leaves as they are: all that are not on the path
  (`Off`) or are beside it (`Beside`), and that `HoldsMap` and `HoldsArray` carry over;
- one lemma for each action says that `Told` holds again after it, and one that a whole node which has
  been read is what `MsgpackDecode` makes of it.

Model-checked and not proved: `CallEnds` and `CallerEnds`. Liveness under fairness is out of the
prover's reach. Every other property of the passing runs is stated by one of the theorems above.

## 5. Not modelled

- Failing allocations in the OpenTelemetry decoder: its messages are unpacked by protobuf-c,
  and what it builds it builds by the calls of `TraceTree`.
- Random IDs (`ctr_random.c`) and `ctr_id_cmp`: no state depends on which bytes an ID has.
- Logging and the version: they keep nothing that another part reads.
- Of mpack: the tree API (`mpack_node_*`), the expect API, UTF-8 checks, printing, the builder, the
  tracking of debug builds, writers of old versions. ctraces uses none of them.
- cfl, protobuf-c and the generated messages: they are not in the repository.
- Wording and layout of the text, contents of attribute values, times other than that of events.

## 6. Plan

1. The OpenTelemetry decoder with failing allocations, on `TraceTree`'s model of memory.
