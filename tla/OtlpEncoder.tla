----------------------------- MODULE OtlpEncoder -----------------------------
(***************************************************************************)
(* The memory of ctr_encode_opentelemetry.c: the request that is built     *)
(* from the context, packed and destroyed again, where any allocation may  *)
(* fail.  What the fields hold is in OtlpCodec.                            *)
(*                                                                         *)
(* A request is a tree of blocks.  A block is named by its path from the   *)
(* root, and a tree is a function from the paths of its blocks to their    *)
(* kind and the number of their kids, which are numbered in the order in   *)
(* which they are allocated: every block before what it points to.         *)
(***************************************************************************)
EXTENDS Integers, Sequences, SequencesExt

CONSTANT Requests   \* requests of the contexts that are encoded

-----------------------------------------------------------------------------
(* The blocks of a request.  An attribute set is <<>> where the context    *)
(* has a null pointer (a link, a scope), else the one block of its list.   *)

Block(kind, kids) ==
    [path \in {<<>>} \cup UNION {{<<i>> \o p : p \in DOMAIN kids[i]} : i \in DOMAIN kids} |->
        IF path = <<>> THEN [kind |-> kind, kids |-> Len(kids)]
        ELSE kids[Head(path)][Tail(path)]]

ScalarValue == Block("any", <<>>)
StringValue == Block("any", <<Block("string", <<>>)>>)
BytesValue == Block("any", <<Block("bytes", <<>>)>>)

\* No array for the elements where there are none.
ListValue(kind, elements) ==
    Block("any", <<Block(kind, IF elements = <<>> THEN <<>>
                               ELSE <<Block("values", elements)>>)>>)

KeyValue(value) == Block("kv", <<Block("key", <<>>), value>>)
Attributes(kvs) == <<Block("attributes", kvs)>>

EventBlock(attr) == Block("event", attr)
LinkBlock(attr) == Block("link", attr)

SpanBlock(attr, events, links) ==
    Block("span", <<Block("status", <<>>)>> \o attr
                    \o <<Block("events", events), Block("links", links)>>)

ScopeBlock(attr) == <<Block("scope", attr)>>

ScopeSpanBlock(scope, spans) ==
    Block("scope_span", scope \o <<Block("spans", spans)>>)

ResourceSpanBlock(attr, scope_spans) ==
    Block("resource_span", <<Block("resource", attr), Block("scope_spans", scope_spans)>>)

\* The call itself has no block; its kid is the request.
Call(resource_spans) ==
    Block("call", <<Block("request", <<Block("resource_spans", resource_spans)>>)>>)

\* What points to what.
Holds ==
    {<<"call", "request">>, <<"request", "resource_spans">>,
     <<"resource_spans", "resource_span">>,
     <<"resource_span", "resource">>, <<"resource_span", "scope_spans">>,
     <<"scope_spans", "scope_span">>, <<"scope_span", "scope">>, <<"scope_span", "spans">>,
     <<"spans", "span">>, <<"span", "status">>, <<"span", "events">>, <<"span", "links">>,
     <<"events", "event">>, <<"links", "link">>}
    \cup {<<owner, "attributes">> : owner \in {"resource", "scope", "span", "event", "link"}}
    \cup {<<"attributes", "kv">>, <<"kv", "key">>, <<"kv", "any">>}
    \cup {<<"any", value>> : value \in {"string", "bytes", "array", "kvlist"}}
    \cup {<<"array", "values">>, <<"kvlist", "values">>, <<"values", "any">>, <<"values", "kv">>}

Kid(path, i) == Append(path, i)

\* Every block but the root is a kid of one that may hold it; the root is a
\* call with a request.
IsRequest(tree) ==
    /\ DOMAIN tree \subseteq Seq(Nat)
    /\ tree \in [DOMAIN tree -> [kind : STRING, kids : Nat]]
    /\ \A p \in DOMAIN tree : \A n \in 0..Len(p) : SubSeq(p, 1, n) \in DOMAIN tree
    /\ \A p \in DOMAIN tree :
          /\ \A i \in 1..tree[p].kids :
                /\ Kid(p, i) \in DOMAIN tree
                /\ <<tree[p].kind, tree[Kid(p, i)].kind>> \in Holds
          /\ p # <<>> => Last(p) \in 1..tree[Front(p)].kids
    /\ <<>> \in DOMAIN tree
    /\ tree[<<>>].kind = "call" /\ tree[<<>>].kids = 1

ASSUME RequestsAreTrees == \A tree \in Requests : IsRequest(tree)

-----------------------------------------------------------------------------
VARIABLES
    call,     \* what is built
    at,       \* the path of the block that is filled
    step,     \* how many of its kids are done
    ret,      \* "null" while a function hands NULL to its caller
    live,     \* the blocks allocated and not freed
    stored,   \* the blocks whose pointer is in the block that owns them
    failed,   \* the blocks that got no memory
    sent,     \* the blocks that were packed
    pc        \* "build", "size", "pack", "destroy", then "ok", "null" or "crash"

vars == <<call, at, step, ret, live, stored, failed, sent, pc>>

Node(path) == call[path]

List == {"resource_spans", "scope_spans", "spans", "events", "links", "attributes"}

EmptyList(node) == node.kind \in List /\ node.kids = 0

\* Used without a look at what calloc answered: a list is written to with its
\* first element, the others at once.
UncheckedList == {"resource_spans", "events", "links"}

\* Mutant: set_instrumentation_scope does not look either.
UncheckedScope == {"event", "link", "status", "bytes", "scope"}

Unchecked == {"event", "link", "status", "bytes"}

\* What takes NULL from a failed kid and goes on.
Owner == {"request", "resource_span", "resource", "scope_span", "scope", "span",
          "event", "link"}

\* What frees itself and all it holds when a kid fails, and answers NULL.
Cleaner == {"attributes", "kv", "any", "array", "kvlist", "values"}

\* Mutant: destroy_scope_span forgets the scope.
ReachButScopes(path) ==
    {p \in live : /\ IsPrefix(path, p)
                  /\ \A n \in (Len(path) + 1)..Len(p) :
                        SubSeq(p, 1, n) \in stored /\ Node(SubSeq(p, 1, n)).kind # "scope"}

\* What a destructor that starts at a block gets to.
Reach(path) ==
    {p \in live : /\ IsPrefix(path, p)
                  /\ \A n \in (Len(path) + 1)..Len(p) : SubSeq(p, 1, n) \in stored}

\* The kids that are tested before they are read: by the functions that pack,
PackTests == {"resource", "scope"}

\* Mutant: destroy_resource takes NULL.
DestroyTestsResource == {"attributes", "scope", "resource"}

\* ... and by the destructors.  A list of no elements is never read.
DestroyTests == {"attributes", "scope"}

Misses(path, tests) ==
    \E p \in Reach(path) : \E i \in 1..Node(p).kids :
        LET kid == Node(Kid(p, i))
        IN  Kid(p, i) \notin stored /\ kid.kind \notin tests /\ ~EmptyList(kid)

-----------------------------------------------------------------------------
(* Building.                                                               *)

Crash ==
    /\ pc' = "crash"
    /\ UNCHANGED <<call, at, step, ret, live, stored, sent>>

Enter(path) == at' = path /\ step' = 0

\* Mutant: the index of the loop is not incremented.
LeaveAgain(path) == at' = Front(path) /\ step' = Last(path) - 1

\* Back in the block that owns this one.
Leave(path) == at' = Front(path) /\ step' = Last(path)

Building == pc = "build" /\ ret = "go"

Allocate ==
    /\ Building /\ step < Node(at).kids
    /\ Enter(Kid(at, step + 1))
    /\ live' = live \cup {Kid(at, step + 1)}
    /\ UNCHANGED <<call, ret, stored, failed, sent, pc>>

AllocationFails ==
    LET path == Kid(at, step + 1)
        kind == Node(path).kind
    IN  /\ Building /\ step < Node(at).kids
        /\ failed' = failed \cup {path}
        /\ \/ kind \in Unchecked /\ Crash
           \/ /\ kind \in UncheckedList
              /\ Enter(path)
              /\ UNCHANGED <<call, ret, live, stored, sent, pc>>
           \/ /\ kind \notin Unchecked \cup UncheckedList
              /\ step' = step + 1 /\ ret' = "null"
              /\ UNCHANGED <<call, at, live, stored, sent, pc>>

\* The block is filled: its pointer goes where it belongs.
Finish ==
    /\ Building /\ at # <<>> /\ step = Node(at).kids
    /\ \/ /\ Node(Front(at)).kind \in UncheckedList /\ Front(at) \notin live
          /\ Crash
       \/ /\ Node(Front(at)).kind \in UncheckedList => Front(at) \in live
          /\ Leave(at)
          /\ stored' = stored \cup ({at} \cap live)
          /\ UNCHANGED <<call, ret, live, sent, pc>>
    /\ UNCHANGED failed

\* A kid failed, and the function frees some blocks and answers NULL.
Abandon(path, freed) ==
    /\ live' = live \ freed
    /\ Leave(path)
    /\ UNCHANGED <<call, ret, stored, failed, sent, pc>>

KidFailed == pc = "build" /\ ret = "null"

KeepNull ==
    /\ KidFailed /\ Node(at).kind \in Owner
    /\ ret' = "go"
    /\ UNCHANGED <<call, at, step, live, stored, failed, sent, pc>>

CleanUp ==
    /\ KidFailed /\ Node(at).kind \in Cleaner
    /\ Abandon(at, Reach(at))

\* The resource spans before it are not freed.
NoResourceSpan ==
    /\ KidFailed /\ Node(at).kind = "resource_spans"
    /\ Abandon(at, {at})

\* How many elements the cleanup of a list destroys, once any was made, where
\* the one at step got no memory: the scope spans are one short.
Destroyed(kind) == IF kind = "spans" THEN step - 1 ELSE step - 2

\* set_spans and set_scope_spans: the list is freed only with its elements.
NoElement ==
    LET made == step > 1
        elements == {Kid(at, i) : i \in 1..Destroyed(Node(at).kind)}
    IN  /\ KidFailed /\ Node(at).kind \in {"spans", "scope_spans"}
        /\ \/ /\ made /\ \E p \in elements : Misses(p, DestroyTests)
              /\ Crash /\ UNCHANGED failed
           \/ /\ ~made
              /\ Abandon(at, {})
           \/ /\ made /\ ~\E p \in elements : Misses(p, DestroyTests)
              /\ Abandon(at, {at} \cup UNION {Reach(p) : p \in elements})

\* create_export_service_request is over, with or without a request.
Built ==
    /\ pc = "build" /\ at = <<>> /\ step = 1
    /\ pc' = "size" /\ ret' = "go"
    /\ UNCHANGED <<call, at, step, live, stored, failed, sent>>

-----------------------------------------------------------------------------
(* Packing and destroying.                                                 *)

Request == <<1>>

get_packed_size ==
    /\ pc = "size"
    /\ UNCHANGED failed
    /\ IF Request \notin stored \/ Misses(Request, PackTests) THEN Crash
       ELSE pc' = "pack" /\ UNCHANGED <<call, at, step, ret, live, stored, sent>>

\* The text for the message is there, or it is not and nothing is sent.
Pack ==
    /\ pc = "pack"
    /\ pc' = "destroy"
    /\ sent' \in {Reach(Request), {}}
    /\ UNCHANGED <<call, at, step, ret, live, stored, failed>>

destroy_export_service_request ==
    /\ pc = "destroy"
    /\ UNCHANGED failed
    /\ IF Misses(Request, DestroyTests) THEN Crash
       ELSE /\ live' = live \ Reach(Request)
            /\ pc' = IF sent = {} THEN "null" ELSE "ok"
            /\ UNCHANGED <<call, at, step, ret, stored, sent>>

-----------------------------------------------------------------------------
Init ==
    /\ call \in Requests
    /\ at = <<>> /\ step = 0 /\ ret = "go"
    /\ live = {} /\ stored = {} /\ failed = {} /\ sent = {}
    /\ pc = "build"

Next ==
    \/ Allocate \/ AllocationFails \/ Finish
    \/ KeepNull \/ CleanUp \/ NoResourceSpan \/ NoElement \/ Built
    \/ get_packed_size \/ Pack \/ destroy_export_service_request

\* The call runs in one thread and waits for nothing.
Spec == Init /\ [][Next]_vars /\ WF_vars(Next)

-----------------------------------------------------------------------------
(* Properties.                                                             *)

\* What the encoder can go without: a scope, and a list of no elements.
Spared(node) == node.kind = "scope" \/ EmptyList(node)

\* A call that comes back has freed all its blocks, whatever failed on its
\* way and whichever cleanup ran: the blocks that the cleanup of scope spans
\* and of resource spans forgets are only ever lost in a call that crashes.
CleanExit == pc \in {"ok", "null"} => live = {}

\* A message that is handed out holds the whole context, the scopes that got
\* no memory apart: no attribute list, span, event, link or resource is left
\* out of it quietly.
CompleteAnswer ==
    pc = "ok" => \A p \in sent : \A i \in 1..Node(p).kids :
                    Kid(p, i) \in sent \/ Spared(Node(Kid(p, i)))

\* The encoder crashes for want of memory, for any block but the few that it
\* can go without and the text of the message, and for no other reason.
CrashesAreEarned ==
    LET harmful == \E p \in failed : ~Spared(Node(p))
    IN  /\ pc = "crash" => harmful
        /\ pc \in {"ok", "null"} => ~harmful

\* The call ends, however its loops and cleanups follow each other.
CallEnds == <>(pc \in {"ok", "null", "crash"})

=============================================================================
