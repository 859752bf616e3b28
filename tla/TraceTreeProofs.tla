--------------------------- MODULE TraceTreeProofs ---------------------------
(***************************************************************************)
(* Proofs about TraceTree, for every number of addresses, every set of     *)
(* calls, and with or without allocations that fail.                       *)
(***************************************************************************)
EXTENDS TraceTree, TLAPS

(***************************************************************************)
(* The inductive invariant.  To what the runs check it adds what the lists *)
(* cannot show: no block is owned through a freed structure, a context     *)
(* that does not exist lists nothing.                                      *)
(***************************************************************************)
SlotsAreLive == \A x \in owned \cup dangling : x[1] \in live

NoContext == ~ctx => live = {} /\ resource_spans = <<>>

Shape == Levels /\ ListsAreExact /\ SpansAreInBothLists

Blame == FaultsAreEarned /\ FreedButListed /\ OnlyMessagesDangle /\ LeaksAreEarned

IInv == TypeOK /\ Shape /\ SlotsAreLive /\ NoContext /\ Blame /\ LiveIsComplete

Kinds == {"use_after_free", "double_free", "null_deref"}

\* A set of structures that contains what its members list.
Closed(D) == \A n \in D : n \in Node /\ kids[n] \subseteq D

-----------------------------------------------------------------------------
(* Subtrees.                                                               *)

\* A walk from a structure that is alive meets only live structures, and all
\* that they list.
LEMMA SubtreeClosed ==
    ASSUME TypeOK, Shape, NEW n \in Node
    PROVE  Closed(Subtree(n)) /\ n \in Subtree(n)
           /\ (n \in live => Subtree(n) \subseteq live)
<1> DEFINE b1 == kids[n]
           b2 == UNION {kids[m] : m \in b1}
           b3 == UNION {kids[m] : m \in b2}
<1>1. Subtree(n) = {n} \cup b1 \cup b2 \cup b3
  BY DEF Subtree
<1>2. kids \in [Node -> SUBSET Node] /\ Levels
  BY DEF TypeOK, Shape
<1>3. b1 \subseteq Node /\ b2 \subseteq Node /\ b3 \subseteq Node
  BY <1>2
<1>4. b3 \subseteq Event \cup Link
  <2>1. CASE n \in RSpan
    <3>1. b1 \subseteq SSpan BY <1>2, <2>1 DEF Levels
    <3>2. b2 \subseteq Span BY <1>2, <3>1 DEF Levels
    <3> QED BY <1>2, <3>2 DEF Levels
  <2>2. CASE n \in SSpan
    <3>1. b1 \subseteq Span BY <1>2, <2>2 DEF Levels
    <3>2. b2 \subseteq Event \cup Link BY <1>2, <3>1 DEF Levels
    <3> QED BY <1>2, <3>2 DEF Levels
  <2>3. CASE n \in Span
    <3>1. b1 \subseteq Event \cup Link BY <1>2, <2>3 DEF Levels
    <3>2. b2 = {} BY <1>2, <3>1 DEF Levels
    <3> QED BY <3>2
  <2>4. CASE n \in Event \cup Link
    <3>1. b1 = {} BY <1>2, <2>4 DEF Levels
    <3> QED BY <3>1
  <2> QED BY <2>1, <2>2, <2>3, <2>4 DEF Node
<1>5. \A m \in b3 : kids[m] = {}
  BY <1>2, <1>4 DEF Levels
<1>6. \A m \in b1 : kids[m] \subseteq b2
  OBVIOUS
<1>7. \A m \in b2 : kids[m] \subseteq b3
  OBVIOUS
<1>8. Closed(Subtree(n)) /\ n \in Subtree(n)
  BY <1>1, <1>3, <1>5, <1>6, <1>7 DEF Closed
<1>9. \A m \in Node : kids[m] \subseteq live
  BY DEF Shape, ListsAreExact
<1>10. b1 \subseteq live /\ b2 \subseteq live /\ b3 \subseteq live
  BY <1>9, <1>3
<1> QED BY <1>1, <1>8, <1>10

\* A live structure is one of those a walk from the context meets.
LEMMA LiveIsListed ==
    ASSUME TypeOK, Shape
    PROVE  live \subseteq UNION {Subtree(r) : r \in Listed}
<1> DEFINE all == UNION {Subtree(r) : r \in Listed}
<1>1. Listed \subseteq RSpan
  BY DEF Listed, TypeOK
<1>2. \A r \in Listed : Closed(Subtree(r)) /\ r \in Subtree(r)
  BY <1>1, SubtreeClosed DEF Node
<1>3. Closed(all) /\ Listed \subseteq all
  BY <1>2 DEF Closed
<1>4. /\ kids \in [Node -> SUBSET Node] /\ live \subseteq Node
      /\ \A n \in live \ RSpan : \E p \in live : n \in kids[p]
      /\ live \cap RSpan \subseteq Listed
  BY DEF TypeOK, Shape, ListsAreExact
<1>5. live \cap RSpan \subseteq all
  BY <1>3, <1>4
<1>6. live \cap SSpan \subseteq all
  <2> SUFFICES ASSUME NEW n \in live \cap SSpan PROVE n \in all
    OBVIOUS
  <2>1. PICK p \in live : n \in kids[p]
    BY <1>4, PoolsAreDisjoint
  <2>2. p \in RSpan
    BY <2>1, <1>4, PoolsAreDisjoint DEF Node, Shape, Levels
  <2> QED BY <2>1, <2>2, <1>3, <1>5 DEF Closed
<1>7. live \cap Span \subseteq all
  <2> SUFFICES ASSUME NEW n \in live \cap Span PROVE n \in all
    OBVIOUS
  <2>1. PICK p \in live : n \in kids[p]
    BY <1>4, PoolsAreDisjoint
  <2>2. p \in SSpan
    BY <2>1, <1>4, PoolsAreDisjoint DEF Node, Shape, Levels
  <2> QED BY <2>1, <2>2, <1>3, <1>6 DEF Closed
<1>8. live \cap (Event \cup Link) \subseteq all
  <2> SUFFICES ASSUME NEW n \in live \cap (Event \cup Link) PROVE n \in all
    OBVIOUS
  <2>1. PICK p \in live : n \in kids[p]
    BY <1>4, PoolsAreDisjoint
  <2>2. p \in Span
    BY <2>1, <1>4, PoolsAreDisjoint DEF Node, Shape, Levels
  <2> QED BY <2>1, <2>2, <1>3, <1>7 DEF Closed
<1> QED BY <1>4, <1>5, <1>6, <1>7, <1>8 DEF Node

-----------------------------------------------------------------------------
(* One lemma per way a call ends.                                          *)

\* A call that runs into undefined behaviour leaves the tree as it was: only
\* the blame has to be placed.
LEMMA MisuseStep ==
    ASSUME IInv, NEW kind \in Kinds, NEW situation \in SUBSET Situation,
           Misuse(kind, situation), FaultsAreEarned'
    PROVE  IInv'
<1> USE DEF Misuse, tree, heap
<1>1. TypeOK'
  BY DEF IInv, TypeOK, Kinds
<1>2. Shape' /\ SlotsAreLive' /\ NoContext'
  BY DEF IInv, Shape, Levels, ListsAreExact, SpansAreInBothLists, SlotsAreLive,
         NoContext, Listed
<1>3. LiveIsComplete'
  BY DEF IInv, LiveIsComplete
<1>4. Blame'
  BY DEF IInv, Blame, FreedButListed, OnlyMessagesDangle, LeaksAreEarned, Listed
<1> QED BY <1>1, <1>2, <1>3, <1>4 DEF IInv

\* A call that changes nothing but what it answers.
LEMMA IdleStep ==
    ASSUME IInv, UNCHANGED <<ctx, tree, heap, met, fault>>, ret' \in {"ok", "fail"}
    PROVE  IInv'
<1> USE DEF tree, heap
<1>1. TypeOK'
  BY DEF IInv, TypeOK
<1>2. Shape' /\ SlotsAreLive' /\ NoContext'
  BY DEF IInv, Shape, Levels, ListsAreExact, SpansAreInBothLists, SlotsAreLive,
         NoContext, Listed
<1>3. LiveIsComplete' /\ Blame'
  BY DEF IInv, LiveIsComplete, Blame, FaultsAreEarned, FreedButListed,
         OnlyMessagesDangle, LeaksAreEarned, Listed
<1> QED BY <1>1, <1>2, <1>3 DEF IInv

\* The slots that are NULL only in a structure under construction.
Mandatory == (Span \X {"name", "attr"}) \cup (Event \X {"name", "attr"})
               \cup (RSpan \X {"resource", "resource_attr"})

\* A setter that fills or empties a slot of a live structure.
LEMMA SlotStep ==
    ASSUME IInv, NEW x \in Slot, x[1] \in live,
           \/ owned' = owned \cup {x}
           \/ owned' = owned \ {x} /\ x \notin Mandatory,
           UNCHANGED <<ctx, tree, dangling, leaked, met, fault>>,
           ret' \in {"ok", "fail"}
    PROVE  IInv'
<1> USE DEF tree
<1>1. TypeOK'
  BY DEF IInv, TypeOK
<1>2. Shape' /\ NoContext'
  BY DEF IInv, Shape, Levels, ListsAreExact, SpansAreInBothLists, NoContext, Listed
<1>3. SlotsAreLive'
  BY DEF IInv, SlotsAreLive
<1>4. Blame'
  BY DEF IInv, Blame, FaultsAreEarned, FreedButListed, OnlyMessagesDangle,
         LeaksAreEarned, Listed
<1>5. LiveIsComplete'
  BY DEF IInv, LiveIsComplete, Mandatory
<1> QED BY <1>1, <1>2, <1>3, <1>4, <1>5 DEF IInv

LEMMA ReplaceStep ==
    ASSUME IInv, NEW x \in Slot, x[1] \in live, x \notin Mandatory,
           NEW from, NEW onFailure \in {"ok", "fail"}, Replace(x, from, onFailure),
           fault = "none"
    PROVE  IInv'
<1>1. CASE x \in dangling
  <2>1. Misuse("double_free", {})
    BY <1>1 DEF Replace
  <2>2. FaultsAreEarned'
    BY <1>1, <2>1 DEF IInv, Blame, OnlyMessagesDangle, FaultsAreEarned, Misuse
  <2> QED BY <2>1, <2>2, MisuseStep DEF Kinds
<1>2. CASE x \notin dangling /\ from = x
  <2>1. Misuse("use_after_free", {"own_value"})
    BY <1>2 DEF Replace
  <2>2. FaultsAreEarned'
    BY <2>1 DEF FaultsAreEarned, Misuse
  <2> QED BY <2>1, <2>2, MisuseStep DEF Kinds, Situation
<1>3. CASE x \notin dangling /\ from # x
  BY <1>3, SlotStep DEF Replace, Return
<1> QED BY <1>1, <1>2, <1>3

LEMMA TakeStep ==
    ASSUME IInv, NEW x \in Slot, x[1] \in live, Take(x), fault = "none"
    PROVE  IInv'
<1>1. CASE x \in dangling
  <2>1. Misuse("double_free", {})
    BY <1>1 DEF Take
  <2>2. FaultsAreEarned'
    BY <1>1, <2>1 DEF IInv, Blame, OnlyMessagesDangle, FaultsAreEarned, Misuse
  <2> QED BY <2>1, <2>2, MisuseStep DEF Kinds
<1>2. CASE x \notin dangling
  BY <1>2, SlotStep DEF Take, Return
<1> QED BY <1>1, <1>2

LEMMA OverwriteStep ==
    ASSUME IInv, NEW x \in Link \X {"trace_state", "attr"}, x[1] \in live,
           NEW outcomes \in SUBSET BOOLEAN, Overwrite(x, outcomes)
    PROVE  IInv'
<1> USE DEF Overwrite, tree
<1>0. /\ x \in Slot /\ x \notin Mandatory
      /\ x \in LinkSlot
  BY PoolsAreDisjoint DEF Slot, LinkSlot, Mandatory
<1>1. TypeOK'
  BY <1>0 DEF IInv, TypeOK, Situation
<1>2. Shape' /\ NoContext'
  BY DEF IInv, Shape, Levels, ListsAreExact, SpansAreInBothLists, NoContext, Listed
<1>3. SlotsAreLive'
  BY DEF IInv, SlotsAreLive
<1>4. Blame'
  BY DEF IInv, Blame, FaultsAreEarned, FreedButListed, OnlyMessagesDangle,
         LeaksAreEarned, Listed
<1>5. LiveIsComplete'
  BY <1>0 DEF IInv, LiveIsComplete, Mandatory
<1> QED BY <1>1, <1>2, <1>3, <1>4, <1>5 DEF IInv

-----------------------------------------------------------------------------
(* Structures come and go.                                                 *)

\* n may be a child of p, and joins the context's list if it is a span.
Joins(n, p) ==
    \/ n \in SSpan /\ p \in RSpan /\ span_list' = span_list
    \/ n \in Span /\ p \in SSpan /\ span_list' = span_list \cup {n}
    \/ n \in Event \cup Link /\ p \in Span /\ span_list' = span_list

LEMMA AttachShape ==
    ASSUME TypeOK, Shape, NEW p \in live, NEW n \in Node \ live, NEW slots,
           Attach(n, p, slots), Joins(n, p)
    PROVE  Shape'
<1> USE DEF Attach
<1>1. /\ kids \in [Node -> SUBSET Node] /\ live \subseteq Node
      /\ n # p /\ p \in Node /\ n \in Node
  BY DEF TypeOK
<1>2. /\ \A q \in Node : kids'[q] = IF q = n THEN {} ELSE
                                    IF q = p THEN kids[p] \cup {n} ELSE kids[q]
      /\ live' = live \cup {n}
  BY <1>1
<1>3. \A q \in Node : n \notin kids[q] /\ kids[q] \subseteq live
  BY DEF Shape, ListsAreExact
<1>4. Levels'
  BY <1>1, <1>2, PoolsAreDisjoint DEF Shape, Levels, Joins, Node
<1>5. ListsAreExact'
  <2>1. \A q \in Node : kids'[q] \subseteq live' /\ (q \notin live' => kids'[q] = {})
    BY <1>1, <1>2, <1>3 DEF Shape, ListsAreExact
  <2>2. \A q, m \in Node : q # m => kids'[q] \cap kids'[m] = {}
    BY <1>1, <1>2, <1>3 DEF Shape, ListsAreExact
  <2>3. \A m \in live' \ RSpan : \E q \in live' : m \in kids'[q]
    <3> SUFFICES ASSUME NEW m \in live' \ RSpan PROVE \E q \in live' : m \in kids'[q]
      OBVIOUS
    <3>1. CASE m = n
      BY <3>1, <1>1, <1>2
    <3>2. CASE m # n
      <4>1. PICK q \in live : m \in kids[q]
        BY <3>2, <1>2 DEF Shape, ListsAreExact
      <4>2. m \in kids'[q]
        BY <4>1, <1>1, <1>2
      <4> QED BY <4>1, <4>2, <1>2
    <3> QED BY <3>1, <3>2
  <2>4. live' \cap RSpan \subseteq Listed'
    BY <1>2, PoolsAreDisjoint DEF Shape, ListsAreExact, Joins, Listed
  <2> QED BY <2>1, <2>2, <2>3, <2>4 DEF ListsAreExact
<1>6. SpansAreInBothLists'
  <2>1. span_list' = live' \cap Span
    BY <1>2, PoolsAreDisjoint DEF Shape, SpansAreInBothLists, Joins
  <2>2. \A x : x \in span_list <=> \E s \in SSpan : x \in kids[s]
    BY DEF Shape, SpansAreInBothLists
  <2>3. \A x : x \in span_list' <=> \E s \in SSpan : x \in kids'[s]
    <3>1. CASE n \in Span /\ p \in SSpan /\ span_list' = span_list \cup {n}
      BY <3>1, <2>2, <1>1, <1>2, PoolsAreDisjoint DEF Node
    <3>2. CASE n \in SSpan /\ p \in RSpan /\ span_list' = span_list
      <4>1. kids[n] = {}
        BY <1>1 DEF Shape, ListsAreExact
      <4> QED BY <3>2, <4>1, <2>2, <1>1, <1>2, PoolsAreDisjoint DEF Node
    <3>3. CASE n \in Event \cup Link /\ p \in Span /\ span_list' = span_list
      BY <3>3, <2>2, <1>1, <1>2, PoolsAreDisjoint DEF Node
    <3> QED BY <3>1, <3>2, <3>3 DEF Joins
  <2> QED BY <2>1, <2>3 DEF SpansAreInBothLists
<1> QED BY <1>4, <1>5, <1>6 DEF Shape

LEMMA AttachStep ==
    ASSUME IInv, NEW p \in live, NEW n \in Node \ live, NEW slots \in SUBSET Slot,
           Attach(n, p, slots), Joins(n, p), \A x \in slots : x[1] = n,
           met \subseteq met', met' \subseteq Situation, children' \subseteq Span,
           UNCHANGED <<ctx, fault>>, ret' \in {"ok", "fail"},
           n \in Span => {<<n, "name">>, <<n, "attr">>} \subseteq slots,
           n \in Event => <<n, "name">> \in slots /\
                          (<<n, "attr">> \in slots \/ "event_attr_missing" \in met'),
           ctx
    PROVE  IInv'
<1>1. TypeOK'
  BY PoolsAreDisjoint DEF IInv, TypeOK, Attach, Joins
<1>2. Shape'
  BY AttachShape DEF IInv
<1>3. SlotsAreLive' /\ NoContext'
  BY DEF IInv, SlotsAreLive, NoContext, Attach
<1>4. Blame'
  BY DEF IInv, Blame, FaultsAreEarned, FreedButListed, OnlyMessagesDangle,
         LeaksAreEarned, Listed, Attach
<1>5. LiveIsComplete'
  BY PoolsAreDisjoint DEF IInv, LiveIsComplete, Attach, Joins
<1> QED BY <1>1, <1>2, <1>3, <1>4, <1>5 DEF IInv

\* The destructors, run over structures that own all that they list.
LEMMA ReleaseShape ==
    ASSUME TypeOK, Shape, NEW D \in SUBSET Node, Closed(D), Release(D),
           live' \cap RSpan \subseteq Listed'
    PROVE  Shape'
<1>1. /\ kids \in [Node -> SUBSET Node] /\ live \subseteq Node
      /\ live' = live \ D /\ span_list' = span_list \ (D \cap Span)
  BY DEF TypeOK, Release, UnlinksGlobal
<1>2. \A q \in Node : kids[q] \cap RSpan = {}
  BY PoolsAreDisjoint DEF Shape, Levels, Node
<1>3. \A q \in Node : kids'[q] = IF q \in D THEN {} ELSE kids[q] \ D
  <2>1. \A q \in Node : kids'[q] = IF q \in D THEN {} ELSE kids[q] \ (D \cap Unlinks)
    BY DEF Release
  <2>2. \A q \in Node : kids[q] \subseteq Node
    BY <1>1
  <2>3. \A q \in Node : kids[q] \ (D \cap Unlinks) = kids[q] \ D
    BY <1>2, <2>2 DEF Unlinks, Node
  <2> QED BY <2>1, <2>3
<1>4. Levels'
  BY <1>3 DEF Shape, Levels, Node
<1>5. ListsAreExact'
  <2>1. \A q \in Node : kids'[q] \subseteq live' /\ (q \notin live' => kids'[q] = {})
    <3> SUFFICES ASSUME NEW q \in Node
                 PROVE  kids'[q] \subseteq live' /\ (q \notin live' => kids'[q] = {})
      OBVIOUS
    <3>1. kids[q] \subseteq live /\ (q \notin live => kids[q] = {})
      BY DEF Shape, ListsAreExact
    <3>2. CASE q \in D
      BY <3>2, <1>3
    <3>3. CASE q \notin D
      BY <3>1, <3>3, <1>1, <1>3
    <3> QED BY <3>2, <3>3
  <2>2. \A q, m \in Node : q # m => kids'[q] \cap kids'[m] = {}
    BY <1>3 DEF Shape, ListsAreExact
  <2>3. \A m \in live' \ RSpan : \E q \in live' : m \in kids'[q]
    <3> SUFFICES ASSUME NEW m \in live' \ RSpan PROVE \E q \in live' : m \in kids'[q]
      OBVIOUS
    <3>1. PICK q \in live : m \in kids[q]
      BY <1>1 DEF Shape, ListsAreExact
    <3>2. q \notin D
      BY <3>1, <1>1 DEF Closed
    <3> QED BY <3>1, <3>2, <1>1, <1>3
  <2> QED BY <2>1, <2>2, <2>3 DEF ListsAreExact
<1>6. SpansAreInBothLists'
  <2>1. span_list' = live' \cap Span
    BY <1>1 DEF Shape, SpansAreInBothLists
  <2>2. \A x : x \in span_list <=> \E s \in SSpan : x \in kids[s]
    BY DEF Shape, SpansAreInBothLists
  <2>3. \A s \in SSpan : s \in D => kids[s] \subseteq D
    BY DEF Closed
  <2>4. \A s \in SSpan : kids[s] \subseteq Span
    BY DEF Shape, Levels
  <2>5. \A s \in SSpan : kids'[s] = kids[s] \ (D \cap Span)
    BY <1>3, <2>3, <2>4 DEF Node
  <2>6. \A x : x \in span_list' <=> \E s \in SSpan : x \in kids'[s]
    BY <1>1, <2>2, <2>5
  <2> QED BY <2>1, <2>6 DEF SpansAreInBothLists
<1> QED BY <1>4, <1>5, <1>6 DEF Shape

LEMMA ReleaseStep ==
    ASSUME IInv, NEW D \in SUBSET Node, Closed(D), Release(D),
           SlotsOf(D) \cap dangling = {},
           \/ UNCHANGED <<ctx, resource_spans>>
              /\ (Listed \subseteq live' \/ met' \cap {"resource_failed", "rspan_destroyed"} # {})
           \/ live \subseteq D /\ ctx' = FALSE /\ resource_spans' = <<>>,
           met \subseteq met', met' \subseteq Situation,
           UNCHANGED fault, ret' \in {"ok", "fail"}
    PROVE  IInv'
<1>1. TypeOK'
  <2>1. kids' \in [Node -> SUBSET Node]
    BY DEF IInv, TypeOK, Release
  <2>2. resource_spans' \in Seq(RSpan) /\ ctx' \in BOOLEAN
    <3>1. <<>> \in Seq(RSpan)
      OBVIOUS
    <3>2. resource_spans \in Seq(RSpan) /\ ctx \in BOOLEAN
      BY DEF IInv, TypeOK
    <3>3. CASE UNCHANGED <<ctx, resource_spans>>
      BY <3>2, <3>3
    <3>4. CASE ctx' = FALSE /\ resource_spans' = <<>>
      BY <3>1, <3>4
    <3> QED BY <3>3, <3>4
  <2>3. leaked' \subseteq Slot
    BY DEF IInv, TypeOK, Release
  <2> QED BY <2>1, <2>2, <2>3 DEF IInv, TypeOK, Release
<1>2. Shape'
  <2>1. live' \cap RSpan \subseteq Listed'
    BY DEF IInv, Shape, ListsAreExact, Release, Listed
  <2> QED BY <2>1, ReleaseShape DEF IInv
<1>3. SlotsAreLive'
  <2> SUFFICES ASSUME NEW x \in owned' \cup dangling' PROVE x[1] \in live'
    BY DEF SlotsAreLive
  <2>1. x \in owned \cup dangling /\ x \in Slot /\ x \notin SlotsOf(D)
    BY DEF Release, IInv, TypeOK
  <2>2. x[1] \notin D /\ x[1] \in live
    BY <2>1 DEF SlotsOf, IInv, SlotsAreLive
  <2> QED BY <2>2 DEF Release
<1>4. NoContext'
  BY DEF IInv, NoContext, Release
<1>5. (owned \cap SlotsOf(D)) \ Frees = {}
  BY DEF IInv, TypeOK, Slot, Frees, RSpanSlot, SSpanSlot, SpanSlot, EventSlot,
         LinkSlot, RSpanFrees, SSpanFrees, SpanFrees, EventFrees, LinkFrees
<1>6. Blame'
  <2>1. FreedButListed'
    BY DEF IInv, Blame, FreedButListed, Listed
  <2> QED BY <2>1, <1>5 DEF IInv, Blame, FaultsAreEarned, OnlyMessagesDangle,
                            LeaksAreEarned, Release
<1>7. LiveIsComplete'
  <2>1. \A x \in owned : x[1] \in live' => x \in owned'
    BY DEF Release, SlotsOf
  <2> QED BY <2>1 DEF IInv, LiveIsComplete, Release
<1> QED BY <1>1, <1>2, <1>3, <1>4, <1>6, <1>7 DEF IInv

\* A call of a destructor on a live structure.
LEMMA DestroyStep ==
    ASSUME IInv, NEW n \in live, NEW situation \in SUBSET Situation, fault = "none",
           n \in RSpan => situation = {"rspan_destroyed"},
           Destroy(Subtree(n), situation), ctx
    PROVE  IInv'
<1> DEFINE D == Subtree(n)
<1>1. n \in Node /\ live \subseteq Node
  BY DEF IInv, TypeOK
<1>2. Closed(D) /\ D \subseteq live /\ n \in D
  BY <1>1, SubtreeClosed DEF IInv
<1>3. Touched(D) \subseteq live
  <2>1. \A p \in Node : kids[p] \subseteq live
    BY DEF IInv, Shape, ListsAreExact
  <2>2. span_list \subseteq live
    BY DEF IInv, Shape, SpansAreInBothLists
  <2>3. UNION {kids[p] : p \in {q \in Node : kids[q] \cap D # {}}} \subseteq live
    BY <2>1
  <2>4. D \subseteq live
    BY <1>2
  <2> HIDE DEF D
  <2> QED BY <2>2, <2>3, <2>4 DEF Touched
<1>4. CASE DestroyFaults(D) = {}
  <2>1. /\ Release(D) /\ ret' = "ok" /\ met' = met \cup situation
        /\ UNCHANGED <<ctx, resource_spans, fault>>
    BY <1>4 DEF Destroy
  <2>2. SlotsOf(D) \cap dangling = {}
    BY <1>4 DEF DestroyFaults
  <2>3. Listed \subseteq live' \/ met' \cap {"resource_failed", "rspan_destroyed"} # {}
    <3>1. CASE n \in RSpan
      BY <3>1, <2>1
    <3>2. CASE n \notin RSpan
      <4>1. D \cap RSpan = {}
        <5>1. \A q \in Node : kids[q] \cap RSpan = {}
          BY PoolsAreDisjoint DEF IInv, Shape, Levels, Node
        <5>2. kids \in [Node -> SUBSET Node]
          BY DEF IInv, TypeOK
        <5> QED BY <5>1, <5>2, <3>2, <1>1 DEF Subtree
      <4>2. Listed \subseteq RSpan
        BY DEF IInv, TypeOK, Listed
      <4> QED BY <4>1, <4>2, <2>1 DEF IInv, Blame, FreedButListed, Release
    <3> QED BY <3>1, <3>2
  <2>4. D \in SUBSET Node /\ met' \subseteq Situation
    BY <1>1, <1>2, <2>1 DEF IInv, TypeOK
  <2> QED BY <1>2, <2>1, <2>2, <2>3, <2>4, ReleaseStep
<1>5. CASE DestroyFaults(D) # {}
  <2>1. PICK kind \in DestroyFaults(D) : Misuse(kind, situation)
    BY <1>5 DEF Destroy
  <2>2. kind = "double_free" /\ dangling # {}
    BY <1>3 DEF DestroyFaults
  <2>3. FaultsAreEarned'
    BY <2>1, <2>2 DEF IInv, Blame, OnlyMessagesDangle, FaultsAreEarned, Misuse
  <2> QED BY <2>1, <2>2, <2>3, MisuseStep DEF Kinds
<1> QED BY <1>4, <1>5

-----------------------------------------------------------------------------
(* The context and its resource spans.                                     *)

LEMMA DestroyContextStep ==
    ASSUME IInv, ctr_destroy
    PROVE  IInv'
<1> DEFINE all == UNION {Subtree(r) : r \in Listed}
<1>1. Listed \subseteq RSpan /\ fault = "none" /\ ctx
  BY DEF IInv, TypeOK, Listed, ctr_destroy, Called
<1>2. \A r \in Listed : Closed(Subtree(r))
  BY <1>1, SubtreeClosed DEF IInv, Node
<1>3. Closed(all) /\ all \in SUBSET Node
  BY <1>2 DEF Closed
<1>4. live \subseteq all
  BY LiveIsListed DEF IInv
<1>5. CASE DestroyFaults(all) = {}
  <2>1. /\ Release(all) /\ ctx' = FALSE /\ resource_spans' = <<>> /\ ret' = "ok"
        /\ UNCHANGED <<met, fault>>
    BY <1>5 DEF ctr_destroy
  <2>2. SlotsOf(all) \cap dangling = {}
    BY <1>5 DEF DestroyFaults
  <2>3. met' \subseteq Situation
    BY <2>1 DEF IInv, TypeOK
  <2> HIDE DEF all
  <2> QED BY <1>3, <1>4, <2>1, <2>2, <2>3, ReleaseStep
<1>6. CASE DestroyFaults(all) # {}
  <2>1. PICK kind \in DestroyFaults(all) : Misuse(kind, {})
    BY <1>6 DEF ctr_destroy
  <2>2. CASE kind = "double_free" /\ dangling # {}
    <3>1. FaultsAreEarned'
      BY <2>1, <2>2 DEF IInv, Blame, OnlyMessagesDangle, FaultsAreEarned, Misuse
    <3> QED BY <2>1, <2>2, <3>1, MisuseStep DEF Kinds
  <2>3. CASE kind = "use_after_free" /\ ~(Touched(all) \subseteq live)
    <3>1. ~(Listed \subseteq live)
      <4> SUFFICES ASSUME Listed \subseteq live PROVE Touched(all) \subseteq live
        BY <2>3
      <4>1. \A r \in Listed : Subtree(r) \subseteq live
        BY <1>1, SubtreeClosed DEF IInv, Node
      <4>2. all \subseteq live
        BY <4>1
      <4>3. \A p \in Node : kids[p] \subseteq live
        BY DEF IInv, Shape, ListsAreExact
      <4>4. span_list \subseteq live
        BY DEF IInv, Shape, SpansAreInBothLists
      <4> HIDE DEF all
      <4> QED BY <4>2, <4>3, <4>4 DEF Touched
    <3>2. FaultsAreEarned'
      BY <2>1, <2>3, <3>1 DEF IInv, Blame, FreedButListed, FaultsAreEarned, Misuse
    <3> QED BY <2>1, <2>3, <3>2, MisuseStep DEF Kinds
  <2> QED BY <2>1, <2>2, <2>3 DEF DestroyFaults
<1> QED BY <1>5, <1>6

LEMMA CreateContextStep ==
    ASSUME IInv, ctr_create
    PROVE  IInv'
<1>1. /\ ~ctx /\ live = {} /\ resource_spans = <<>> /\ span_list = {}
      /\ owned = {} /\ dangling = {}
  BY DEF IInv, ctr_create, NoContext, Shape, SpansAreInBothLists, SlotsAreLive
<1>2. /\ ctx' \in BOOLEAN /\ ret' \in {"ok", "fail"} /\ resource_spans' = <<>>
      /\ span_list' = {} /\ last_span_id' = 0
      /\ UNCHANGED <<live, kids, children, owned, dangling, leaked, met, fault>>
  BY MayFailIsBoolean DEF ctr_create, Alloc, heap
<1>3. TypeOK'
  BY <1>1, <1>2 DEF IInv, TypeOK
<1>4. Shape' /\ SlotsAreLive' /\ NoContext'
  BY <1>1, <1>2 DEF IInv, Shape, Levels, ListsAreExact, SpansAreInBothLists,
                    SlotsAreLive, NoContext, Listed
<1>5. LiveIsComplete' /\ Blame'
  BY <1>1, <1>2 DEF IInv, LiveIsComplete, Blame, FaultsAreEarned, FreedButListed,
                    OnlyMessagesDangle, LeaksAreEarned, Listed
<1> QED BY <1>3, <1>4, <1>5 DEF IInv

LEMMA LinkRSpanStep ==
    ASSUME IInv, NEW r \in RSpan \ (live \cup Listed), NEW ok \in BOOLEAN,
           LinkRSpan(r, ok), ctx
    PROVE  IInv'
<1>1. /\ kids[r] = {} /\ kids' = [kids EXCEPT ![r] = {}]
      /\ r \in Node /\ kids \in [Node -> SUBSET Node]
  BY DEF IInv, Shape, ListsAreExact, TypeOK, Node, LinkRSpan
<1>2. kids' = kids
  BY <1>1
<1>3. /\ live' = (IF ok THEN live \cup {r} ELSE live)
      /\ span_list' = span_list /\ Listed' = Listed \cup {r}
  <2>1. resource_spans \in Seq(RSpan) /\ resource_spans' = Append(resource_spans, r)
    BY DEF IInv, TypeOK, LinkRSpan
  <2>2. Listed' = Listed \cup {r}
    BY <2>1 DEF Listed
  <2> QED BY <2>2 DEF LinkRSpan
<1>4. TypeOK'
  <2>1. resource_spans' \in Seq(RSpan)
    BY DEF IInv, TypeOK, LinkRSpan
  <2>2. owned' \subseteq Slot
    BY DEF IInv, TypeOK, LinkRSpan, Slot, RSpanSlot
  <2>3. met' \subseteq Situation
    BY DEF IInv, TypeOK, LinkRSpan, Situation
  <2> QED BY <1>1, <1>2, <1>3, <2>1, <2>2, <2>3 DEF IInv, TypeOK, LinkRSpan
<1>5. Shape'
  <2>1. Levels'
    BY <1>2 DEF IInv, Shape, Levels
  <2>2. ListsAreExact'
    BY <1>2, <1>3 DEF IInv, Shape, ListsAreExact
  <2>3. SpansAreInBothLists'
    BY <1>2, <1>3, PoolsAreDisjoint DEF IInv, Shape, SpansAreInBothLists
  <2> QED BY <2>1, <2>2, <2>3 DEF Shape
<1>6. SlotsAreLive' /\ NoContext'
  BY <1>3 DEF IInv, SlotsAreLive, NoContext, LinkRSpan
<1>7. Blame'
  <2>1. FreedButListed'
    BY <1>3 DEF IInv, Blame, FreedButListed, LinkRSpan
  <2> QED BY <2>1 DEF IInv, Blame, FaultsAreEarned, OnlyMessagesDangle,
                      LeaksAreEarned, LinkRSpan
<1>8. LiveIsComplete'
  BY PoolsAreDisjoint DEF IInv, LiveIsComplete, LinkRSpan
<1> QED BY <1>4, <1>5, <1>6, <1>7, <1>8 DEF IInv

LEMMA CreateResourceSpanStep ==
    ASSUME IInv, ctr_resource_span_create
    PROVE  IInv'
<1>1. ctx /\ fault = "none"
  BY DEF ctr_resource_span_create, Called
<1>2. CASE Refuse
  BY <1>2, IdleStep DEF Refuse, Return
<1>3. CASE \E r \in RSpan \ (live \cup Listed) :
              IF StaleTail THEN Misuse("use_after_free", {})
                           ELSE \E ok \in Alloc : LinkRSpan(r, ok)
  <2>1. PICK r \in RSpan \ (live \cup Listed) :
              IF StaleTail THEN Misuse("use_after_free", {})
                           ELSE \E ok \in Alloc : LinkRSpan(r, ok)
    BY <1>3
  <2>2. CASE StaleTail
    <3>1. ~(Listed \subseteq live)
      BY <2>2 DEF StaleTail, Listed, IInv, TypeOK
    <3>2. Misuse("use_after_free", {})
      BY <2>1, <2>2
    <3>3. FaultsAreEarned'
      BY <3>1, <3>2 DEF IInv, Blame, FreedButListed, FaultsAreEarned, Misuse
    <3> QED BY <3>2, <3>3, MisuseStep DEF Kinds
  <2>3. CASE ~StaleTail
    <3>1. PICK ok \in Alloc : LinkRSpan(r, ok)
      BY <2>1, <2>3
    <3>2. ok \in BOOLEAN
      BY MayFailIsBoolean DEF Alloc
    <3> QED BY <1>1, <3>1, <3>2, LinkRSpanStep
  <2> QED BY <2>2, <2>3
<1> QED BY <1>2, <1>3 DEF ctr_resource_span_create

-----------------------------------------------------------------------------
(* One lemma per kind of structure that a call is made on, one step per    *)
(* action.                                                                 *)

\* What is always there: the lists name only live structures, so that writing
\* to the neighbours of a list never goes wrong.
LEMMA NeighboursAreLive ==
    ASSUME IInv
    PROVE  /\ span_list \subseteq live
           /\ \A n \in Node : kids[n] \subseteq live
           /\ live \subseteq Node
BY DEF IInv, TypeOK, Shape, ListsAreExact, SpansAreInBothLists

LEMMA ResourceSpanStep ==
    ASSUME IInv, ResourceSpanCall
    PROVE  IInv'
<1>1. PICK r \in live \cap RSpan :
        \/ \E url \in {Arg} \cup Strings : ctr_resource_span_set_schema_url(r, url)
        \/ \E attr \in {NULL, Arg} : ctr_resource_set_attributes(r, attr)
        \/ ctr_resource_span_destroy(r)
        \/ ctr_scope_span_create(r)
  BY DEF ResourceSpanCall
<1>2. ASSUME NEW url, ctr_resource_span_set_schema_url(r, url) PROVE IInv'
  <2>1. <<r, "schema_url">> \in Slot /\ <<r, "schema_url">> \notin Mandatory
    BY PoolsAreDisjoint DEF Slot, RSpanSlot, Mandatory
  <2> QED BY <1>2, <2>1, ReplaceStep DEF ctr_resource_span_set_schema_url, Called
<1>3. CASE \E attr \in {NULL, Arg} : ctr_resource_set_attributes(r, attr)
  <2>1. <<r, "resource_attr">> \in Slot
    BY DEF Slot, RSpanSlot
  <2>2. Refuse \/ (Take(<<r, "resource_attr">>) /\ fault = "none")
    BY <1>3 DEF ctr_resource_set_attributes, Called
  <2>3. CASE Refuse
    BY <2>3, IdleStep DEF Refuse, Return
  <2>4. CASE Take(<<r, "resource_attr">>) /\ fault = "none"
    BY <2>1, <2>4, TakeStep
  <2> QED BY <2>2, <2>3, <2>4
<1>4. CASE ctr_resource_span_destroy(r)
  BY <1>4, DestroyStep DEF ctr_resource_span_destroy, Called, Situation
<1>5. CASE ctr_scope_span_create(r)
  <2>1. CASE Refuse
    BY <2>1, IdleStep DEF Refuse, Return
  <2>2. CASE ~Refuse
    <3>1. PICK s \in SSpan \ live :
            IF ~(kids[r] \subseteq live) THEN Misuse("use_after_free", {})
            ELSE Attach(s, r, {}) /\ Return("ok") /\ UNCHANGED <<span_list, children>>
      BY <1>5, <2>2 DEF ctr_scope_span_create
    <3>2. Attach(s, r, {}) /\ Return("ok") /\ UNCHANGED <<span_list, children>>
      BY <3>1, NeighboursAreLive DEF Node
    <3>3. Joins(s, r)
      BY <3>2 DEF Joins
    <3>4. s \in Node \ live /\ s \notin Span /\ s \notin Event
      BY PoolsAreDisjoint DEF Node
    <3>5. /\ met \subseteq met' /\ met' \subseteq Situation
          /\ children' \subseteq Span /\ ctx
          /\ UNCHANGED <<ctx, fault>> /\ ret' \in {"ok", "fail"}
      BY <1>5, <3>2 DEF IInv, TypeOK, Return, ctr_scope_span_create, Called
    <3>6. {} \in SUBSET Slot /\ (\A x \in {} : x[1] = s) /\ r \in live
      OBVIOUS
    <3> QED BY <3>2, <3>3, <3>4, <3>5, <3>6, AttachStep
  <2> QED BY <2>1, <2>2
<1> QED BY <1>1, <1>2, <1>3, <1>4, <1>5

LEMMA ScopeSpanStep ==
    ASSUME IInv, ScopeSpanCall
    PROVE  IInv'
<1>1. PICK s \in live \cap SSpan :
        \/ \E url \in {Arg} \cup Strings : ctr_scope_span_set_schema_url(s, url)
        \/ \E scope \in {NULL, Arg} : ctr_scope_span_set_instrumentation_scope(s, scope)
        \/ ctr_scope_span_destroy(s)
        \/ \E up \in {NULL} \cup (live \cap Span) : ctr_span_create(s, up)
  BY DEF ScopeSpanCall
<1>2. ASSUME NEW url, ctr_scope_span_set_schema_url(s, url) PROVE IInv'
  <2>1. <<s, "schema_url">> \in Slot /\ <<s, "schema_url">> \notin Mandatory
    BY PoolsAreDisjoint DEF Slot, SSpanSlot, Mandatory
  <2> QED BY <1>2, <2>1, ReplaceStep DEF ctr_scope_span_set_schema_url, Called
<1>3. CASE \E scope \in {NULL, Arg} : ctr_scope_span_set_instrumentation_scope(s, scope)
  <2> DEFINE x == <<s, "instrumentation_scope">>
  <2>1. x \in Slot /\ x \notin Mandatory /\ x[1] \in live /\ x \notin Span \X {"message"}
    BY PoolsAreDisjoint DEF Slot, SSpanSlot, Mandatory
  <2>2. x \notin dangling
    BY <2>1 DEF IInv, Blame, OnlyMessagesDangle
  <2>3. /\ owned' = owned \ {x} \/ owned' = owned \cup {x}
        /\ Return("ok") /\ UNCHANGED <<tree, dangling, leaked>>
    BY <1>3, <2>2 DEF ctr_scope_span_set_instrumentation_scope
  <2> HIDE DEF x
  <2> QED BY <2>1, <2>3, SlotStep DEF Return
<1>4. CASE ctr_scope_span_destroy(s)
  BY <1>4, DestroyStep, PoolsAreDisjoint DEF ctr_scope_span_destroy, Called
<1>5. CASE \E up \in {NULL} \cup (live \cap Span) : ctr_span_create(s, up)
  <2>1. CASE Refuse
    BY <2>1, IdleStep DEF Refuse, Return
  <2>2. CASE ~Refuse
    <3>1. PICK up \in {NULL} \cup (live \cap Span) : ctr_span_create(s, up)
      BY <1>5
    <3>2. PICK p \in Span \ live :
            IF ~(kids[s] \cup span_list \subseteq live)
            THEN Misuse("use_after_free", {})
            ELSE /\ \E id \in ParentIds(p, up) :
                      Attach(p, s, {<<p, "name">>, <<p, "attr">>} \cup id)
                 /\ span_list' = span_list \cup {p}
                 /\ children' = IF up = NULL THEN children
                                                  ELSE children \cup {p}
                 /\ Return("ok")
      BY <2>2, <3>1 DEF ctr_span_create
    <3>3. /\ \E id \in ParentIds(p, up) :
                Attach(p, s, {<<p, "name">>, <<p, "attr">>} \cup id)
          /\ span_list' = span_list \cup {p}
          /\ children' \in {children, children \cup {p}}
          /\ Return("ok")
      BY <3>2, NeighboursAreLive DEF Node
    <3>4. PICK id \in ParentIds(p, up) :
            Attach(p, s, {<<p, "name">>, <<p, "attr">>} \cup id)
      BY <3>3
    <3>5. id \subseteq {<<p, "parent_span_id">>}
      BY DEF ParentIds
    <3> DEFINE slots == {<<p, "name">>, <<p, "attr">>} \cup id
    <3>6. slots \in SUBSET Slot /\ \A x \in slots : x[1] = p
      BY <3>5 DEF Slot, SpanSlot
    <3>7. Joins(p, s)
      BY <3>3 DEF Joins
    <3>8. p \in Node \ live /\ p \notin Event
      BY PoolsAreDisjoint DEF Node
    <3>9. /\ met' = met /\ met \subseteq Situation /\ children' \subseteq Span /\ ctx
          /\ UNCHANGED <<ctx, fault>> /\ ret' = "ok"
      BY <3>1, <3>3 DEF IInv, TypeOK, Return, ctr_span_create, Called
    <3>10. {<<p, "name">>, <<p, "attr">>} \subseteq slots
      OBVIOUS
    <3>11. Attach(p, s, slots)
      BY <3>4
    <3> HIDE DEF slots
    <3> QED BY <3>6, <3>7, <3>8, <3>9, <3>10, <3>11, AttachStep
  <2> QED BY <2>1, <2>2
<1> QED BY <1>1, <1>2, <1>3, <1>4, <1>5

\* The setters of a span's IDs.
LEMMA SetIdStep ==
    ASSUME IInv, NEW p \in live \cap Span, fault = "none",
           NEW field \in {"trace_id", "span_id", "parent_span_id"},
           NEW from, SetId(p, field, from)
    PROVE  IInv'
<1>1. CASE Refuse
  BY <1>1, IdleStep DEF Refuse, Return
<1>2. CASE Replace(<<p, field>>, from, "fail")
  <2>1. <<p, field>> \in Slot /\ <<p, field>> \notin Mandatory
    BY PoolsAreDisjoint DEF Slot, SpanSlot, Mandatory
  <2> QED BY <1>2, <2>1, ReplaceStep
<1> QED BY <1>1, <1>2 DEF SetId

LEMMA SetStatusStep ==
    ASSUME IInv, NEW p \in live \cap Span, NEW message, ctr_span_set_status(p, message)
    PROVE  IInv'
<1> DEFINE x == <<p, "message">>
<1>1. /\ x \in Slot /\ x \notin Mandatory /\ x[1] \in live
      /\ x \in Span \X {"message"} /\ fault = "none"
  BY PoolsAreDisjoint DEF Slot, SpanSlot, Mandatory, ctr_span_set_status, Called
<1> HIDE DEF x
<1>2. CASE message # NULL
  <2>1. Replace(x, message, "fail")
    BY <1>2 DEF ctr_span_set_status, x
  <2> QED BY <1>1, <2>1, ReplaceStep
<1>3. CASE message = NULL /\ x \in dangling
  <2>1. Misuse("double_free", {})
    BY <1>3 DEF ctr_span_set_status, x
  <2>2. FaultsAreEarned'
    BY <1>3, <2>1 DEF IInv, Blame, OnlyMessagesDangle, FaultsAreEarned, Misuse
  <2> QED BY <2>1, <2>2, MisuseStep DEF Kinds
<1>4. CASE message = NULL /\ x \notin dangling
  <2>1. /\ owned' = owned \ {x}
        /\ dangling' = dangling \cup ({x} \cap owned)
        /\ met' = met \cup (IF x \in owned THEN {"status_cleared"} ELSE {})
        /\ ret' = "ok"
        /\ UNCHANGED <<ctx, tree, leaked, fault>>
    BY <1>4 DEF ctr_span_set_status, x
  <2>2. TypeOK'
    BY <1>1, <2>1 DEF IInv, TypeOK, Situation, tree
  <2>3. Shape' /\ NoContext'
    BY <2>1 DEF IInv, Shape, Levels, ListsAreExact, SpansAreInBothLists,
                NoContext, Listed, tree
  <2>4. SlotsAreLive'
    BY <2>1 DEF IInv, SlotsAreLive, tree
  <2>5. Blame'
    BY <1>1, <2>1 DEF IInv, Blame, FaultsAreEarned, FreedButListed,
                      OnlyMessagesDangle, LeaksAreEarned, Listed, tree
  <2>6. LiveIsComplete'
    BY <1>1, <2>1 DEF IInv, LiveIsComplete, Mandatory, tree
  <2> QED BY <2>2, <2>3, <2>4, <2>5, <2>6 DEF IInv
<1> QED BY <1>2, <1>3, <1>4

LEMMA AddEventStep ==
    ASSUME IInv, NEW p \in live \cap Span, NEW name, ctr_span_event_add(p, name)
    PROVE  IInv'
<1>1. CASE Refuse
  BY <1>1, IdleStep DEF Refuse, Return
<1>2. CASE ~Refuse
  <2> DEFINE slots(e, ok) == {<<e, "name">>} \cup (IF ok THEN {<<e, "attr">>} ELSE {})
  <2>1. kids[p] \cap Event \subseteq live
    BY NeighboursAreLive DEF Node
  <2>2. PICK e \in Event \ live, ok \in Alloc :
          /\ Attach(e, p, slots(e, ok))
          /\ met' = met \cup (IF ok THEN {} ELSE {"event_attr_missing"})
          /\ ret' = "ok"
          /\ UNCHANGED <<ctx, span_list, children, fault>>
    BY <1>2, <2>1 DEF ctr_span_event_add
  <2>3. /\ e \in Node \ live /\ e \notin Span /\ p \in live
        /\ slots(e, ok) \in SUBSET Slot /\ \A x \in slots(e, ok) : x[1] = e
    BY PoolsAreDisjoint DEF Node, Slot, EventSlot
  <2>4. Joins(e, p)
    BY <2>2 DEF Joins
  <2>5. /\ met \subseteq met' /\ met' \subseteq Situation /\ children' \subseteq Span
        /\ ctx /\ UNCHANGED <<ctx, fault>> /\ ret' \in {"ok", "fail"}
    BY <2>2 DEF IInv, TypeOK, Situation, ctr_span_event_add, Called
  <2>6. /\ <<e, "name">> \in slots(e, ok)
        /\ <<e, "attr">> \in slots(e, ok) \/ "event_attr_missing" \in met'
    BY <2>2
  <2>7. Attach(e, p, slots(e, ok))
    BY <2>2
  <2> HIDE DEF slots
  <2> QED BY <2>3, <2>4, <2>5, <2>6, <2>7, AttachStep
<1> QED BY <1>1, <1>2

LEMMA CreateLinkStep ==
    ASSUME IInv, NEW p \in live \cap Span, NEW given \in SUBSET {"trace_id", "span_id"},
           ctr_link_create(p, given)
    PROVE  IInv'
<1>1. CASE Refuse
  BY <1>1, IdleStep DEF Refuse, Return
<1>2. CASE Misuse("null_deref", {"link_without_trace_id"})
  <2>1. FaultsAreEarned'
    BY <1>2 DEF FaultsAreEarned, Misuse
  <2> QED BY <1>2, <2>1, MisuseStep DEF Kinds, Situation
<1>3. CASE ~Refuse /\ ~Misuse("null_deref", {"link_without_trace_id"})
  <2>1. kids[p] \cap Link \subseteq live
    BY NeighboursAreLive DEF Node
  <2>2. PICK l \in Link \ live :
          Attach(l, p, {l} \X given) /\ Return("ok") /\ UNCHANGED <<span_list, children>>
    BY <1>3, <2>1 DEF ctr_link_create
  <2>3. /\ l \in Node \ live /\ l \notin Span /\ l \notin Event /\ p \in live
        /\ {l} \X given \in SUBSET Slot /\ \A x \in {l} \X given : x[1] = l
    BY PoolsAreDisjoint DEF Node, Slot, LinkSlot
  <2>4. Joins(l, p)
    BY <2>2 DEF Joins
  <2>5. /\ met \subseteq met' /\ met' \subseteq Situation /\ children' \subseteq Span
        /\ ctx /\ UNCHANGED <<ctx, fault>> /\ ret' \in {"ok", "fail"}
    BY <2>2 DEF IInv, TypeOK, Return, ctr_link_create, Called
  <2> QED BY <2>2, <2>3, <2>4, <2>5, AttachStep
<1> QED BY <1>1, <1>2, <1>3

LEMMA SpanStep ==
    ASSUME IInv, SpanCall
    PROVE  IInv'
<1>1. PICK p \in live \cap Span :
        \/ \E from \in {NULL, Arg} \cup SpanIds :
              \/ ctr_span_set_trace_id(p, from)
              \/ ctr_span_set_span_id(p, from)
              \/ ctr_span_set_parent_span_id(p, from)
        \/ \E attr \in {NULL, Arg} : ctr_span_set_attributes(p, attr)
        \/ \E state \in {Arg} \cup Strings : ctr_span_set_trace_state(p, state)
        \/ \E url \in {Arg} \cup Strings : ctr_span_set_schema_url(p, url)
        \/ \E message \in {NULL, Arg} \cup Strings : ctr_span_set_status(p, message)
        \/ ctr_span_destroy(p)
        \/ \E name \in {NULL, Arg} : ctr_span_event_add(p, name)
        \/ \E given \in SUBSET {"trace_id", "span_id"} : ctr_link_create(p, given)
  BY DEF SpanCall
<1>2. /\ \A f \in {"attr", "trace_state", "schema_url"} : <<p, f>> \in Slot
      /\ \A f \in {"trace_state", "schema_url"} : <<p, f>> \notin Mandatory
  BY PoolsAreDisjoint DEF Slot, SpanSlot, Mandatory
<1>3. ASSUME NEW from, ctr_span_set_trace_id(p, from) PROVE IInv'
  BY <1>3, SetIdStep DEF ctr_span_set_trace_id, Called
<1>4. ASSUME NEW from, ctr_span_set_span_id(p, from) PROVE IInv'
  BY <1>4, SetIdStep DEF ctr_span_set_span_id, Called
<1>5. ASSUME NEW from, ctr_span_set_parent_span_id(p, from) PROVE IInv'
  BY <1>5, SetIdStep DEF ctr_span_set_parent_span_id, Called
<1>6. ASSUME NEW attr, ctr_span_set_attributes(p, attr) PROVE IInv'
  <2>1. CASE Refuse
    BY <2>1, IdleStep DEF Refuse, Return
  <2>2. CASE Take(<<p, "attr">>)
    BY <1>2, <1>6, <2>2, TakeStep DEF ctr_span_set_attributes, Called
  <2> QED BY <1>6, <2>1, <2>2 DEF ctr_span_set_attributes
<1>7. ASSUME NEW state, ctr_span_set_trace_state(p, state) PROVE IInv'
  BY <1>2, <1>7, ReplaceStep DEF ctr_span_set_trace_state, Called
<1>8. ASSUME NEW url, ctr_span_set_schema_url(p, url) PROVE IInv'
  BY <1>2, <1>8, ReplaceStep DEF ctr_span_set_schema_url, Called
<1>9. ASSUME NEW message, ctr_span_set_status(p, message) PROVE IInv'
  BY <1>9, SetStatusStep
<1>10. CASE ctr_span_destroy(p)
  BY <1>10, DestroyStep, PoolsAreDisjoint DEF ctr_span_destroy, Called
<1>11. ASSUME NEW name, ctr_span_event_add(p, name) PROVE IInv'
  BY <1>11, AddEventStep
<1>12. ASSUME NEW given \in SUBSET {"trace_id", "span_id"}, ctr_link_create(p, given)
       PROVE  IInv'
  BY <1>12, CreateLinkStep
<1> QED BY <1>1, <1>3, <1>4, <1>5, <1>6, <1>7, <1>8, <1>9, <1>10, <1>11, <1>12

\* The destructors of the leaves of the tree.
LEMMA LeafSubtree ==
    ASSUME IInv, NEW n \in Event \cup Link
    PROVE  Subtree(n) = {n}
<1>1. kids[n] = {}
  BY DEF IInv, Shape, Levels
<1> QED BY <1>1 DEF Subtree

LEMMA EventStep ==
    ASSUME IInv, EventCall
    PROVE  IInv'
<1>1. PICK e \in live \cap Event :
        \/ ctr_span_event_set_attribute(e)
        \/ \E attr \in {NULL, Arg} : ctr_span_event_set_attributes(e, attr)
        \/ ctr_span_event_delete(e)
  BY DEF EventCall
<1>2. CASE ctr_span_event_set_attribute(e)
  <2>1. CASE <<e, "attr">> \in owned
    BY <1>2, <2>1, IdleStep DEF ctr_span_event_set_attribute, Return
  <2>2. CASE <<e, "attr">> \notin owned
    <3>1. Misuse("null_deref", {})
      BY <1>2, <2>2 DEF ctr_span_event_set_attribute
    <3>2. FaultsAreEarned'
      BY <2>2, <3>1 DEF IInv, LiveIsComplete, FaultsAreEarned, Misuse
    <3> QED BY <3>1, <3>2, MisuseStep DEF Kinds
  <2> QED BY <2>1, <2>2
<1>3. CASE \E attr \in {NULL, Arg} : ctr_span_event_set_attributes(e, attr)
  <2>1. <<e, "attr">> \in Slot
    BY DEF Slot, EventSlot
  <2>2. Refuse \/ (Take(<<e, "attr">>) /\ fault = "none")
    BY <1>3 DEF ctr_span_event_set_attributes, Called
  <2>3. CASE Refuse
    BY <2>3, IdleStep DEF Refuse, Return
  <2>4. CASE Take(<<e, "attr">>) /\ fault = "none"
    BY <2>1, <2>4, TakeStep
  <2> QED BY <2>2, <2>3, <2>4
<1>4. CASE ctr_span_event_delete(e)
  <2>1. Destroy(Subtree(e), {}) /\ ctx /\ fault = "none"
    BY <1>4, LeafSubtree DEF ctr_span_event_delete, Called
  <2>2. e \in live /\ e \notin RSpan
    BY PoolsAreDisjoint
  <2> QED BY <2>1, <2>2, DestroyStep
<1> QED BY <1>1, <1>2, <1>3, <1>4

LEMMA LinkStep ==
    ASSUME IInv, LinkCall
    PROVE  IInv'
<1>1. PICK l \in live \cap Link :
        \/ \E trace_state \in {NULL, Arg} \cup Strings : ctr_link_set_trace_state(l, trace_state)
        \/ \E attr \in {NULL, Arg} : ctr_link_set_attributes(l, attr)
        \/ ctr_link_destroy(l)
  BY DEF LinkCall
<1>2. CASE Refuse
  BY <1>2, IdleStep DEF Refuse, Return
<1> DEFINE x(field) == <<l, field>>
<1>0. \A f \in {"trace_state", "attr"} : x(f) \in Link \X {"trace_state", "attr"} /\ x(f)[1] \in live
  OBVIOUS
<1>3. CASE Overwrite(x("trace_state"), Alloc)
  <2>1. Alloc \in SUBSET BOOLEAN
    BY MayFailIsBoolean DEF Alloc
  <2> HIDE DEF x
  <2> QED BY <1>0, <1>3, <2>1, OverwriteStep
<1>4. CASE Overwrite(x("attr"), {TRUE})
  <2>1. {TRUE} \in SUBSET BOOLEAN
    OBVIOUS
  <2> HIDE DEF x
  <2> QED BY <1>0, <1>4, <2>1, OverwriteStep
<1>5. CASE ctr_link_destroy(l)
  <2>1. Destroy(Subtree(l), {}) /\ ctx /\ fault = "none"
    BY <1>5, LeafSubtree DEF ctr_link_destroy, Called
  <2>2. l \in live /\ l \notin RSpan
    BY PoolsAreDisjoint
  <2> QED BY <2>1, <2>2, DestroyStep
<1> QED BY <1>1, <1>2, <1>3, <1>4, <1>5 DEF ctr_link_set_trace_state, ctr_link_set_attributes

\* An encoder meets a freed structure or block, or an event without attributes,
\* only after the situation that made it.
LEMMA EncodeStep ==
    ASSUME IInv, NEW encoder, Encode(encoder)
    PROVE  IInv'
<1> DEFINE all == UNION {Subtree(r) : r \in Listed}
<1>0. CASE Refuse
  BY <1>0, IdleStep DEF Refuse, Return
<1>1. CASE Return("ok") /\ UNCHANGED <<tree, heap>>
  BY <1>1, IdleStep DEF Return
<1>2. CASE \E kind \in EncodeFaults(encoder) : Misuse(kind, {})
  <2>1. PICK kind \in EncodeFaults(encoder) : Misuse(kind, {})
    BY <1>2
  <2>2. Listed \subseteq live => all \subseteq live
    <3>1. Listed \subseteq RSpan
      BY DEF IInv, TypeOK, Listed
    <3>2. \A r \in Listed : r \in live => Subtree(r) \subseteq live
      BY <3>1, SubtreeClosed DEF IInv, Node
    <3> QED BY <3>2
  <2>3. CASE kind = "use_after_free" /\ ~(all \subseteq live /\ SlotsOf(all) \cap dangling = {})
    <3>1. ~(Listed \subseteq live) \/ dangling # {}
      BY <2>2, <2>3
    <3>2. FaultsAreEarned'
      BY <2>1, <2>3, <3>1 DEF IInv, Blame, FreedButListed, OnlyMessagesDangle,
                              FaultsAreEarned, Misuse
    <3> QED BY <2>1, <2>3, <3>2, MisuseStep DEF Kinds
  <2>4. CASE kind = "null_deref" /\ \E e \in all \cap Event : <<e, "attr">> \notin owned
    <3>1. all \cap Event \subseteq live
      <4>1. Listed \subseteq RSpan
        BY DEF IInv, TypeOK, Listed
      <4>2. \A q \in Node : kids[q] \subseteq live
        BY NeighboursAreLive
      <4>3. kids \in [Node -> SUBSET Node]
        BY DEF IInv, TypeOK
      <4>4. \A r \in RSpan : Subtree(r) \ {r} \subseteq live
        BY <4>2, <4>3 DEF Subtree, Node
      <4> QED BY <4>1, <4>4, PoolsAreDisjoint
    <3>2. FaultsAreEarned'
      BY <2>1, <2>4, <3>1 DEF IInv, LiveIsComplete, FaultsAreEarned, Misuse
    <3> QED BY <2>1, <2>4, <3>2, MisuseStep DEF Kinds
  <2> QED BY <2>1, <2>3, <2>4 DEF EncodeFaults
<1>3. CASE Misuse("null_deref", {"otlp_no_memory"})
  <2>1. FaultsAreEarned'
    BY <1>3 DEF Misuse, FaultsAreEarned
  <2> QED BY <1>3, <2>1, MisuseStep DEF Kinds, Situation
<1> QED BY <1>0, <1>1, <1>2, <1>3 DEF Encode

-----------------------------------------------------------------------------
(* The theorems.                                                           *)

LEMMA InitIInv == Init => IInv
<1> SUFFICES ASSUME Init PROVE IInv
  OBVIOUS
<1> USE DEF Init
<1>0. <<>> \in Seq(RSpan) /\ kids \in [Node -> SUBSET Node]
  OBVIOUS
<1>1. TypeOK
  BY <1>0 DEF TypeOK
<1>2. Shape /\ SlotsAreLive /\ NoContext
  BY DEF Shape, Levels, ListsAreExact, SpansAreInBothLists, SlotsAreLive, NoContext,
         Listed, Node
<1>3. Blame /\ LiveIsComplete
  BY DEF Blame, FaultsAreEarned, FreedButListed, OnlyMessagesDangle, LeaksAreEarned,
         LiveIsComplete, Listed
<1> QED BY <1>1, <1>2, <1>3 DEF IInv

LEMMA NextIInv == IInv /\ [Next]_vars => IInv'
<1> SUFFICES ASSUME IInv, [Next]_vars PROVE IInv'
  OBVIOUS
<1>1. CASE ctr_create
  BY <1>1, CreateContextStep
<1>2. CASE ctr_destroy
  BY <1>2, DestroyContextStep
<1>3. CASE ctr_resource_span_create
  BY <1>3, CreateResourceSpanStep
<1>4. CASE ResourceSpanCall
  BY <1>4, ResourceSpanStep
<1>5. CASE ScopeSpanCall
  BY <1>5, ScopeSpanStep
<1>6. CASE SpanCall
  BY <1>6, SpanStep
<1>7. CASE EventCall
  BY <1>7, EventStep
<1>8. CASE LinkCall
  BY <1>8, LinkStep
<1>9. ASSUME NEW encoder \in Encoders, Encode(encoder) PROVE IInv'
  BY <1>9, EncodeStep
<1>10. CASE UNCHANGED vars
  <2>1. UNCHANGED <<ctx, tree, heap, met, fault>> /\ ret' = ret
    BY <1>10 DEF vars
  <2>2. ret' \in {"ok", "fail"}
    BY <2>1 DEF IInv, TypeOK
  <2> QED BY <2>1, <2>2, IdleStep
<1> QED BY <1>1, <1>2, <1>3, <1>4, <1>5, <1>6, <1>7, <1>8, <1>9, <1>10 DEF Next

\* The inductive invariant holds in every state.
THEOREM Invariance == Spec => []IInv
BY InitIInv, NextIInv, PTL DEF Spec

\* Type correctness.
THEOREM TypeCorrect == Spec => []TypeOK
<1>1. IInv => TypeOK
  BY DEF IInv
<1> QED BY <1>1, Invariance, PTL

\* A list names no freed structure, and every live structure is in the one list of its live
\* owner, or is a resource span that the context lists, after any sequence of calls.
THEOREM ListsExact == Spec => []ListsAreExact
<1>1. IInv => ListsAreExact
  BY DEF IInv, Shape
<1> QED BY <1>1, Invariance, PTL

\* Every span is in the list of its scope spans and in the list of its context
\* (ctraces.h:62), and in no other, after any sequence of calls.
THEOREM SpansListed == Spec => []SpansAreInBothLists
<1>1. IInv => SpansAreInBothLists
  BY DEF IInv, Shape
<1> QED BY <1>1, Invariance, PTL

\* A client that keeps to the rules stated in TraceTree and stays clear of the
\* named situations meets no undefined behaviour, whatever it calls, whichever
\* of its own or the tree's strings and IDs it gives and whichever allocations
\* fail.
THEOREM NoUnearnedFault == Spec => []FaultsAreEarned
<1>1. IInv => FaultsAreEarned
  BY DEF IInv, Blame
<1> QED BY <1>1, Invariance, PTL

\* Nothing leaks but what a link's setters overwrite.
THEOREM NoUnearnedLeak == Spec => []LeaksAreEarned
<1>1. IInv => LeaksAreEarned
  BY DEF IInv, Blame
<1> QED BY <1>1, Invariance, PTL

\* The one pointer that survives its block is a status message that was cleared.
THEOREM OnlyStatusDangles == Spec => []OnlyMessagesDangle
<1>1. IInv => OnlyMessagesDangle
  BY DEF IInv, Blame
<1> QED BY <1>1, Invariance, PTL

\* No failed allocation leaves a span or a resource span half made.
THEOREM NothingHalfMade == Spec => []LiveIsComplete
<1>1. IInv => LiveIsComplete
  BY DEF IInv
<1> QED BY <1>1, Invariance, PTL

\* ctr_destroy leaves no structure and no block behind.
THEOREM ContextIsAll == Spec => []NothingOutlivesContext
<1>1. IInv => NothingOutlivesContext
  <2> SUFFICES ASSUME IInv, ~ctx
               PROVE  live = {} /\ owned = {} /\ dangling = {} /\ span_list = {}
    BY DEF NothingOutlivesContext
  <2>1. live = {}
    BY DEF IInv, NoContext
  <2>2. owned \cup dangling = {}
    BY <2>1 DEF IInv, SlotsAreLive
  <2>3. span_list = {}
    BY <2>1 DEF IInv, Shape, SpansAreInBothLists
  <2> QED BY <2>1, <2>2, <2>3
<1> QED BY <1>1, Invariance, PTL

-----------------------------------------------------------------------------
(***************************************************************************)
(* What a step may do: it implements a step of OwnedForest, a failed call  *)
(* adds nothing, and no setter loses a value silently.  All three follow   *)
(* from the kinds of effect that a call can have on the tree.              *)
(***************************************************************************)
all == UNION {Subtree(r) : r \in Listed}

\* The values that setters may lose without a word.
Spared == (Span \X {"message", "schema_url"}) \cup (SSpan \X {"instrumentation_scope"})

\* No structure comes or goes, and no list changes.
Quiet ==
    /\ UNCHANGED <<live, kids, span_list, resource_spans>>
    /\ "resource_failed" \in met' => "resource_failed" \in met
    /\ \A x \in owned \ owned' : ret' = "fail" \/ x \in Spared

\* n joins the tree below p.
Grows(n, p) ==
    /\ n \in Node \ (live \cup RSpan) /\ p \in live /\ Joins(n, p)
    /\ \E slots : Attach(n, p, slots)
    /\ ret' = "ok"
    /\ "resource_failed" \in met' => "resource_failed" \in met

\* A resource span is linked to the context, with its resource or without.
Linked(r, ok) ==
    /\ r \in RSpan \ (live \cup Listed) /\ ok \in BOOLEAN /\ ~StaleTail
    /\ LinkRSpan(r, ok)

\* n goes, with all below it.
Goes(n) ==
    /\ n \in live /\ Release(Subtree(n)) /\ ret' = "ok"
    /\ UNCHANGED resource_spans
    /\ "resource_failed" \in met' => "resource_failed" \in met

\* The context goes, with all it lists.
AllGoes == Listed \subseteq live /\ Release(all) /\ ret' = "ok" /\ UNCHANGED met

Effect ==
    \/ Quiet
    \/ \E n, p : Grows(n, p)
    \/ \E r, ok : Linked(r, ok)
    \/ \E n : Goes(n)
    \/ AllGoes

-----------------------------------------------------------------------------
(* Every call has one of these effects.                                    *)

\* A call that refuses its arguments, or that changes nothing.
LEMMA RefuseIsQuiet ==
    ASSUME UNCHANGED <<tree, heap, met>>
    PROVE  Quiet
BY DEF Quiet, tree, heap

\* Undefined behaviour leaves the tree alone.
LEMMA MisuseIsQuiet ==
    ASSUME NEW kind, NEW situation, Misuse(kind, situation),
           "resource_failed" \notin situation
    PROVE  Quiet
BY DEF Quiet, Misuse, tree, heap

\* A setter that answers -1 when it loses the old value, or of a field that is spared.
LEMMA ReplaceIsQuiet ==
    ASSUME NEW x, NEW from, NEW onFailure, Replace(x, from, onFailure),
           onFailure = "fail" \/ x \in Spared
    PROVE  Quiet
<1>1. CASE x \in dangling \/ from = x
  <2>1. Misuse("double_free", {}) \/ Misuse("use_after_free", {"own_value"})
    BY <1>1 DEF Replace
  <2> QED BY <2>1, MisuseIsQuiet
<1>2. CASE x \notin dangling /\ from # x
  <2>1. PICK ok \in Alloc : /\ owned' = IF ok THEN owned \cup {x} ELSE owned \ {x}
                            /\ Return(IF ok THEN "ok" ELSE onFailure)
    BY <1>2 DEF Replace
  <2>2. UNCHANGED <<tree, dangling, leaked, met>>
    BY <1>2, <2>1 DEF Replace, Return
  <2>3. ~(owned \subseteq owned') => /\ owned' = owned \ {x}
                                     /\ ret' = onFailure
    BY <2>1 DEF Return
  <2> QED
    BY <2>2, <2>3 DEF Quiet, tree
<1> QED
  BY <1>1, <1>2

\* A setter that takes a block of its caller's.
LEMMA TakeIsQuiet ==
    ASSUME NEW x, Take(x)
    PROVE  Quiet
<1>1. CASE x \in dangling
  BY <1>1, MisuseIsQuiet DEF Take
<1>2. CASE x \notin dangling
  BY <1>2 DEF Take, Return, Quiet, tree
<1> QED
  BY <1>1, <1>2

\* A destructor of a structure in the tree.
LEMMA DestroyGoes ==
    ASSUME IInv, NEW n \in live, NEW situation, Destroy(Subtree(n), situation),
           "resource_failed" \notin situation
    PROVE  Effect
<1>1. CASE DestroyFaults(Subtree(n)) = {}
  <2>1. Goes(n)
    BY <1>1 DEF Destroy, Goes
  <2> QED
    BY <2>1 DEF Effect
<1>2. CASE DestroyFaults(Subtree(n)) # {}
  BY <1>2, MisuseIsQuiet DEF Destroy, Effect
<1> QED
  BY <1>1, <1>2

LEMMA CreateContextIsQuiet ==
    ASSUME IInv, ctr_create
    PROVE  Quiet
<1>1. resource_spans = <<>> /\ span_list = {}
  BY DEF IInv, NoContext, Shape, SpansAreInBothLists, ctr_create
<1> QED
  BY <1>1 DEF ctr_create, Quiet, heap

LEMMA DestroyContextHasEffect ==
    ASSUME IInv, ctr_destroy
    PROVE  Effect
<1>1. CASE DestroyFaults(all) = {}
  <2>1. Release(all) /\ ret' = "ok" /\ UNCHANGED met
    BY <1>1 DEF ctr_destroy, all
  <2>2. Touched(all) \subseteq live
    BY <1>1 DEF DestroyFaults
  <2>3. all \subseteq live
    BY <2>2 DEF Touched
  <2>4. Listed \subseteq all
    BY DEF all, Subtree
  <2> QED
    BY <2>1, <2>3, <2>4 DEF AllGoes, Effect
<1>2. CASE DestroyFaults(all) # {}
  <2>1. PICK kind \in DestroyFaults(all) : Misuse(kind, {})
    BY <1>2 DEF ctr_destroy, all
  <2> QED
    BY <2>1, MisuseIsQuiet DEF Effect
<1> QED
  BY <1>1, <1>2

LEMMA CreateResourceSpanHasEffect ==
    ASSUME IInv, ctr_resource_span_create
    PROVE  Effect
<1>1. CASE Refuse
  BY <1>1, RefuseIsQuiet DEF Refuse, Return, Effect
<1>2. CASE ~Refuse
  <2>1. PICK r \in RSpan \ (live \cup Listed) :
              IF StaleTail THEN Misuse("use_after_free", {})
                           ELSE \E ok \in Alloc : LinkRSpan(r, ok)
    BY <1>2 DEF ctr_resource_span_create
  <2>2. CASE StaleTail
    BY <2>1, <2>2, MisuseIsQuiet DEF Effect
  <2>3. CASE ~StaleTail
    <3>1. PICK ok \in Alloc : LinkRSpan(r, ok)
      BY <2>1, <2>3
    <3>2. Linked(r, ok)
      BY <2>1, <2>3, <3>1, MayFailIsBoolean DEF Linked, Alloc
    <3> QED
      BY <3>2 DEF Effect
  <2> QED
    BY <2>2, <2>3
<1> QED
  BY <1>1, <1>2

LEMMA ResourceSpanCallHasEffect ==
    ASSUME IInv, ResourceSpanCall
    PROVE  Effect
<1>1. PICK r \in live \cap RSpan :
        \/ \E url \in {Arg} \cup Strings : ctr_resource_span_set_schema_url(r, url)
        \/ \E attr \in {NULL, Arg} : ctr_resource_set_attributes(r, attr)
        \/ ctr_resource_span_destroy(r)
        \/ ctr_scope_span_create(r)
  BY DEF ResourceSpanCall
<1>2. CASE Refuse
  BY <1>2, RefuseIsQuiet DEF Refuse, Return, Effect
<1>3. ASSUME NEW url, ctr_resource_span_set_schema_url(r, url) PROVE Effect
  BY <1>3, ReplaceIsQuiet DEF ctr_resource_span_set_schema_url, Effect
<1>4. CASE \E attr \in {NULL, Arg} : ctr_resource_set_attributes(r, attr)
  BY <1>2, <1>4, TakeIsQuiet DEF ctr_resource_set_attributes, Effect
<1>5. CASE ctr_resource_span_destroy(r)
  BY <1>5, DestroyGoes DEF ctr_resource_span_destroy
<1>6. CASE ctr_scope_span_create(r) /\ ~Refuse
  <2>1. PICK s \in SSpan \ live :
          Attach(s, r, {}) /\ Return("ok") /\ UNCHANGED <<span_list, children>>
    BY <1>6, NeighboursAreLive DEF ctr_scope_span_create, Node
  <2>2. Grows(s, r)
    BY <2>1, PoolsAreDisjoint DEF Grows, Joins, Return, Node
  <2> QED
    BY <2>2 DEF Effect
<1> QED
  BY <1>1, <1>2, <1>3, <1>4, <1>5, <1>6

LEMMA ScopeSpanCallHasEffect ==
    ASSUME IInv, ScopeSpanCall
    PROVE  Effect
<1>1. PICK s \in live \cap SSpan :
        \/ \E url \in {Arg} \cup Strings : ctr_scope_span_set_schema_url(s, url)
        \/ \E scope \in {NULL, Arg} : ctr_scope_span_set_instrumentation_scope(s, scope)
        \/ ctr_scope_span_destroy(s)
        \/ \E up \in {NULL} \cup (live \cap Span) : ctr_span_create(s, up)
  BY DEF ScopeSpanCall
<1>2. CASE Refuse
  BY <1>2, RefuseIsQuiet DEF Refuse, Return, Effect
<1>3. ASSUME NEW url, ctr_scope_span_set_schema_url(s, url) PROVE Effect
  BY <1>3, ReplaceIsQuiet DEF ctr_scope_span_set_schema_url, Effect
<1>4. CASE \E scope \in {NULL, Arg} : ctr_scope_span_set_instrumentation_scope(s, scope)
  <2> DEFINE x == <<s, "instrumentation_scope">>
  <2>1. x \in Spared
    BY DEF Spared
  <2>2. \/ Misuse("double_free", {})
        \/ /\ owned' = owned \ {x} \/ owned' = owned \cup {x}
           /\ Return("ok") /\ UNCHANGED <<tree, dangling, leaked>>
    BY <1>4 DEF ctr_scope_span_set_instrumentation_scope
  <2> HIDE DEF x
  <2>3. CASE Misuse("double_free", {})
    BY <2>3, MisuseIsQuiet DEF Effect
  <2>4. CASE ~Misuse("double_free", {})
    BY <2>1, <2>2, <2>4 DEF Effect, Quiet, Return, tree
  <2> QED
    BY <2>3, <2>4
<1>5. CASE ctr_scope_span_destroy(s)
  BY <1>5, DestroyGoes DEF ctr_scope_span_destroy
<1>6. CASE (\E up \in {NULL} \cup (live \cap Span) : ctr_span_create(s, up)) /\ ~Refuse
  <2>1. PICK p \in Span \ live :
          /\ \E slots : Attach(p, s, slots)
          /\ span_list' = span_list \cup {p}
          /\ Return("ok")
    BY <1>6, NeighboursAreLive DEF ctr_span_create, Node
  <2>2. Grows(p, s)
    BY <2>1, PoolsAreDisjoint DEF Grows, Joins, Return, Node
  <2> QED
    BY <2>2 DEF Effect
<1> QED
  BY <1>1, <1>2, <1>3, <1>4, <1>5, <1>6

LEMMA SetIdIsQuiet ==
    ASSUME NEW p, NEW field, NEW from, SetId(p, field, from)
    PROVE  Quiet
<1>1. CASE Refuse
  BY <1>1, RefuseIsQuiet DEF Refuse, Return
<1>2. CASE Replace(<<p, field>>, from, "fail")
  BY <1>2, ReplaceIsQuiet
<1> QED
  BY <1>1, <1>2 DEF SetId

LEMMA SetStatusIsQuiet ==
    ASSUME NEW p \in Span, NEW message, ctr_span_set_status(p, message)
    PROVE  Quiet
<1> DEFINE x == <<p, "message">>
<1>1. x \in Spared
  BY DEF Spared
<1>2. \/ Replace(x, message, "fail")
      \/ Misuse("double_free", {})
      \/ /\ owned' = owned \ {x}
         /\ met' = met \cup (IF x \in owned THEN {"status_cleared"} ELSE {})
         /\ UNCHANGED tree
  BY DEF ctr_span_set_status
<1> HIDE DEF x
<1>3. CASE Replace(x, message, "fail")
  BY <1>3, ReplaceIsQuiet
<1>4. CASE Misuse("double_free", {})
  BY <1>4, MisuseIsQuiet
<1>5. CASE /\ owned' = owned \ {x}
           /\ met' = met \cup (IF x \in owned THEN {"status_cleared"} ELSE {})
           /\ UNCHANGED tree
  BY <1>1, <1>5 DEF Quiet, tree
<1> QED
  BY <1>2, <1>3, <1>4, <1>5

LEMMA AddEventHasEffect ==
    ASSUME IInv, NEW p \in live \cap Span, NEW name, ctr_span_event_add(p, name)
    PROVE  Effect
<1>1. CASE Refuse
  BY <1>1, RefuseIsQuiet DEF Refuse, Return, Effect
<1>2. CASE ~Refuse
  <2>1. PICK e \in Event \ live, ok \in Alloc :
          /\ \E slots : Attach(e, p, slots)
          /\ met' = met \cup (IF ok THEN {} ELSE {"event_attr_missing"})
          /\ ret' = "ok"
          /\ UNCHANGED span_list
    BY <1>2, NeighboursAreLive DEF ctr_span_event_add, Node
  <2>2. Grows(e, p)
    BY <2>1, PoolsAreDisjoint DEF Grows, Joins, Node
  <2> QED
    BY <2>2 DEF Effect
<1> QED
  BY <1>1, <1>2

LEMMA CreateLinkHasEffect ==
    ASSUME IInv, NEW p \in live \cap Span, NEW given, ctr_link_create(p, given)
    PROVE  Effect
<1>1. CASE Refuse
  BY <1>1, RefuseIsQuiet DEF Refuse, Return, Effect
<1>2. CASE Misuse("null_deref", {"link_without_trace_id"})
  BY <1>2, MisuseIsQuiet DEF Effect
<1>3. CASE ~Refuse /\ ~Misuse("null_deref", {"link_without_trace_id"})
  <2>1. PICK l \in Link \ live :
          (\E slots : Attach(l, p, slots)) /\ Return("ok") /\ UNCHANGED span_list
    BY <1>3, NeighboursAreLive DEF ctr_link_create, Node
  <2>2. Grows(l, p)
    BY <2>1, PoolsAreDisjoint DEF Grows, Joins, Return, Node
  <2> QED
    BY <2>2 DEF Effect
<1> QED
  BY <1>1, <1>2, <1>3

LEMMA SpanCallHasEffect ==
    ASSUME IInv, SpanCall
    PROVE  Effect
<1>1. PICK p \in live \cap Span :
        \/ \E from \in {NULL, Arg} \cup SpanIds :
              \/ ctr_span_set_trace_id(p, from)
              \/ ctr_span_set_span_id(p, from)
              \/ ctr_span_set_parent_span_id(p, from)
        \/ \E attr \in {NULL, Arg} : ctr_span_set_attributes(p, attr)
        \/ \E state \in {Arg} \cup Strings : ctr_span_set_trace_state(p, state)
        \/ \E url \in {Arg} \cup Strings : ctr_span_set_schema_url(p, url)
        \/ \E message \in {NULL, Arg} \cup Strings : ctr_span_set_status(p, message)
        \/ ctr_span_destroy(p)
        \/ \E name \in {NULL, Arg} : ctr_span_event_add(p, name)
        \/ \E given \in SUBSET {"trace_id", "span_id"} : ctr_link_create(p, given)
  BY DEF SpanCall
<1>2. ASSUME NEW from, \/ ctr_span_set_trace_id(p, from)
                       \/ ctr_span_set_span_id(p, from)
                       \/ ctr_span_set_parent_span_id(p, from)
      PROVE  Effect
  BY <1>2, SetIdIsQuiet DEF ctr_span_set_trace_id, ctr_span_set_span_id,
                            ctr_span_set_parent_span_id, Effect
<1>3. ASSUME NEW attr, ctr_span_set_attributes(p, attr) PROVE Effect
  <2>1. CASE Refuse
    BY <2>1, RefuseIsQuiet DEF Refuse, Return, Effect
  <2>2. CASE Take(<<p, "attr">>)
    BY <2>2, TakeIsQuiet DEF Effect
  <2> QED
    BY <1>3, <2>1, <2>2 DEF ctr_span_set_attributes
<1>4. ASSUME NEW state, ctr_span_set_trace_state(p, state) PROVE Effect
  BY <1>4, ReplaceIsQuiet DEF ctr_span_set_trace_state, Effect
<1>5. ASSUME NEW url, ctr_span_set_schema_url(p, url) PROVE Effect
  BY <1>5, ReplaceIsQuiet DEF ctr_span_set_schema_url, Effect, Spared
<1>6. ASSUME NEW message, ctr_span_set_status(p, message) PROVE Effect
  BY <1>6, SetStatusIsQuiet DEF Effect
<1>7. CASE ctr_span_destroy(p)
  BY <1>7, DestroyGoes DEF ctr_span_destroy
<1>8. ASSUME NEW name, ctr_span_event_add(p, name) PROVE Effect
  BY <1>8, AddEventHasEffect
<1>9. ASSUME NEW given, ctr_link_create(p, given) PROVE Effect
  BY <1>9, CreateLinkHasEffect
<1> QED
  BY <1>1, <1>2, <1>3, <1>4, <1>5, <1>6, <1>7, <1>8, <1>9

LEMMA EventCallHasEffect ==
    ASSUME IInv, EventCall
    PROVE  Effect
<1>1. PICK e \in live \cap Event :
        \/ ctr_span_event_set_attribute(e)
        \/ \E attr \in {NULL, Arg} : ctr_span_event_set_attributes(e, attr)
        \/ ctr_span_event_delete(e)
  BY DEF EventCall
<1>2. CASE Refuse
  BY <1>2, RefuseIsQuiet DEF Refuse, Return, Effect
<1>3. CASE ctr_span_event_set_attribute(e)
  <2>1. CASE Return("ok") /\ UNCHANGED <<tree, heap>>
    BY <2>1, RefuseIsQuiet DEF Return, Effect
  <2>2. CASE Misuse("null_deref", {})
    BY <2>2, MisuseIsQuiet DEF Effect
  <2> QED
    BY <1>3, <2>1, <2>2 DEF ctr_span_event_set_attribute
<1>4. CASE \E attr \in {NULL, Arg} : ctr_span_event_set_attributes(e, attr)
  BY <1>2, <1>4, TakeIsQuiet DEF ctr_span_event_set_attributes, Effect
<1>5. CASE ctr_span_event_delete(e)
  BY <1>5, LeafSubtree, DestroyGoes DEF ctr_span_event_delete
<1> QED
  BY <1>1, <1>3, <1>4, <1>5

LEMMA OverwriteIsQuiet ==
    ASSUME NEW x, NEW outcomes \in SUBSET BOOLEAN, Overwrite(x, outcomes)
    PROVE  Quiet
<1>1. owned \ owned' # {} => ret' = "fail"
  BY DEF Overwrite
<1> QED
  BY <1>1 DEF Overwrite, Quiet, tree

LEMMA LinkCallHasEffect ==
    ASSUME IInv, LinkCall
    PROVE  Effect
<1>1. PICK l \in live \cap Link :
        \/ \E trace_state \in {NULL, Arg} \cup Strings : ctr_link_set_trace_state(l, trace_state)
        \/ \E attr \in {NULL, Arg} : ctr_link_set_attributes(l, attr)
        \/ ctr_link_destroy(l)
  BY DEF LinkCall
<1>2. CASE Refuse
  BY <1>2, RefuseIsQuiet DEF Refuse, Return, Effect
<1>3. CASE Overwrite(<<l, "trace_state">>, Alloc)
  BY <1>3, OverwriteIsQuiet, MayFailIsBoolean DEF Alloc, Effect
<1>4. CASE Overwrite(<<l, "attr">>, {TRUE})
  BY <1>4, OverwriteIsQuiet DEF Effect
<1>5. CASE ctr_link_destroy(l)
  BY <1>5, LeafSubtree, DestroyGoes DEF ctr_link_destroy
<1> QED
  BY <1>1, <1>2, <1>3, <1>4, <1>5 DEF ctr_link_set_trace_state, ctr_link_set_attributes

LEMMA EncodeIsQuiet ==
    ASSUME NEW encoder, Encode(encoder)
    PROVE  Quiet
<1>1. CASE UNCHANGED <<tree, heap, met>>
  BY <1>1, RefuseIsQuiet
<1>2. CASE \E kind : Misuse(kind, {})
  BY <1>2, MisuseIsQuiet
<1>3. CASE Misuse("null_deref", {"otlp_no_memory"})
  BY <1>3, MisuseIsQuiet
<1> QED
  BY <1>1, <1>2, <1>3 DEF Encode, Refuse, Return

\* Each step has one of the five effects.
LEMMA StepHasEffect == IInv /\ [Next]_vars => Effect
<1> SUFFICES ASSUME IInv, [Next]_vars PROVE Effect
  OBVIOUS
<1>1. CASE ctr_create
  BY <1>1, CreateContextIsQuiet DEF Effect
<1>2. CASE ctr_destroy
  BY <1>2, DestroyContextHasEffect
<1>3. CASE ctr_resource_span_create
  BY <1>3, CreateResourceSpanHasEffect
<1>4. CASE ResourceSpanCall
  BY <1>4, ResourceSpanCallHasEffect
<1>5. CASE ScopeSpanCall
  BY <1>5, ScopeSpanCallHasEffect
<1>6. CASE SpanCall
  BY <1>6, SpanCallHasEffect
<1>7. CASE EventCall
  BY <1>7, EventCallHasEffect
<1>8. CASE LinkCall
  BY <1>8, LinkCallHasEffect
<1>9. ASSUME NEW encoder \in Encoders, Encode(encoder) PROVE Effect
  BY <1>9, EncodeIsQuiet DEF Effect
<1>10. CASE UNCHANGED vars
  BY <1>10, RefuseIsQuiet DEF vars, Effect
<1> QED
  BY <1>1, <1>2, <1>3, <1>4, <1>5, <1>6, <1>7, <1>8, <1>9, <1>10 DEF Next

-----------------------------------------------------------------------------
(* Once a resource span has failed, the tail of the list is stale, which    *)
(* stops every further creation: the situation is gone through only once.   *)

StaleStays == "resource_failed" \in met => StaleTail

LEMMA InitStaleStays == Init => StaleStays
BY DEF Init, StaleStays

LEMMA NextStaleStays ==
    ASSUME IInv, StaleStays, Effect
    PROVE  StaleStays'
<1> SUFFICES ASSUME "resource_failed" \in met' PROVE StaleTail'
  BY DEF StaleStays
<1> DEFINE last == resource_spans[Len(resource_spans)]
<1>1. resource_spans \in Seq(RSpan) /\ (resource_spans # <<>> => last \in Listed /\ last \in RSpan)
  BY DEF IInv, TypeOK, Listed
<1>2. CASE Quiet
  BY <1>2 DEF Quiet, StaleStays, StaleTail
<1>3. ASSUME NEW n, NEW p, Grows(n, p) PROVE StaleTail'
  <2>1. StaleTail
    BY <1>3 DEF Grows, StaleStays
  <2>2. resource_spans' = resource_spans /\ live' = live \cup {n} /\ n \notin RSpan
    BY <1>3 DEF Grows, Attach
  <2> QED
    BY <1>1, <2>1, <2>2 DEF StaleTail
<1>4. ASSUME NEW r, NEW ok, Linked(r, ok) PROVE StaleTail'
  <2>1. "resource_failed" \notin met
    BY <1>4 DEF Linked, StaleStays
  <2>2. ok = FALSE
    BY <1>4, <2>1 DEF Linked, LinkRSpan
  <2>3. resource_spans' = Append(resource_spans, r) /\ live' = live /\ r \in RSpan \ live
    BY <1>4, <2>2 DEF Linked, LinkRSpan
  <2>4. Len(resource_spans') = Len(resource_spans) + 1 /\ resource_spans' # <<>>
        /\ resource_spans'[Len(resource_spans) + 1] = r
    BY <1>1, <2>3
  <2> QED
    BY <2>3, <2>4 DEF StaleTail
<1>5. ASSUME NEW n, Goes(n) PROVE StaleTail'
  BY <1>5 DEF Goes, Release, StaleStays, StaleTail
<1>6. CASE AllGoes
  <2>1. StaleTail
    BY <1>6 DEF AllGoes, StaleStays
  <2> QED
    BY <1>1, <1>6, <2>1 DEF AllGoes, StaleTail
<1> QED
  BY <1>2, <1>3, <1>4, <1>5, <1>6 DEF Effect

RInv == IInv /\ StaleStays

LEMMA AlwaysRInv == Spec => []RInv
<1>1. Init => RInv
  BY InitIInv, InitStaleStays DEF RInv
<1>2. RInv /\ [Next]_vars => RInv'
  BY NextIInv, StepHasEffect, NextStaleStays DEF RInv
<1> QED
  BY <1>1, <1>2, PTL DEF Spec

-----------------------------------------------------------------------------
(* The owner of a structure, from the lists.                                *)

OwnerIn(n, lists) == IF n \in RSpan THEN Root ELSE CHOOSE p \in Node : n \in lists[p]

Disjoint(lists) == \A p, q \in Node : p # q => lists[p] \cap lists[q] = {}

LEMMA ParentIsOwner ==
    /\ parent = [n \in live |-> OwnerIn(n, kids)]
    /\ parent' = [n \in live' |-> OwnerIn(n, kids')]
BY DEF parent, OwnerIn

\* Lists that share no node give each node they hold one owner.
LEMMA OwnerIs ==
    ASSUME NEW lists, Disjoint(lists), NEW p \in Node, NEW n \in lists[p], n \notin RSpan
    PROVE  OwnerIn(n, lists) = p
<1> DEFINE q == CHOOSE q \in Node : n \in lists[q]
<1>1. q \in Node /\ n \in lists[q]
  OBVIOUS
<1>2. q = p
  BY <1>1 DEF Disjoint
<1> QED
  BY <1>2 DEF OwnerIn

\* What the invariant says of lists and owners.
LEMMA ListsGiveOwners ==
    ASSUME IInv
    PROVE  /\ Disjoint(kids) /\ kids \in [Node -> SUBSET Node] /\ live \subseteq Node
           /\ \A n \in live \ RSpan : \E p \in live : n \in kids[p]
           /\ \A p \in Node : /\ kids[p] \subseteq live \ RSpan
                              /\ p \notin live => kids[p] = {}
<1>1. \A p \in Node : kids[p] \cap RSpan = {}
  BY PoolsAreDisjoint DEF IInv, Shape, Levels, Node
<1> QED
  BY <1>1 DEF IInv, TypeOK, Shape, ListsAreExact, Disjoint

\* A structure that stays in its list keeps its owner.
LEMMA OwnerStays ==
    ASSUME IInv, NEW lists, Disjoint(lists), NEW m \in live,
           \A p \in live : m \in kids[p] => m \in lists[p]
    PROVE  OwnerIn(m, lists) = OwnerIn(m, kids)
<1>1. CASE m \in RSpan
  BY <1>1 DEF OwnerIn
<1>2. CASE m \notin RSpan
  <2>1. PICK p \in live : m \in kids[p]
    BY <1>2, ListsGiveOwners
  <2>2. OwnerIn(m, kids) = p
    BY <1>2, <2>1, ListsGiveOwners, OwnerIs
  <2>3. OwnerIn(m, lists) = p
    BY <1>2, <2>1, ListsGiveOwners, OwnerIs
  <2> QED
    BY <2>2, <2>3
<1> QED
  BY <1>1, <1>2

-----------------------------------------------------------------------------
(* Each effect is a step of the forest, or none.                            *)

LEMMA GrowsAdds ==
    ASSUME IInv, Disjoint(kids'), NEW n, NEW p, Grows(n, p)
    PROVE  Forest!Add(n, p)
<1>1. /\ n \in Node \ live /\ n \notin RSpan /\ p \in live
      /\ live' = live \cup {n} /\ kids' = [kids EXCEPT ![p] = @ \cup {n}, ![n] = {}]
  BY DEF Grows, Attach
<1>2. \A m \in live : OwnerIn(m, kids') = OwnerIn(m, kids)
  <2> SUFFICES ASSUME NEW m \in live PROVE OwnerIn(m, kids') = OwnerIn(m, kids)
    OBVIOUS
  <2>1. \A q \in live : m \in kids[q] => m \in kids'[q]
    BY <1>1, ListsGiveOwners
  <2> QED
    BY <2>1, OwnerStays
<1>3. OwnerIn(n, kids') = p
  <2>1. n \in kids'[p] /\ p \in Node
    BY <1>1, ListsGiveOwners
  <2> QED
    BY <1>1, <2>1, OwnerIs
<1>4. parent' = [m \in live \cup {n} |-> IF m = n THEN p ELSE parent[m]]
  BY <1>1, <1>2, <1>3, ParentIsOwner
<1> QED
  BY <1>1, <1>4, ParentIsOwner DEF Forest!Add, Forest!Extant

LEMMA LinkedAdds ==
    ASSUME IInv, NEW r, NEW ok, Linked(r, ok)
    PROVE  Forest!Add(r, Root) \/ UNCHANGED parent
<1>1. /\ r \in RSpan \ live /\ kids' = kids
      /\ live' = (IF ok THEN live \cup {r} ELSE live)
  BY ListsGiveOwners DEF Linked, LinkRSpan, Node
<1>2. CASE ok
  <2>1. parent' = [m \in live \cup {r} |-> IF m = r THEN Root ELSE parent[m]]
    BY <1>1, <1>2, ParentIsOwner DEF OwnerIn
  <2> QED
    BY <1>1, <2>1, ParentIsOwner DEF Forest!Add, Forest!Extant
<1>3. CASE ~ok
  BY <1>1, <1>3, ParentIsOwner
<1> QED
  BY <1>2, <1>3

LEMMA GoesRemoves ==
    ASSUME IInv, Disjoint(kids'), NEW n, Goes(n)
    PROVE  Forest!Remove(n)
<1> DEFINE D == Subtree(n)
<1>1. /\ n \in live /\ live' = live \ D
      /\ kids' = [m \in Node |-> IF m \in D THEN {} ELSE kids[m] \ (D \cap Unlinks)]
  BY DEF Goes, Release
<1>2. Closed(D) /\ n \in D /\ D \subseteq live
  BY <1>1, SubtreeClosed, ListsGiveOwners DEF IInv
<1>3. \A m \in D : m = n \/ \E q \in D : m \in kids[q]
  BY DEF Subtree
<1> HIDE DEF D
<1>4. \A q \in Node : \A m \in kids[q] : parent[m] = q
  BY ListsGiveOwners, OwnerIs, ParentIsOwner
<1>5. \A m \in D : m = n \/ parent[m] \in D
  BY <1>2, <1>3, <1>4, ListsGiveOwners
<1>6. \A m \in live : parent[m] \in D => m \in D
  <2> SUFFICES ASSUME NEW m \in live, parent[m] \in D PROVE m \in D
    OBVIOUS
  <2>1. m \notin RSpan
    <3>1. Root \notin D
      BY <1>2, ListsGiveOwners, PoolsAreDisjoint DEF Root
    <3> QED
      BY <3>1, ParentIsOwner DEF OwnerIn
  <2>2. PICK q \in live : m \in kids[q]
    BY <2>1, ListsGiveOwners
  <2>3. parent[m] = q
    BY <1>4, <2>2, ListsGiveOwners
  <2> QED
    BY <1>2, <2>2, <2>3 DEF Closed
<1>7. Forest!IsSubtree(D, n)
  BY <1>1, <1>2, <1>5, <1>6, ParentIsOwner DEF Forest!IsSubtree, Forest!Extant
<1>8. \A m \in live \ D : OwnerIn(m, kids') = OwnerIn(m, kids)
  <2> SUFFICES ASSUME NEW m \in live \ D PROVE OwnerIn(m, kids') = OwnerIn(m, kids)
    OBVIOUS
  <2>1. \A q \in live : m \in kids[q] => m \in kids'[q]
    BY <1>1, <1>2, ListsGiveOwners DEF Closed
  <2> QED
    BY <2>1, OwnerStays
<1>9. parent' = [m \in live \ D |-> parent[m]]
  BY <1>1, <1>8, ParentIsOwner
<1> QED
  BY <1>2, <1>7, <1>9, ParentIsOwner DEF Forest!Remove, Forest!Extant

LEMMA AllGoesClears ==
    ASSUME IInv, AllGoes
    PROVE  Forest!Clear \/ UNCHANGED parent
<1>1. live' = {}
  BY LiveIsListed DEF IInv, AllGoes, Release, all
<1>2. parent' = [n \in {} |-> Root]
  BY <1>1, ParentIsOwner
<1>3. CASE live = {}
  BY <1>2, <1>3, ParentIsOwner
<1>4. CASE live # {}
  BY <1>2, <1>4, ParentIsOwner DEF Forest!Clear, Forest!Extant
<1> QED
  BY <1>3, <1>4

LEMMA StepOfForest ==
    ASSUME IInv, IInv', Effect
    PROVE  [Forest!Next]_parent
<1>1. Disjoint(kids')
  BY DEF IInv, Shape, ListsAreExact, Disjoint
<1>2. CASE Quiet
  BY <1>2, ParentIsOwner DEF Quiet
<1>3. ASSUME NEW n, NEW p, Grows(n, p) PROVE Forest!Next
  <2>1. n \in Node /\ p \in Node
    BY <1>3, ListsGiveOwners DEF Grows
  <2> QED
    BY <1>1, <1>3, <2>1, GrowsAdds DEF Forest!Next
<1>4. ASSUME NEW r, NEW ok, Linked(r, ok) PROVE [Forest!Next]_parent
  <2>1. r \in Node
    BY <1>4 DEF Linked, Node
  <2> QED
    BY <1>4, <2>1, LinkedAdds DEF Forest!Next
<1>5. ASSUME NEW n, Goes(n) PROVE Forest!Next
  <2>1. n \in Forest!Extant
    BY <1>5, ParentIsOwner DEF Goes, Forest!Extant
  <2> QED
    BY <1>1, <1>5, <2>1, GoesRemoves DEF Forest!Next
<1>6. CASE AllGoes
  BY <1>6, AllGoesClears DEF Forest!Next
<1> QED
  BY <1>2, <1>3, <1>4, <1>5, <1>6 DEF Effect

-----------------------------------------------------------------------------
(* The theorems.                                                           *)

\* The tree implements the forest: a structure has one owner as long as it
\* lives, and goes with all that it owns, also when calls fail on the way.
THEOREM ForestImplemented == Spec => ImplementsForest
<1>1. Init => Forest!Init
  BY ParentIsOwner DEF Init, Forest!Init
<1>2. IInv /\ IInv' /\ [Next]_vars => [Forest!Next]_parent
  BY StepHasEffect, StepOfForest
<1> QED
  BY <1>1, <1>2, Invariance, PTL DEF Spec, ImplementsForest, Forest!Spec

\* A call that answers NULL or -1 has added, removed and linked nothing, but
\* for the resource span whose resource could not be created.
THEOREM FailureChangesNothing == Spec => FailureAddsNothing
<1> DEFINE A == ret' = "fail" /\ fault' = "none" =>
                  /\ UNCHANGED <<live, kids, span_list>>
                  /\ resource_spans' = resource_spans \/ "resource_failed" \in met' \ met
<1>1. RInv /\ [Next]_vars => [A]_vars
  <2> SUFFICES ASSUME RInv, Effect, ret' = "fail"
               PROVE  /\ UNCHANGED <<live, kids, span_list>>
                      /\ resource_spans' = resource_spans \/ "resource_failed" \in met' \ met
    BY StepHasEffect DEF RInv
  <2>1. CASE Quiet
    BY <2>1 DEF Quiet
  <2>2. ASSUME NEW r, NEW ok, Linked(r, ok)
        PROVE  UNCHANGED <<live, kids, span_list>> /\ "resource_failed" \in met' \ met
    <3>1. ok = FALSE /\ "resource_failed" \notin met
      BY <2>2 DEF Linked, LinkRSpan, RInv, StaleStays
    <3>2. kids' = kids
      BY <2>2, ListsGiveOwners DEF Linked, LinkRSpan, Node, RInv
    <3> QED
      BY <2>2, <3>1, <3>2 DEF Linked, LinkRSpan
  <2> QED
    BY <2>1, <2>2 DEF Effect, Grows, Goes, AllGoes
<1> QED
  BY <1>1, AlwaysRInv, PTL DEF Spec, FailureAddsNothing

\* No setter loses the old value of a live structure without answering -1, but
\* for the three fields that LossIsReported names.
THEOREM LossReported == Spec => LossIsReported
<1> DEFINE A == \A x \in owned \ owned' : \/ x[1] \notin live'
                                          \/ ret' = "fail"
                                          \/ x \in Spared
<1>1. IInv /\ [Next]_vars => [A]_vars
  <2> SUFFICES ASSUME IInv, Effect, NEW x \in owned \ owned'
               PROVE  x[1] \notin live' \/ ret' = "fail" \/ x \in Spared
    BY StepHasEffect
  <2>1. CASE Quiet
    BY <2>1 DEF Quiet
  <2>2. ASSUME NEW n, NEW p, Grows(n, p) PROVE FALSE
    BY <2>2 DEF Grows, Attach
  <2>3. ASSUME NEW r, NEW ok, Linked(r, ok) PROVE FALSE
    BY <2>3 DEF Linked, LinkRSpan
  <2>4. ASSUME NEW D, Release(D) PROVE x[1] \notin live'
    BY <2>4 DEF Release, SlotsOf
  <2> QED
    BY <2>1, <2>2, <2>3, <2>4 DEF Effect, Goes, AllGoes
<1> QED
  BY <1>1, Invariance, PTL DEF Spec, LossIsReported, Spared

=============================================================================
