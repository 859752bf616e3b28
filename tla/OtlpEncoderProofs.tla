------------------------- MODULE OtlpEncoderProofs -------------------------
(***************************************************************************)
(* What OtlpEncoder promises of a call that returns, for every context,    *)
(* of any size, and any allocations that fail.                             *)
(*                                                                         *)
(* The build is a walk over the tree: what is past was done, what the path *)
(* at goes through is open, and nothing was touched of the rest.  As long  *)
(* as all that failed can be spared, everything past is linked to the      *)
(* root.  From the first failure that cannot be, one block bears witness   *)
(* until the crash: it is missing where the packing functions or the       *)
(* destructors look for it, or it is a list without memory whose first     *)
(* element is still to be written.                                         *)
(***************************************************************************)
EXTENDS OtlpEncoder, SequenceTheorems, TLAPS

Blocks == DOMAIN call \ {<<>>}

\* x is p or above it.
Begins(x, p) == Len(x) <= Len(p) /\ \A i \in 1..Len(x) : x[i] = p[i]

\* How many kids of the block n levels down the path a are done.
Mark(n, a, s) == IF n < Len(a) THEN a[n + 1] - 1 ELSE s

\* The walk that stands at a, with s kids done, is through with x.
Past(x, a, s) ==
    \E n \in 0..Len(a) : /\ n < Len(x)
                         /\ \A i \in 1..n : x[i] = a[i]
                         /\ x[n + 1] <= Mark(n, a, s)

Harmful == \E p \in failed : ~Spared(Node(p))
Working == pc \in {"build", "size", "pack", "destroy"}

Typed ==
    /\ call \in Requests
    /\ at \in DOMAIN call
    /\ step \in 0..Node(at).kids
    /\ live \subseteq Blocks
    /\ stored \subseteq Blocks
    /\ failed \subseteq Blocks
    /\ sent \subseteq Blocks

\* The walk is over, and found the request.
WalkIsOver ==
    /\ pc \in {"size", "pack", "destroy"} => at = <<>> /\ step = 1
    /\ pc \in {"pack", "destroy"} => Request \in stored

LiveIsReached == \A p \in live : Past(p, at, step) \/ Begins(p, at)
StoredIsPast == \A p \in stored : Past(p, at, step)
OpenIsLive ==
    \A p \in Blocks : Begins(p, at) =>
        p \in live \/ (p \in failed /\ Node(p).kind \in UncheckedList)
NullIsEarned ==
    pc = "build" /\ ret = "null" => step > 0 /\ (Harmful \/ Node(at).kind \in Owner)

Walk ==
    /\ LiveIsReached
    /\ StoredIsPast
    /\ OpenIsLive
    /\ NullIsEarned

Linked(x) == x \in live /\ (x \in stored \/ Begins(x, at))

LiveIsLinked == \A p \in live : \A x \in Blocks : Begins(x, p) => Linked(x)
PastIsStored ==
    \A x \in Blocks :
        Past(x, at, step) /\ (Front(x) = <<>> \/ Front(x) \in live) =>
            x \in stored \/ Spared(Node(x))
Whole ==
    /\ LiveIsLinked
    /\ stored \subseteq live
    /\ PastIsStored
    /\ pc = "destroy" => sent \in {live, {}}

Missing(w) ==
    /\ w \notin stored
    /\ Past(w, at, step)
    /\ \A x \in Blocks : Begins(x, w) /\ x # w => Linked(x)
    /\ pc \in {"pack", "destroy"} => Node(w).kind = "resource"

Unbacked(w) ==
    /\ Begins(w, at)
    /\ w \notin live
    /\ Node(w).kind \in UncheckedList
    /\ w = at => step = 0 \/ ret = "null"

Broken == \E w \in Blocks : ~Spared(Node(w)) /\ (Missing(w) \/ Unbacked(w))

Ends ==
    /\ pc = "crash" => Harmful
    /\ pc \in {"ok", "null"} => ~Harmful /\ live = {}
    /\ CompleteAnswer

IInv ==
    /\ Typed
    /\ WalkIsOver
    /\ Working => Walk
    /\ Working /\ ~Harmful => Whole
    /\ Working /\ Harmful => Broken
    /\ Ends

-----------------------------------------------------------------------------
(* Paths.                                                                  *)

LEMMA BeginsFacts ==
    ASSUME NEW x \in Seq(Nat), NEW y \in Seq(Nat), NEW p \in Seq(Nat)
    PROVE  /\ Begins(x, x)
           /\ Begins(x, y) /\ Begins(y, p) => Begins(x, p)
           /\ Begins(x, p) /\ Len(x) = Len(p) => x = p
           /\ Begins(x, p) /\ Begins(y, p) /\ Len(x) <= Len(y) => Begins(x, y)
<1>1. Begins(x, x)
  BY DEF Begins
<1>2. Begins(x, y) /\ Begins(y, p) => Begins(x, p)
  BY DEF Begins
<1>3. Begins(x, p) /\ Len(x) = Len(p) => x = p
  BY SeqEqual DEF Begins
<1>4. Begins(x, p) /\ Begins(y, p) /\ Len(x) <= Len(y) => Begins(x, y)
  BY DEF Begins
<1> QED BY <1>1, <1>2, <1>3, <1>4

LEMMA KidFacts ==
    ASSUME NEW p \in Seq(Nat), NEW i \in Nat
    PROVE  /\ Kid(p, i) \in Seq(Nat)
           /\ Kid(p, i) # <<>>
           /\ Len(Kid(p, i)) = Len(p) + 1
           /\ \A j \in 1..Len(p) : Kid(p, i)[j] = p[j]
           /\ Kid(p, i)[Len(p) + 1] = i
           /\ Front(Kid(p, i)) = p
           /\ Last(Kid(p, i)) = i
<1> DEFINE k == Kid(p, i)
<1>1. /\ k \in Seq(Nat) /\ k # <<>> /\ Len(k) = Len(p) + 1
      /\ \A j \in 1..Len(p) : k[j] = p[j]
      /\ k[Len(p) + 1] = i
  BY AppendProperties DEF Kid
<1>2. Last(k) = i
  BY <1>1 DEF Last
<1>3. Front(k) = p
  <2>1. Len(p) \in Nat
    BY LenProperties
  <2>2. /\ SubSeq(k, 1, Len(p)) \in Seq(Nat)
        /\ Len(SubSeq(k, 1, Len(p))) = Len(p)
        /\ \A j \in 1..Len(p) : SubSeq(k, 1, Len(p))[j] = k[j]
    BY <1>1, <2>1, SubSeqProperties
  <2>3. SubSeq(k, 1, Len(p)) = p
    BY <1>1, <2>1, <2>2, SeqEqual
  <2>4. Len(k) - 1 = Len(p)
    BY <1>1, <2>1
  <2> QED BY <2>3, <2>4 DEF Front
<1> QED BY <1>1, <1>2, <1>3

LEMMA SubSeqFacts ==
    ASSUME NEW p \in Seq(Nat), NEW n \in 0..Len(p)
    PROVE  /\ SubSeq(p, 1, n) \in Seq(Nat)
           /\ Len(SubSeq(p, 1, n)) = n
           /\ \A j \in 1..n : SubSeq(p, 1, n)[j] = p[j]
           /\ Begins(SubSeq(p, 1, n), p)
<1>1. Len(p) \in Nat
  BY LenProperties
<1>2. /\ SubSeq(p, 1, n) \in Seq(Nat)
      /\ Len(SubSeq(p, 1, n)) = n
      /\ \A j \in 1..n : SubSeq(p, 1, n)[j] = p[j]
  BY <1>1, SubSeqProperties
<1> QED BY <1>1, <1>2 DEF Begins

LEMMA FrontFacts ==
    ASSUME NEW p \in Seq(Nat), p # <<>>
    PROVE  /\ Front(p) \in Seq(Nat)
           /\ Len(p) >= 1
           /\ Len(Front(p)) = Len(p) - 1
           /\ \A j \in 1..(Len(p) - 1) : Front(p)[j] = p[j]
           /\ Last(p) = p[Len(p)]
           /\ Last(p) \in Nat
           /\ Kid(Front(p), Last(p)) = p
<1>1. Len(p) \in Nat /\ Len(p) >= 1
  BY LenProperties, EmptySeq
<1>2. /\ Front(p) \in Seq(Nat)
      /\ Len(Front(p)) = Len(p) - 1
      /\ \A j \in 1..(Len(p) - 1) : Front(p)[j] = p[j]
  <2>1. Len(p) - 1 \in 0..Len(p)
    BY <1>1
  <2>2. /\ SubSeq(p, 1, Len(p) - 1) \in Seq(Nat)
        /\ Len(SubSeq(p, 1, Len(p) - 1)) = Len(p) - 1
        /\ \A j \in 1..(Len(p) - 1) : SubSeq(p, 1, Len(p) - 1)[j] = p[j]
    BY <2>1, SubSeqFacts
  <2> QED BY <2>2 DEF Front
<1>3. Last(p) = p[Len(p)] /\ Last(p) \in Nat
  BY <1>1, ElementOfSeq DEF Last
<1>4. Kid(Front(p), Last(p)) = p
  <2> DEFINE k == Kid(Front(p), Last(p))
  <2>1. /\ k \in Seq(Nat) /\ Len(k) = Len(p)
        /\ \A j \in 1..(Len(p) - 1) : k[j] = p[j]
        /\ k[Len(p)] = p[Len(p)]
    <3> DEFINE f == Front(p)
    <3>1. f \in Seq(Nat) /\ Last(p) \in Nat /\ Len(f) + 1 = Len(p)
      BY <1>1, <1>2, <1>3
    <3>2. k \in Seq(Nat) /\ Len(k) = Len(f) + 1 /\ k[Len(f) + 1] = Last(p)
          /\ \A j \in 1..Len(f) : k[j] = f[j]
      BY <3>1, KidFacts
    <3> QED BY <3>1, <3>2, <1>1, <1>2, <1>3
  <2>2. \A j \in 1..Len(p) : k[j] = p[j]
    BY <2>1, <1>1
  <2> QED BY <2>1, <2>2, SeqEqual
<1> QED BY <1>1, <1>2, <1>3, <1>4

LEMMA PrefixIsBegins ==
    ASSUME NEW x \in Seq(Nat), NEW p \in Seq(Nat)
    PROVE  IsPrefix(x, p) <=> Begins(x, p)
<1>1. Len(x) \in Nat /\ Len(p) \in Nat
  BY LenProperties
<1>2. SUFFICES ASSUME Len(x) <= Len(p)
               PROVE  SubSeq(x, 1, Len(x)) = SubSeq(p, 1, Len(x))
                        <=> \A i \in 1..Len(x) : x[i] = p[i]
  BY DEF IsPrefix, Begins
<1>3. /\ SubSeq(x, 1, Len(x)) \in Seq(Nat) /\ Len(SubSeq(x, 1, Len(x))) = Len(x)
      /\ \A j \in 1..Len(x) : SubSeq(x, 1, Len(x))[j] = x[j]
  BY <1>1, SubSeqFacts
<1>4. /\ SubSeq(p, 1, Len(x)) \in Seq(Nat) /\ Len(SubSeq(p, 1, Len(x))) = Len(x)
      /\ \A j \in 1..Len(x) : SubSeq(p, 1, Len(x))[j] = p[j]
  BY <1>1, <1>2, SubSeqFacts
<1> QED BY <1>1, <1>3, <1>4, SeqEqual

LEMMA BeginsKid ==
    ASSUME NEW b \in Seq(Nat), NEW j \in Nat, NEW x \in Seq(Nat)
    PROVE  Begins(x, Kid(b, j)) <=> Begins(x, b) \/ x = Kid(b, j)
<1> DEFINE k == Kid(b, j)
<1>1. /\ k \in Seq(Nat) /\ Len(k) = Len(b) + 1
      /\ \A i \in 1..Len(b) : k[i] = b[i]
  BY KidFacts
<1>2. Len(x) \in Nat /\ Len(b) \in Nat
  BY LenProperties
<1>3. ASSUME Begins(x, k) PROVE Begins(x, b) \/ x = k
  <2>1. CASE Len(x) = Len(b) + 1
    BY <1>1, <1>3, <2>1, BeginsFacts
  <2>2. CASE Len(x) # Len(b) + 1
    BY <1>1, <1>2, <1>3, <2>2 DEF Begins
  <2> QED BY <2>1, <2>2
<1>4. ASSUME Begins(x, b) PROVE Begins(x, k)
  BY <1>1, <1>2, <1>4 DEF Begins
<1>5. Begins(k, k)
  BY <1>1, BeginsFacts
<1> QED BY <1>3, <1>4, <1>5

LEMMA PastFacts ==
    ASSUME NEW a \in Seq(Nat), NEW s \in Nat, NEW x \in Seq(Nat), NEW y \in Seq(Nat)
    PROVE  /\ Past(x, a, s) => ~Begins(x, a)
           /\ Past(x, a, s) /\ Begins(x, y) => Past(y, a, s)
<1>1. Len(x) \in Nat /\ Len(a) \in Nat /\ Len(y) \in Nat
  BY LenProperties
<1>2. \A i \in 1..Len(a) : a[i] \in Nat
  BY ElementOfSeq
<1>3. ASSUME Past(x, a, s), Begins(x, a) PROVE FALSE
  <2>1. PICK n \in 0..Len(a) : /\ n < Len(x)
                               /\ \A i \in 1..n : x[i] = a[i]
                               /\ x[n + 1] <= Mark(n, a, s)
    BY <1>3 DEF Past
  <2>2. n < Len(a) /\ x[n + 1] = a[n + 1] /\ a[n + 1] \in Nat
    BY <1>1, <1>2, <1>3, <2>1 DEF Begins
  <2> QED BY <2>1, <2>2 DEF Mark
<1>4. ASSUME Past(x, a, s), Begins(x, y) PROVE Past(y, a, s)
  <2>1. PICK n \in 0..Len(a) : /\ n < Len(x)
                               /\ \A i \in 1..n : x[i] = a[i]
                               /\ x[n + 1] <= Mark(n, a, s)
    BY <1>4 DEF Past
  <2>2. Len(x) <= Len(y) /\ \A i \in 1..Len(x) : y[i] = x[i]
    BY <1>4 DEF Begins
  <2>3. n + 1 \in 1..Len(x) /\ n < Len(y)
    BY <1>1, <2>1, <2>2
  <2>4. y[n + 1] <= Mark(n, a, s)
    BY <2>1, <2>2, <2>3
  <2>5. \A i \in 1..n : y[i] = a[i]
    BY <1>1, <2>1, <2>2, <2>3
  <2> QED BY <2>3, <2>4, <2>5 DEF Past
<1> QED BY <1>3, <1>4

\* The kid that comes next is not past, nor open, nor is anything below it.
LEMMA NextKid ==
    ASSUME NEW a \in Seq(Nat), NEW s \in Nat, NEW x \in Seq(Nat),
           Begins(Kid(a, s + 1), x)
    PROVE  ~Past(x, a, s) /\ ~Begins(x, a)
<1> DEFINE k == Kid(a, s + 1)
<1>1. Len(x) \in Nat /\ Len(a) \in Nat
  BY LenProperties
<1>2. \A i \in 1..Len(a) : a[i] \in Nat
  BY ElementOfSeq
<1>3. /\ k \in Seq(Nat) /\ Len(k) = Len(a) + 1
      /\ \A i \in 1..Len(a) : k[i] = a[i]
      /\ k[Len(a) + 1] = s + 1
  <2>1. s + 1 \in Nat
    OBVIOUS
  <2> QED BY <2>1, KidFacts
<1> HIDE DEF k
<1>4. /\ Len(a) + 1 <= Len(x)
      /\ \A i \in 1..Len(a) : x[i] = a[i]
      /\ x[Len(a) + 1] = s + 1
  <2>1. Begins(k, x)
    BY DEF k
  <2> QED BY <1>1, <1>3, <2>1 DEF Begins
<1>5. ~Begins(x, a)
  BY <1>1, <1>4 DEF Begins
<1>6. ASSUME NEW n \in 0..Len(a), x[n + 1] <= Mark(n, a, s) PROVE FALSE
  <2>1. CASE n < Len(a)
    <3>1. x[n + 1] = a[n + 1] /\ a[n + 1] \in Nat
      BY <1>1, <1>2, <1>4, <2>1
    <3> QED BY <1>6, <2>1, <3>1 DEF Mark
  <2>2. CASE ~(n < Len(a))
    <3>1. n = Len(a)
      BY <1>1, <2>2
    <3> QED BY <1>1, <1>4, <1>6, <3>1 DEF Mark
  <2> QED BY <2>1, <2>2
<1>7. ~Past(x, a, s)
  BY <1>6 DEF Past
<1> QED BY <1>5, <1>7

\* Into the next kid, of which nothing is done: no kid has the number 0.
LEMMA PastEnters ==
    ASSUME NEW a \in Seq(Nat), NEW s \in Nat, NEW x \in Seq(Nat)
    PROVE  /\ Past(x, a, s) => Past(x, Kid(a, s + 1), 0)
           /\ Past(x, Kid(a, s + 1), 0) /\ (\A i \in 1..Len(x) : x[i] > 0) => Past(x, a, s)
<1> DEFINE k == Kid(a, s + 1)
<1>1. Len(x) \in Nat /\ Len(a) \in Nat
  BY LenProperties
<1>2. /\ k \in Seq(Nat) /\ Len(k) = Len(a) + 1
      /\ \A i \in 1..Len(a) : k[i] = a[i]
      /\ k[Len(a) + 1] = s + 1
  <2>1. s + 1 \in Nat
    OBVIOUS
  <2> QED BY <2>1, KidFacts
<1> HIDE DEF k
<1>3. ASSUME NEW n \in 0..Len(a) PROVE Mark(n, k, 0) = Mark(n, a, s)
  <2>1. n < Len(k)
    BY <1>1, <1>2
  <2>2. CASE n < Len(a)
    <3>1. n + 1 \in 1..Len(a)
      BY <1>1, <2>2
    <3> QED BY <1>2, <2>1, <2>2, <3>1 DEF Mark
  <2>3. CASE ~(n < Len(a))
    <3>1. n = Len(a)
      BY <1>1, <2>3
    <3> QED BY <1>1, <1>2, <2>1, <3>1 DEF Mark
  <2> QED BY <2>2, <2>3
<1>4. ASSUME NEW n \in 0..Len(a)
      PROVE  (\A i \in 1..n : x[i] = a[i]) <=> (\A i \in 1..n : x[i] = k[i])
  <2>1. \A i \in 1..n : i \in 1..Len(a)
    BY <1>1
  <2> QED BY <1>2, <2>1
<1>5. ASSUME Past(x, a, s) PROVE Past(x, k, 0)
  <2>1. PICK n \in 0..Len(a) : /\ n < Len(x)
                               /\ \A i \in 1..n : x[i] = a[i]
                               /\ x[n + 1] <= Mark(n, a, s)
    BY <1>5 DEF Past
  <2>2. /\ n \in 0..Len(k)
        /\ \A i \in 1..n : x[i] = k[i]
        /\ x[n + 1] <= Mark(n, k, 0)
    BY <1>1, <1>2, <1>3, <1>4, <2>1
  <2> QED BY <2>1, <2>2 DEF Past
<1>6. ASSUME Past(x, k, 0), \A i \in 1..Len(x) : x[i] > 0 PROVE Past(x, a, s)
  <2>1. PICK n \in 0..Len(k) : /\ n < Len(x)
                               /\ \A i \in 1..n : x[i] = k[i]
                               /\ x[n + 1] <= Mark(n, k, 0)
    BY <1>6 DEF Past
  <2>2. n \in 0..Len(a)
    <3>1. x[n + 1] > 0
      BY <1>1, <1>6, <2>1, <1>2
    <3>2. x[n + 1] \in Nat
      BY <1>1, <2>1, <1>2, ElementOfSeq
    <3>3. n # Len(k)
      BY <3>1, <3>2, <2>1, <1>1, <1>2 DEF Mark
    <3> QED BY <3>3, <1>1, <1>2
  <2>3. (\A i \in 1..n : x[i] = a[i]) /\ x[n + 1] <= Mark(n, a, s)
    BY <1>3, <1>4, <2>1, <2>2
  <2> QED BY <2>1, <2>2, <2>3 DEF Past
<1> QED BY <1>5, <1>6 DEF k

\* Past the next kid.
LEMMA PastSkips ==
    ASSUME NEW a \in Seq(Nat), NEW s \in Nat, NEW x \in Seq(Nat)
    PROVE  Past(x, a, s + 1) <=> Past(x, a, s) \/ Begins(Kid(a, s + 1), x)
<1> DEFINE k == Kid(a, s + 1)
<1>1. Len(x) \in Nat /\ Len(a) \in Nat
  BY LenProperties
<1>2. /\ k \in Seq(Nat) /\ Len(k) = Len(a) + 1
      /\ \A i \in 1..Len(a) : k[i] = a[i]
      /\ k[Len(a) + 1] = s + 1
  <2>1. s + 1 \in Nat
    OBVIOUS
  <2> QED BY <2>1, KidFacts
<1> HIDE DEF k
<1>3. \A n \in 0..Len(a) : Mark(n, a, s + 1) = IF n < Len(a) THEN Mark(n, a, s) ELSE s + 1
  BY <1>1 DEF Mark
<1>4. Mark(Len(a), a, s) = s
  BY <1>1 DEF Mark
<1>5. \A i \in 1..Len(x) : x[i] \in Nat
  BY ElementOfSeq
<1>6. ASSUME Past(x, a, s + 1) PROVE Past(x, a, s) \/ Begins(k, x)
  <2>1. PICK n \in 0..Len(a) : /\ n < Len(x)
                               /\ \A i \in 1..n : x[i] = a[i]
                               /\ x[n + 1] <= Mark(n, a, s + 1)
    BY <1>6 DEF Past
  <2>2. CASE n < Len(a)
    <3>1. x[n + 1] <= Mark(n, a, s)
      BY <1>3, <2>1, <2>2
    <3> QED BY <2>1, <3>1 DEF Past
  <2>3. CASE ~(n < Len(a))
    <3>1. n = Len(a)
      BY <1>1, <2>3
    <3>2. x[n + 1] <= s + 1 /\ x[n + 1] \in Nat
      BY <1>1, <1>3, <1>5, <2>1, <2>3
    <3>3. CASE x[n + 1] <= s
      <4>1. x[n + 1] <= Mark(n, a, s)
        BY <1>4, <3>1, <3>3
      <4> QED BY <2>1, <4>1 DEF Past
    <3>4. CASE x[n + 1] = s + 1
      <4>1. \A i \in 1..Len(k) : k[i] = x[i]
        <5>1. \A i \in 1..Len(k) : i \in 1..Len(a) \/ i = Len(a) + 1
          BY <1>1, <1>2
        <5> QED BY <1>2, <2>1, <3>1, <3>4, <5>1
      <4> QED BY <1>1, <1>2, <2>1, <3>1, <4>1 DEF Begins
    <3> QED BY <3>2, <3>3, <3>4
  <2> QED BY <2>2, <2>3
<1>7. ASSUME Past(x, a, s) PROVE Past(x, a, s + 1)
  <2>1. PICK n \in 0..Len(a) : /\ n < Len(x)
                               /\ \A i \in 1..n : x[i] = a[i]
                               /\ x[n + 1] <= Mark(n, a, s)
    BY <1>7 DEF Past
  <2>2. x[n + 1] \in Nat
    BY <1>1, <1>5, <2>1
  <2>3. x[n + 1] <= Mark(n, a, s + 1)
    BY <2>1, <2>2, <1>1 DEF Mark
  <2> QED BY <2>1, <2>3 DEF Past
<1>8. ASSUME Begins(k, x) PROVE Past(x, a, s + 1)
  <2>1. /\ Len(a) < Len(x)
        /\ \A i \in 1..Len(a) : x[i] = a[i]
        /\ x[Len(a) + 1] = s + 1
    BY <1>1, <1>2, <1>8 DEF Begins
  <2>2. x[Len(a) + 1] <= Mark(Len(a), a, s + 1)
    BY <1>1, <2>1 DEF Mark
  <2> QED BY <1>1, <2>1, <2>2 DEF Past
<1> QED BY <1>6, <1>7, <1>8 DEF k

\* Out of a block, with any number of its kids done.
LEMMA PastReturns ==
    ASSUME NEW b \in Seq(Nat), NEW j \in Nat, NEW s \in Nat, NEW x \in Seq(Nat)
    PROVE  Past(x, b, j) <=> Past(x, Kid(b, j), s) \/ Begins(Kid(b, j), x)
<1> DEFINE k == Kid(b, j)
<1>1. Len(x) \in Nat /\ Len(b) \in Nat
  BY LenProperties
<1>2. /\ k \in Seq(Nat) /\ Len(k) = Len(b) + 1
      /\ \A i \in 1..Len(b) : k[i] = b[i]
      /\ k[Len(b) + 1] = j
  BY KidFacts
<1> HIDE DEF k
<1>3. /\ \A n \in 0..Len(b) : n < Len(b) => Mark(n, k, s) = Mark(n, b, j)
      /\ Mark(Len(b), k, s) = j - 1
      /\ Mark(Len(b), b, j) = j
  <2>1. ASSUME NEW n \in 0..Len(b), n < Len(b) PROVE Mark(n, k, s) = Mark(n, b, j)
    <3>1. n + 1 \in 1..Len(b) /\ n < Len(k)
      BY <1>1, <1>2, <2>1
    <3> QED BY <1>2, <2>1, <3>1 DEF Mark
  <2>2. Mark(Len(b), k, s) = j - 1 /\ Mark(Len(b), b, j) = j
    BY <1>1, <1>2 DEF Mark
  <2> QED BY <2>1, <2>2
<1>4. \A i \in 1..Len(x) : x[i] \in Nat
  BY ElementOfSeq
<1>5. ASSUME NEW n \in 0..Len(b)
      PROVE  (\A i \in 1..n : x[i] = b[i]) <=> (\A i \in 1..n : x[i] = k[i])
  <2>1. \A i \in 1..n : i \in 1..Len(b)
    BY <1>1
  <2> QED BY <1>2, <2>1
<1>6. ASSUME Past(x, b, j) PROVE Past(x, k, s) \/ Begins(k, x)
  <2>1. PICK n \in 0..Len(b) : /\ n < Len(x)
                               /\ \A i \in 1..n : x[i] = b[i]
                               /\ x[n + 1] <= Mark(n, b, j)
    BY <1>6 DEF Past
  <2>2. n \in 0..Len(k) /\ \A i \in 1..n : x[i] = k[i]
    BY <1>1, <1>2, <1>5, <2>1
  <2>3. CASE n < Len(b)
    <3>1. x[n + 1] <= Mark(n, k, s)
      BY <1>3, <2>1, <2>3
    <3> QED BY <2>1, <2>2, <3>1 DEF Past
  <2>4. CASE ~(n < Len(b))
    <3>1. n = Len(b)
      BY <1>1, <2>4
    <3>2. x[n + 1] <= j /\ x[n + 1] \in Nat
      BY <1>1, <1>3, <1>4, <2>1, <3>1
    <3>3. CASE x[n + 1] <= j - 1
      <4>1. x[n + 1] <= Mark(n, k, s)
        BY <1>3, <3>1, <3>3
      <4> QED BY <2>1, <2>2, <4>1 DEF Past
    <3>4. CASE x[n + 1] = j
      <4>1. \A i \in 1..Len(k) : k[i] = x[i]
        <5>1. \A i \in 1..Len(k) : i \in 1..Len(b) \/ i = Len(b) + 1
          BY <1>1, <1>2
        <5> QED BY <1>2, <2>1, <3>1, <3>4, <5>1
      <4> QED BY <1>1, <1>2, <2>1, <3>1, <4>1 DEF Begins
    <3> QED BY <3>2, <3>3, <3>4
  <2> QED BY <2>3, <2>4
<1>7. ASSUME Begins(k, x) PROVE Past(x, b, j)
  <2>1. /\ Len(b) < Len(x)
        /\ \A i \in 1..Len(b) : x[i] = b[i]
        /\ x[Len(b) + 1] = j
    BY <1>1, <1>2, <1>7 DEF Begins
  <2>2. x[Len(b) + 1] <= Mark(Len(b), b, j)
    BY <1>3, <2>1
  <2> QED BY <1>1, <2>1, <2>2 DEF Past
<1>8. ASSUME Past(x, k, s) PROVE Past(x, b, j)
  <2>1. PICK n \in 0..Len(k) : /\ n < Len(x)
                               /\ \A i \in 1..n : x[i] = k[i]
                               /\ x[n + 1] <= Mark(n, k, s)
    BY <1>8 DEF Past
  <2>2. CASE n <= Len(b)
    <3>1. n \in 0..Len(b) /\ n + 1 \in 1..Len(x)
      BY <1>1, <2>1, <2>2
    <3>2. \A i \in 1..n : x[i] = b[i]
      BY <1>5, <2>1, <3>1
    <3>3. x[n + 1] \in Nat
      BY <1>4, <3>1
    <3>4. x[n + 1] <= Mark(n, b, j)
      <4>1. CASE n < Len(b)
        BY <1>3, <2>1, <3>1, <4>1
      <4>2. CASE n = Len(b)
        BY <1>3, <2>1, <3>3, <4>2
      <4> QED BY <1>1, <3>1, <4>1, <4>2
    <3> QED BY <2>1, <3>1, <3>2, <3>4 DEF Past
  <2>3. CASE ~(n <= Len(b))
    <3>1. n = Len(k)
      BY <1>1, <1>2, <2>3
    <3>2. Begins(k, x)
      BY <1>1, <1>2, <2>1, <3>1 DEF Begins
    <3> QED BY <1>7, <3>2
  <2> QED BY <2>2, <2>3
<1> QED BY <1>6, <1>7, <1>8 DEF k

-----------------------------------------------------------------------------
(* Requests.                                                               *)

LEMMA TreeFacts ==
    ASSUME call \in Requests
    PROVE  /\ DOMAIN call \subseteq Seq(Nat)
           /\ <<>> \in DOMAIN call
           /\ Node(<<>>).kind = "call" /\ Node(<<>>).kids = 1
           /\ \A p \in DOMAIN call : Node(p).kids \in Nat
           /\ \A p \in DOMAIN call : \A n \in 0..Len(p) : SubSeq(p, 1, n) \in DOMAIN call
           /\ \A p \in DOMAIN call : \A i \in 1..Node(p).kids :
                 Kid(p, i) \in Blocks /\ <<Node(p).kind, Node(Kid(p, i)).kind>> \in Holds
           /\ \A p \in Blocks : /\ Front(p) \in DOMAIN call
                                /\ Last(p) \in 1..Node(Front(p)).kids
                                /\ Kid(Front(p), Last(p)) = p
<1>1. IsRequest(call)
  BY RequestsAreTrees
<1>2. /\ DOMAIN call \subseteq Seq(Nat)
      /\ call \in [DOMAIN call -> [kind : STRING, kids : Nat]]
      /\ \A p \in DOMAIN call : \A n \in 0..Len(p) : SubSeq(p, 1, n) \in DOMAIN call
      /\ <<>> \in DOMAIN call
      /\ call[<<>>].kind = "call" /\ call[<<>>].kids = 1
  BY <1>1 DEF IsRequest
<1>3. \A p \in DOMAIN call :
          /\ \A i \in 1..call[p].kids :
                /\ Kid(p, i) \in DOMAIN call
                /\ <<call[p].kind, call[Kid(p, i)].kind>> \in Holds
          /\ p # <<>> => Last(p) \in 1..call[Front(p)].kids
  BY <1>1 DEF IsRequest
<1>4. \A p \in DOMAIN call : call[p].kids \in Nat
  BY <1>2
<1>5. ASSUME NEW p \in DOMAIN call, NEW i \in 1..call[p].kids PROVE Kid(p, i) # <<>>
  BY <1>2, <1>4, KidFacts
<1>6. ASSUME NEW p \in Blocks
      PROVE Front(p) \in DOMAIN call /\ Last(p) \in 1..call[Front(p)].kids /\ Kid(Front(p), Last(p)) = p
  <2>1. p \in DOMAIN call /\ p \in Seq(Nat) /\ p # <<>>
    BY <1>2 DEF Blocks
  <2>2. Len(p) >= 1 /\ Len(p) \in Nat
    BY <2>1, FrontFacts, LenProperties
  <2>3. Len(p) - 1 \in 0..Len(p)
    BY <2>2
  <2>4. SubSeq(p, 1, Len(p) - 1) \in DOMAIN call
    BY <1>2, <2>1, <2>3
  <2> QED BY <1>3, <2>1, <2>4, FrontFacts DEF Front
<1>7. \A p \in DOMAIN call : \A i \in 1..call[p].kids :
          Kid(p, i) \in Blocks /\ <<call[p].kind, call[Kid(p, i)].kind>> \in Holds
  BY <1>3, <1>5 DEF Blocks
<1> QED BY <1>2, <1>4, <1>6, <1>7 DEF Node

LEMMA AboveIsThere ==
    ASSUME call \in Requests, NEW p \in DOMAIN call, NEW x \in Seq(Nat), Begins(x, p)
    PROVE  x \in DOMAIN call /\ x = SubSeq(p, 1, Len(x))
<1>1. p \in Seq(Nat)
  BY TreeFacts
<1>2. Len(x) \in 0..Len(p)
  BY <1>1, LenProperties DEF Begins
<1>3. SubSeq(p, 1, Len(x)) \in DOMAIN call
  BY <1>2, TreeFacts
<1>4. x = SubSeq(p, 1, Len(x))
  <2> DEFINE y == SubSeq(p, 1, Len(x))
  <2>1. y \in Seq(Nat) /\ Len(y) = Len(x) /\ Begins(y, p)
    BY <1>1, <1>2, SubSeqFacts
  <2> HIDE DEF y
  <2>2. Begins(x, y)
    BY <1>1, <1>2, <2>1, BeginsFacts
  <2>3. x = y
    BY <2>1, <2>2, BeginsFacts
  <2> QED BY <2>3 DEF y
<1> QED BY <1>3, <1>4

LEMMA KidBelow ==
    ASSUME call \in Requests, NEW p \in DOMAIN call, NEW x \in DOMAIN call,
           Begins(p, x), x # p
    PROVE  Len(p) < Len(x) /\ x[Len(p) + 1] \in 1..Node(p).kids
<1>1. p \in Seq(Nat) /\ x \in Seq(Nat)
  BY TreeFacts
<1>2. Len(p) \in Nat /\ Len(x) \in Nat
  BY <1>1, LenProperties
<1>3. Len(p) < Len(x)
  BY <1>1, <1>2, BeginsFacts DEF Begins
<1> DEFINE y == SubSeq(x, 1, Len(p) + 1)
<1>4. /\ y \in Seq(Nat) /\ Len(y) = Len(p) + 1 /\ Begins(y, x)
      /\ y[Len(p) + 1] = x[Len(p) + 1]
  BY <1>1, <1>2, <1>3, SubSeqFacts
<1>5. y \in DOMAIN call
  BY <1>4, AboveIsThere
<1> HIDE DEF y
<1>6. y # <<>>
  BY <1>2, <1>4, EmptySeq
<1>7. Begins(p, y)
  BY <1>1, <1>2, <1>4, BeginsFacts
<1>8. Front(y) \in Seq(Nat) /\ Len(Front(y)) = Len(p) /\ Last(y) = x[Len(p) + 1]
  BY <1>2, <1>4, <1>6, FrontFacts
<1>9. Front(y) = p
  <2>0. Len(y) - 1 = Len(p)
    BY <1>2, <1>4
  <2>1. \A j \in 1..Len(p) : Front(y)[j] = y[j]
    BY <1>4, <1>6, <2>0, FrontFacts
  <2>2. \A j \in 1..Len(p) : p[j] = y[j]
    BY <1>7 DEF Begins
  <2> QED BY <1>1, <1>8, <2>1, <2>2, SeqEqual
<1>10. Last(y) \in 1..Node(p).kids
  BY <1>5, <1>6, <1>9, TreeFacts DEF Blocks
<1> QED BY <1>3, <1>8, <1>10

LEMMA NumbersArePositive ==
    ASSUME call \in Requests, NEW x \in DOMAIN call
    PROVE  \A i \in 1..Len(x) : x[i] > 0
<1> SUFFICES ASSUME NEW i \in 1..Len(x) PROVE x[i] > 0
  OBVIOUS
<1>1. x \in Seq(Nat)
  BY TreeFacts
<1>2. Len(x) \in Nat
  BY <1>1, LenProperties
<1> DEFINE p == SubSeq(x, 1, i - 1)
<1>3. i - 1 \in 0..Len(x)
  BY <1>2
<1>4. p \in Seq(Nat) /\ Len(p) = i - 1 /\ Begins(p, x)
  BY <1>1, <1>3, SubSeqFacts
<1>5. p \in DOMAIN call
  BY <1>4, AboveIsThere
<1> HIDE DEF p
<1>6. p # x
  BY <1>2, <1>4
<1>7. x[Len(p) + 1] \in 1..Node(p).kids /\ Node(p).kids \in Nat
  BY <1>4, <1>5, <1>6, KidBelow, TreeFacts
<1>8. Len(p) + 1 = i
  BY <1>4
<1> QED BY <1>7, <1>8

\* All that is below a block whose kids are done is past.
LEMMA DoneIsPast ==
    ASSUME call \in Requests, NEW p \in DOMAIN call, NEW x \in DOMAIN call,
           Begins(p, x), x # p
    PROVE  Past(x, p, Node(p).kids)
<1>1. p \in Seq(Nat) /\ x \in Seq(Nat) /\ Node(p).kids \in Nat
  BY TreeFacts
<1>2. Len(p) \in Nat
  BY <1>1, LenProperties
<1>3. Len(p) < Len(x) /\ x[Len(p) + 1] \in 1..Node(p).kids
  BY KidBelow
<1>4. \A i \in 1..Len(p) : x[i] = p[i]
  BY DEF Begins
<1>5. x[Len(p) + 1] <= Mark(Len(p), p, Node(p).kids)
  BY <1>1, <1>2, <1>3 DEF Mark
<1> QED BY <1>2, <1>3, <1>4, <1>5 DEF Past

\* A request that was walked through.
LEMMA AllIsPast ==
    ASSUME call \in Requests, NEW x \in Blocks
    PROVE  Past(x, <<>>, 1) /\ Begins(<<1>>, x) /\ ~Begins(x, <<>>)
<1>1. x \in DOMAIN call /\ x # <<>> /\ x \in Seq(Nat) /\ <<>> \in DOMAIN call /\ <<>> \in Seq(Nat)
  BY TreeFacts DEF Blocks
<1>2. Len(<<>>) = 0 /\ Begins(<<>>, x)
  BY <1>1, EmptySeq, LenProperties DEF Begins
<1>3. Past(x, <<>>, 1)
  BY <1>1, <1>2, DoneIsPast, TreeFacts
<1>4. Len(x) > 0 /\ x[1] \in 1..1
  BY <1>1, <1>2, KidBelow, TreeFacts
<1>5. Begins(<<1>>, x)
  BY <1>1, <1>4, LenProperties DEF Begins
<1>6. ~Begins(x, <<>>)
  BY <1>2, <1>4 DEF Begins
<1> QED BY <1>3, <1>5, <1>6

LEMMA AboveFacts ==
    ASSUME NEW w \in Seq(Nat), w # <<>>, NEW y \in Seq(Nat)
    PROVE  Begins(y, w) /\ y # w <=> Begins(y, Front(w))
<1>1. Front(w) \in Seq(Nat) /\ Last(w) \in Nat /\ Kid(Front(w), Last(w)) = w
  BY FrontFacts
<1>2. Begins(y, w) <=> Begins(y, Front(w)) \/ y = w
  BY <1>1, BeginsKid
<1>3. ~Begins(w, Front(w))
  BY FrontFacts, LenProperties DEF Begins
<1> QED BY <1>2, <1>3

LEMMA ReachFacts ==
    ASSUME call \in Requests, live \subseteq Blocks, NEW path \in Blocks, NEW x
    PROVE  x \in Reach(path) <=>
              /\ x \in live
              /\ Begins(path, x)
              /\ \A y \in Blocks : Begins(y, x) /\ Len(path) < Len(y) => y \in stored
<1>1. SUFFICES ASSUME x \in live
               PROVE  IsPrefix(path, x)
                        /\ (\A n \in (Len(path) + 1)..Len(x) : SubSeq(x, 1, n) \in stored)
                      <=> Begins(path, x)
                        /\ (\A y \in Blocks : Begins(y, x) /\ Len(path) < Len(y) => y \in stored)
  BY DEF Reach
<1>2. x \in Blocks /\ x \in DOMAIN call /\ x \in Seq(Nat) /\ path \in Seq(Nat)
  BY <1>1, TreeFacts DEF Blocks
<1>3. Len(x) \in Nat /\ Len(path) \in Nat
  BY <1>2, LenProperties
<1>4. IsPrefix(path, x) <=> Begins(path, x)
  BY <1>2, PrefixIsBegins
<1>5. ASSUME \A n \in (Len(path) + 1)..Len(x) : SubSeq(x, 1, n) \in stored,
             NEW y \in Blocks, Begins(y, x), Len(path) < Len(y)
      PROVE  y \in stored
  <2>1. y \in Seq(Nat) /\ Len(y) \in Nat
    BY TreeFacts, LenProperties DEF Blocks
  <2>2. y = SubSeq(x, 1, Len(y))
    BY <1>2, <1>5, <2>1, AboveIsThere
  <2>3. Len(y) \in (Len(path) + 1)..Len(x)
    BY <1>3, <1>5, <2>1 DEF Begins
  <2> QED BY <1>5, <2>2, <2>3
<1>6. ASSUME \A y \in Blocks : Begins(y, x) /\ Len(path) < Len(y) => y \in stored,
             NEW n \in (Len(path) + 1)..Len(x)
      PROVE  SubSeq(x, 1, n) \in stored
  <2> DEFINE y == SubSeq(x, 1, n)
  <2>1. n \in 0..Len(x) /\ Len(path) < n /\ n # 0
    BY <1>3
  <2>2. y \in Seq(Nat) /\ Len(y) = n /\ Begins(y, x)
    BY <1>2, <2>1, SubSeqFacts
  <2> HIDE DEF y
  <2>3. y # <<>>
    BY <2>1, <2>2, EmptySeq
  <2>4. y \in DOMAIN call
    BY <1>2, <2>2, AboveIsThere
  <2>5. y \in stored
    BY <1>6, <2>1, <2>2, <2>3, <2>4 DEF Blocks
  <2> QED BY <2>5 DEF y
<1> QED BY <1>4, <1>5, <1>6

LEMMA HoldsFacts ==
    ASSUME NEW owner, NEW kid, <<owner, kid>> \in Holds
    PROVE  kid \in List \cup {"scope"} => owner \in Owner
BY DEF Holds, List, Owner

LEMMA SameTree ==
    ASSUME call' = call
    PROVE  /\ Blocks' = Blocks
           /\ \A p : Node(p)' = Node(p)
           /\ \A p : Spared(Node(p))' <=> Spared(Node(p))
BY DEF Blocks, Node, Spared, EmptyList

-----------------------------------------------------------------------------
(* The moves of the walk.                                                  *)

LEMMA TypedFacts ==
    ASSUME Typed
    PROVE  /\ call \in Requests
           /\ at \in DOMAIN call /\ at \in Seq(Nat)
           /\ step \in Nat /\ Node(at).kids \in Nat
           /\ \A x \in Blocks : x \in DOMAIN call /\ x \in Seq(Nat) /\ x # <<>>
           /\ at # <<>> => at \in Blocks
BY TreeFacts DEF Typed, Blocks

\* What the path goes through has a kid.
LEMMA OpenHasKids ==
    ASSUME Typed, NEW x \in Blocks, Begins(x, at), x # at
    PROVE  Node(x).kids > 0
<1>1. at[Len(x) + 1] \in 1..Node(x).kids /\ Node(x).kids \in Nat
  BY TypedFacts, TreeFacts, KidBelow
<1> QED BY <1>1

LEMMA NextKidFacts ==
    ASSUME Typed, step < Node(at).kids
    PROVE  /\ Kid(at, step + 1) \in Blocks
           /\ <<Node(at).kind, Node(Kid(at, step + 1)).kind>> \in Holds
           /\ Begins(Kid(at, step + 1), Kid(at, step + 1))
           /\ \A x \in Blocks : Begins(Kid(at, step + 1), x) => ~Past(x, at, step) /\ ~Begins(x, at)
           /\ \A x \in Blocks : Begins(x, Kid(at, step + 1)) <=> Begins(x, at) \/ x = Kid(at, step + 1)
<1>1. step + 1 \in 1..Node(at).kids /\ step + 1 \in Nat
  BY TypedFacts
<1>2. /\ Kid(at, step + 1) \in Blocks
      /\ <<Node(at).kind, Node(Kid(at, step + 1)).kind>> \in Holds
  BY <1>1, TypedFacts, TreeFacts
<1>3. Begins(Kid(at, step + 1), Kid(at, step + 1))
  BY <1>2, TypedFacts, BeginsFacts
<1>4. ASSUME NEW x \in Blocks, Begins(Kid(at, step + 1), x)
      PROVE  ~Past(x, at, step) /\ ~Begins(x, at)
  BY <1>4, TypedFacts, NextKid
<1>5. ASSUME NEW x \in Blocks
      PROVE Begins(x, Kid(at, step + 1)) <=> Begins(x, at) \/ x = Kid(at, step + 1)
  BY <1>1, TypedFacts, BeginsKid
<1> QED BY <1>2, <1>3, <1>4, <1>5

LEMMA EnterFacts ==
    ASSUME Typed, step < Node(at).kids, NEW x \in Blocks
    PROVE  Past(x, Kid(at, step + 1), 0) <=> Past(x, at, step)
BY TypedFacts, PastEnters, NumbersArePositive

LEMMA SkipFacts ==
    ASSUME Typed, NEW x \in Blocks
    PROVE  Past(x, at, step + 1) <=> Past(x, at, step) \/ Begins(Kid(at, step + 1), x)
BY TypedFacts, PastSkips

LEMMA LeaveFacts ==
    ASSUME Typed, at # <<>>
    PROVE  /\ Front(at) \in DOMAIN call
           /\ Last(at) \in 1..Node(Front(at)).kids
           /\ Last(at) \in Nat
           /\ Node(Front(at)).kids \in Nat
           /\ \A x \in Blocks : Past(x, Front(at), Last(at)) <=> Past(x, at, step) \/ Begins(at, x)
           /\ \A x \in Blocks : Begins(x, Front(at)) <=> Begins(x, at) /\ x # at
           /\ \A x \in Blocks : Begins(at, x) => ~Begins(x, Front(at))
           /\ Begins(at, at)
<1>1. /\ Front(at) \in DOMAIN call
      /\ Last(at) \in 1..Node(Front(at)).kids
      /\ Kid(Front(at), Last(at)) = at
  BY TypedFacts, TreeFacts
<1>2. Front(at) \in Seq(Nat) /\ Last(at) \in Nat /\ Node(Front(at)).kids \in Nat
  BY <1>1, TypedFacts, TreeFacts, FrontFacts
<1>3. ASSUME NEW x \in Blocks
      PROVE  Past(x, Front(at), Last(at)) <=> Past(x, at, step) \/ Begins(at, x)
  BY <1>1, <1>2, TypedFacts, PastReturns
<1>4. ASSUME NEW x \in Blocks
      PROVE  Begins(x, Front(at)) <=> Begins(x, at) /\ x # at
  BY TypedFacts, AboveFacts
<1>5. Begins(at, at)
  BY TypedFacts, BeginsFacts
<1>6. ASSUME NEW x \in Blocks, Begins(at, x), Begins(x, Front(at)) PROVE FALSE
  <2>1. Begins(x, at) /\ x # at
    BY <1>4, <1>6
  <2>2. Len(x) = Len(at)
    BY <1>6, <2>1, TypedFacts, LenProperties DEF Begins
  <2> QED BY <2>1, <2>2, TypedFacts, BeginsFacts
<1> QED BY <1>1, <1>2, <1>3, <1>4, <1>5, <1>6

\* The open blocks are neither past nor stored, but live, unless they are
\* lists without memory.
LEMMA AtIsNotPast ==
    ASSUME Typed
    PROVE  \A x \in Blocks : Begins(x, at) => ~Past(x, at, step)
BY TypedFacts, PastFacts

LEMMA FrontKid ==
    ASSUME call \in Requests, NEW p \in DOMAIN call, NEW i \in 1..Node(p).kids
    PROVE  Kid(p, i) \in Blocks /\ Front(Kid(p, i)) = p
<1>1. p \in Seq(Nat) /\ i \in Nat
  BY TreeFacts
<1> QED BY <1>1, TreeFacts, KidFacts

\* What is below the next kid is not live.
LEMMA NextIsFresh ==
    ASSUME Typed, step < Node(at).kids, LiveIsReached, StoredIsPast, NEW x \in Blocks,
           Begins(Kid(at, step + 1), x)
    PROVE  x \notin live /\ x \notin stored
BY NextKidFacts DEF LiveIsReached, StoredIsPast

LEMMA CrashKeeps ==
    ASSUME Typed, Crash, failed' \subseteq Blocks, Harmful'
    PROVE  IInv'
<1>1. Typed'
  BY SameTree DEF Typed, Crash
<1>2. pc' = "crash"
  BY DEF Crash
<1> QED BY <1>1, <1>2 DEF IInv, WalkIsOver, Working, Ends, CompleteAnswer

-----------------------------------------------------------------------------
(* Building.                                                               *)

\* Into the next kid, with its memory or, a list, without.
LEMMA EnterKeeps ==
    ASSUME IInv, Building, step < Node(at).kids, Enter(Kid(at, step + 1)),
           UNCHANGED <<call, ret, stored, sent, pc>>,
           \/ live' = live \cup {Kid(at, step + 1)} /\ failed' = failed
           \/ /\ live' = live /\ failed' = failed \cup {Kid(at, step + 1)}
              /\ Node(Kid(at, step + 1)).kind \in UncheckedList
    PROVE  IInv'
<1>0. PICK k : k = Kid(at, step + 1)
  OBVIOUS
<1>1. pc = "build" /\ ret = "go" /\ pc' = "build" /\ ret' = "go" /\ at' = k /\ step' = 0
      /\ call' = call /\ stored' = stored
  BY <1>0 DEF Building, Enter
<1>2. Typed /\ Walk /\ LiveIsReached /\ StoredIsPast /\ OpenIsLive
  BY <1>1 DEF IInv, Working, Walk
<1>3. /\ k \in Blocks /\ Begins(k, k)
      /\ \A x \in Blocks : Begins(k, x) => ~Past(x, at, step) /\ ~Begins(x, at)
      /\ \A x \in Blocks : Begins(x, k) <=> Begins(x, at) \/ x = k
  BY <1>0, <1>2, NextKidFacts
<1>4. \A x \in Blocks : Past(x, k, 0) <=> Past(x, at, step)
  BY <1>0, <1>2, EnterFacts
<1>5. k \notin live /\ k \notin stored
  BY <1>0, <1>2, <1>3, NextIsFresh
<1>6. k \in DOMAIN call /\ Node(k).kids \in Nat
  BY <1>3, TypedFacts, TreeFacts, <1>2
<1>7. Typed'
  <2>1. live' \subseteq Blocks /\ failed' \subseteq Blocks
    BY <1>0, <1>2, <1>3 DEF Typed
  <2> QED BY <1>1, <1>2, <1>6, <2>1, SameTree DEF Typed
<1>8. Walk'
  <2>1. LiveIsReached'
    <3>1. \A p \in live' : p \in live \/ p = k
      BY <1>0
    <3>2. \A p \in live : p \in Blocks
      BY <1>2 DEF Typed
    <3> QED BY <1>1, <1>2, <1>3, <1>4, <3>1, <3>2 DEF LiveIsReached
  <2>2. StoredIsPast'
    BY <1>1, <1>2, <1>4 DEF StoredIsPast, Typed
  <2>3. OpenIsLive'
    <3>1. SUFFICES ASSUME NEW p \in Blocks, Begins(p, k)
                   PROVE  p \in live' \/ (p \in failed' /\ Node(p).kind \in UncheckedList)
      BY <1>1, SameTree DEF OpenIsLive
    <3>2. CASE p = k
      BY <1>0, <3>2
    <3>3. CASE Begins(p, at)
      BY <1>2, <3>3 DEF OpenIsLive
    <3> QED BY <1>3, <3>1, <3>2, <3>3
  <2>4. NullIsEarned'
    BY <1>1 DEF NullIsEarned
  <2> QED BY <2>1, <2>2, <2>3, <2>4 DEF Walk
<1>9. Harmful => Harmful'
  BY <1>1, SameTree DEF Harmful
<1>10. ASSUME ~Harmful' PROVE Whole'
  <2>1. Whole
    BY <1>1, <1>9, <1>10 DEF IInv, Working
  <2>2. \A x : Linked(x) /\ x \in Blocks => Linked(x)'
    BY <1>1, <1>3 DEF Linked
  <2>3. LiveIsLinked'
    <3>1. SUFFICES ASSUME NEW p \in live', NEW x \in Blocks, Begins(x, p)
                   PROVE  Linked(x)'
      BY <1>1, SameTree DEF LiveIsLinked
    <3>2. CASE p \in live
      BY <2>1, <2>2, <3>1, <3>2 DEF Whole, LiveIsLinked
    <3>3. CASE p = k /\ live' = live \cup {k}
      <4>1. x = k \/ Begins(x, at)
        BY <1>3, <3>1, <3>3
      <4>2. x \in live'
        <5>1. CASE x = k
          BY <3>3, <5>1
        <5>2. CASE Begins(x, at)
          <6>1. Node(x).kids > 0
            <7>1. Node(at).kids > 0
              BY <1>2, TypedFacts
            <7> QED BY <1>2, <5>2, <7>1, OpenHasKids
          <6>2. ~EmptyList(Node(x)) /\ (Node(x).kind \in UncheckedList => Node(x).kind # "scope")
            BY <6>1 DEF EmptyList, UncheckedList
          <6>3. x \notin failed \/ Node(x).kind \notin UncheckedList
            BY <1>9, <1>10, <6>2 DEF Harmful, Spared
          <6> QED BY <1>2, <3>3, <5>2, <6>3 DEF OpenIsLive
        <5> QED BY <4>1, <5>1, <5>2
      <4>3. Begins(x, at')
        BY <1>1, <1>3, <4>1
      <4> QED BY <4>2, <4>3 DEF Linked
    <3> QED BY <1>0, <3>1, <3>2, <3>3
  <2>4. (stored \subseteq live)'
    BY <1>1, <2>1 DEF Whole
  <2>5. PastIsStored'
    <3>1. SUFFICES ASSUME NEW x \in Blocks, Past(x, k, 0), Front(x) = <<>> \/ Front(x) \in live'
                   PROVE  x \in stored \/ Spared(Node(x))
      BY <1>1, SameTree DEF PastIsStored
    <3>2. Past(x, at, step)
      BY <1>4, <3>1
    <3>3. Front(x) # k
      <4>1. SUFFICES ASSUME Front(x) = k PROVE FALSE
        OBVIOUS
      <4>2. Begins(k, x)
        BY <1>2, <1>3, <4>1, TypedFacts, AboveFacts
      <4> QED BY <1>3, <3>2, <4>2
    <3>4. Front(x) = <<>> \/ Front(x) \in live
      BY <1>0, <3>1, <3>3
    <3> QED BY <2>1, <3>2, <3>4 DEF Whole, PastIsStored
  <2> QED BY <1>1, <2>3, <2>4, <2>5 DEF Whole
<1>11. ASSUME Harmful' PROVE Broken'
  <2>1. CASE Harmful
    <3>1. PICK w \in Blocks : ~Spared(Node(w)) /\ (Missing(w) \/ Unbacked(w))
      BY <1>1, <2>1 DEF IInv, Working, Broken
    <3>2. ASSUME Missing(w) PROVE Missing(w)'
      <4>1. \A x \in Blocks : Begins(x, w) /\ x # w => Linked(x)'
        BY <1>1, <1>3, <3>2 DEF Missing, Linked
      <4> QED BY <1>1, <1>4, <3>2, <4>1, SameTree DEF Missing
    <3>3. ASSUME Unbacked(w) PROVE Unbacked(w)'
      <4>1. Begins(w, at) /\ w # k
        BY <1>3, <3>3 DEF Unbacked
      <4>2. w \notin live'
        BY <1>0, <3>3, <4>1 DEF Unbacked
      <4> QED BY <1>1, <1>3, <3>3, <4>1, <4>2, SameTree DEF Unbacked
    <3> QED BY <1>1, <3>1, <3>2, <3>3, SameTree DEF Broken
  <2>2. CASE ~Harmful
    <3>1. live' = live /\ failed' = failed \cup {k} /\ Node(k).kind \in UncheckedList /\ ~Spared(Node(k))
      BY <1>0, <1>1, <1>11, <2>2, SameTree DEF Harmful
    <3>2. Unbacked(k)'
      BY <1>1, <1>3, <1>5, <3>1, SameTree DEF Unbacked
    <3> QED BY <1>1, <1>3, <3>1, <3>2, SameTree DEF Broken
  <2> QED BY <2>1, <2>2
<1> QED BY <1>1, <1>7, <1>8, <1>10, <1>11 DEF IInv, WalkIsOver, Ends, CompleteAnswer

\* Past the next kid, which got no memory.
LEMMA SkipKeeps ==
    ASSUME IInv, Building, step < Node(at).kids,
           step' = step + 1, ret' = "null",
           failed' = failed \cup {Kid(at, step + 1)},
           UNCHANGED <<call, at, live, stored, sent, pc>>
    PROVE  IInv'
<1>0. PICK k : k = Kid(at, step + 1)
  OBVIOUS
<1>1. pc = "build" /\ ret = "go" /\ pc' = "build"
  BY DEF Building
<1>2. Typed /\ Walk /\ LiveIsReached /\ StoredIsPast /\ OpenIsLive
  BY <1>1 DEF IInv, Working, Walk
<1>3. /\ k \in Blocks /\ Begins(k, k)
      /\ <<Node(at).kind, Node(k).kind>> \in Holds
      /\ \A x \in Blocks : Begins(k, x) => ~Past(x, at, step) /\ ~Begins(x, at)
      /\ \A x \in Blocks : Begins(x, k) <=> Begins(x, at) \/ x = k
  BY <1>0, <1>2, NextKidFacts
<1>4. \A x \in Blocks : Past(x, at, step + 1) <=> Past(x, at, step) \/ Begins(k, x)
  BY <1>0, <1>2, SkipFacts
<1>5. \A x \in Blocks : Begins(k, x) => x \notin live /\ x \notin stored
  BY <1>0, <1>2, NextIsFresh
<1>6. failed' = failed \cup {k}
  BY <1>0
<1>7. Typed'
  <2>1. step' \in 0..Node(at).kids
    BY <1>2, TypedFacts
  <2> QED BY <1>2, <1>3, <1>6, <2>1, SameTree DEF Typed
<1>8. Walk'
  <2>1. LiveIsReached' /\ StoredIsPast' /\ OpenIsLive'
    <3>1. \A p \in live \cup stored : p \in Blocks
      BY <1>2 DEF Typed
    <3> QED BY <1>2, <1>4, <1>6, <3>1, SameTree DEF LiveIsReached, StoredIsPast, OpenIsLive
  <2>2. NullIsEarned'
    <3>1. step' > 0
      BY <1>2, TypedFacts
    <3>2. CASE Spared(Node(k))
      <4>1. Node(k).kind \in List \cup {"scope"}
        BY <3>2 DEF Spared, EmptyList
      <4>2. Node(at).kind \in Owner
        BY <1>3, <4>1, HoldsFacts
      <4> QED BY <3>1, <4>2, SameTree DEF NullIsEarned
    <3>3. CASE ~Spared(Node(k))
      BY <1>6, <3>1, <3>3, SameTree DEF NullIsEarned, Harmful
    <3> QED BY <3>2, <3>3
  <2> QED BY <2>1, <2>2 DEF Walk
<1>9. Harmful => Harmful'
  BY <1>6, SameTree DEF Harmful
<1>10. ASSUME ~Harmful' PROVE Whole'
  <2>1. Whole
    BY <1>1, <1>9, <1>10 DEF IInv, Working
  <2>2. Spared(Node(k))
    BY <1>6, <1>10, SameTree DEF Harmful
  <2>3. LiveIsLinked' /\ (stored \subseteq live)'
    BY <2>1, SameTree DEF Whole, LiveIsLinked, Linked
  <2>4. PastIsStored'
    <3>1. SUFFICES ASSUME NEW x \in Blocks, Past(x, at, step + 1), Front(x) = <<>> \/ Front(x) \in live
                   PROVE  x \in stored \/ Spared(Node(x))
      BY <1>1, SameTree DEF PastIsStored
    <3>2. CASE Past(x, at, step)
      BY <2>1, <3>1, <3>2 DEF Whole, PastIsStored
    <3>3. CASE x = k
      BY <2>2, <3>3
    <3>4. CASE Begins(k, x) /\ x # k
      <4>1. Begins(k, Front(x))
        BY <1>2, <1>3, <3>4, TypedFacts, AboveFacts
      <4>2. Front(x) # <<>>
        <5>1. SUFFICES ASSUME Front(x) = <<>> PROVE FALSE
          OBVIOUS
        <5>2. ~Begins(k, <<>>)
          BY <1>2, <1>3, TypedFacts, AllIsPast
        <5> QED BY <4>1, <5>1, <5>2
      <4>3. Front(x) \in Blocks
        BY <1>2, <4>2, TypedFacts, TreeFacts DEF Blocks
      <4> QED BY <1>5, <3>1, <4>1, <4>2, <4>3
    <3> QED BY <1>4, <3>1, <3>2, <3>3, <3>4
  <2> QED BY <1>1, <2>3, <2>4 DEF Whole
<1>11. ASSUME Harmful' PROVE Broken'
  <2>1. CASE Harmful
    <3>1. PICK w \in Blocks : ~Spared(Node(w)) /\ (Missing(w) \/ Unbacked(w))
      BY <1>1, <2>1 DEF IInv, Working, Broken
    <3>2. ASSUME Missing(w) PROVE Missing(w)'
      BY <1>1, <1>4, <3>2, SameTree DEF Missing, Linked
    <3>3. ASSUME Unbacked(w) PROVE Unbacked(w)'
      BY <3>3, SameTree DEF Unbacked
    <3> QED BY <3>1, <3>2, <3>3, SameTree DEF Broken
  <2>2. CASE ~Harmful
    <3>1. ~Spared(Node(k))
      BY <1>6, <1>11, <2>2, SameTree DEF Harmful
    <3>2. CASE \A x \in Blocks : Begins(x, at) => x \in live
      <4>1. \A x \in Blocks : Begins(x, k) /\ x # k => Linked(x)
        BY <1>3, <3>2 DEF Linked
      <4>2. k \notin stored /\ Past(k, at, step + 1)
        BY <1>3, <1>4, <1>5
      <4>3. Missing(k)'
        BY <1>1, <4>1, <4>2, SameTree DEF Missing, Linked
      <4> QED BY <1>3, <3>1, <4>3, SameTree DEF Broken
    <3>3. ASSUME NEW x \in Blocks, Begins(x, at), x \notin live PROVE Broken'
      <4>1. Node(x).kind \in UncheckedList
        BY <1>2, <3>3 DEF OpenIsLive
      <4>2. Node(x).kids > 0
        <5>1. Node(at).kids > 0
          BY <1>2, TypedFacts
        <5> QED BY <1>2, <3>3, <5>1, OpenHasKids
      <4>3. ~Spared(Node(x))
        BY <4>1, <4>2 DEF Spared, EmptyList, UncheckedList
      <4>4. Unbacked(x)'
        BY <3>3, <4>1, SameTree DEF Unbacked
      <4> QED BY <4>3, <4>4, SameTree DEF Broken
    <3> QED BY <3>2, <3>3
  <2> QED BY <2>1, <2>2
<1> QED BY <1>1, <1>7, <1>8, <1>10, <1>11 DEF IInv, WalkIsOver, Ends, CompleteAnswer

\* Out of a block that is filled.
LEMMA FinishKeeps ==
    ASSUME IInv, Building, at # <<>>, step = Node(at).kids, Leave(at),
           Node(Front(at)).kind \in UncheckedList => Front(at) \in live,
           stored' = stored \cup ({at} \cap live),
           UNCHANGED <<call, ret, live, failed, sent, pc>>
    PROVE  IInv'
<1>1. pc = "build" /\ ret = "go" /\ pc' = "build" /\ at' = Front(at) /\ step' = Last(at)
  BY DEF Building, Leave
<1>2. Typed /\ Walk /\ LiveIsReached /\ StoredIsPast /\ OpenIsLive
  BY <1>1 DEF IInv, Working, Walk
<1>3. /\ Front(at) \in DOMAIN call
      /\ Last(at) \in 0..Node(Front(at)).kids
      /\ \A x \in Blocks : Past(x, at', step') <=> Past(x, at, step) \/ Begins(at, x)
      /\ \A x \in Blocks : Begins(x, at') <=> Begins(x, at) /\ x # at
      /\ Begins(at, at)
  BY <1>1, <1>2, LeaveFacts
<1>4. at \in Blocks
  BY <1>2, TypedFacts
<1>5. Typed'
  <2>1. stored' \subseteq Blocks
    BY <1>2, <1>4 DEF Typed
  <2> QED BY <1>1, <1>2, <1>3, <2>1, SameTree DEF Typed
<1>6. Walk'
  <2>1. LiveIsReached'
    BY <1>2, <1>3 DEF LiveIsReached, Typed
  <2>2. StoredIsPast'
    <3>1. \A p \in stored' : p \in Blocks /\ (Past(p, at, step) \/ p = at)
      BY <1>2, <1>4 DEF StoredIsPast, Typed
    <3> QED BY <1>3, <3>1 DEF StoredIsPast
  <2>3. OpenIsLive'
    BY <1>2, <1>3, SameTree DEF OpenIsLive
  <2>4. NullIsEarned'
    BY <1>1 DEF NullIsEarned
  <2> QED BY <2>1, <2>2, <2>3, <2>4 DEF Walk
<1>7. Harmful' <=> Harmful
  BY SameTree DEF Harmful
<1>8. \A x \in Blocks : Linked(x) => Linked(x)'
  BY <1>3 DEF Linked
<1>9. ASSUME ~Harmful PROVE Whole'
  <2>1. Whole
    BY <1>1, <1>9 DEF IInv, Working
  <2>2. LiveIsLinked'
    BY <1>8, <2>1, SameTree DEF Whole, LiveIsLinked
  <2>3. (stored \subseteq live)'
    BY <2>1 DEF Whole
  <2>4. PastIsStored'
    <3>1. SUFFICES ASSUME NEW x \in Blocks, Past(x, at', step'), Front(x) = <<>> \/ Front(x) \in live
                   PROVE  x \in stored' \/ Spared(Node(x))
      BY SameTree DEF PastIsStored
    <3>2. CASE Past(x, at, step)
      BY <2>1, <3>1, <3>2 DEF Whole, PastIsStored
    <3>3. CASE x = at
      <4>1. at \in live \/ at \in failed
        BY <1>2, <1>3, <1>4 DEF OpenIsLive
      <4>2. at \in failed => Spared(Node(at))
        BY <1>9 DEF Harmful
      <4> QED BY <3>3, <4>1, <4>2
    <3>4. CASE Begins(at, x) /\ x # at
      <4>1. Past(x, at, step)
        BY <1>2, <3>4, TypedFacts, DoneIsPast
      <4> QED BY <3>2, <4>1
    <3> QED BY <1>3, <3>1, <3>2, <3>3, <3>4
  <2> QED BY <1>1, <2>2, <2>3, <2>4 DEF Whole
<1>10. ASSUME Harmful PROVE Broken'
  <2>1. PICK w \in Blocks : ~Spared(Node(w)) /\ (Missing(w) \/ Unbacked(w))
    BY <1>1, <1>10 DEF IInv, Working, Broken
  <2>2. ASSUME Missing(w) PROVE Missing(w)'
    <3>1. Past(w, at, step) /\ w \notin stored
      BY <2>2 DEF Missing
    <3>2. w # at
      BY <1>2, <1>3, <3>1, AtIsNotPast
    <3>3. w \notin stored' /\ Past(w, at', step')
      BY <1>3, <3>1, <3>2
    <3> QED BY <1>1, <1>8, <2>2, <3>3, SameTree DEF Missing
  <2>3. ASSUME Unbacked(w) PROVE Unbacked(w)'
    <3>1. w # at
      <4>1. SUFFICES ASSUME w = at PROVE FALSE
        OBVIOUS
      <4>2. step = 0 /\ Node(w).kind \in UncheckedList
        BY <1>1, <2>3, <4>1 DEF Unbacked
      <4>3. Spared(Node(w))
        BY <4>1, <4>2 DEF Spared, EmptyList, List, UncheckedList
      <4> QED BY <2>1, <4>3
    <3>2. Begins(w, at')
      BY <1>3, <2>3, <3>1 DEF Unbacked
    <3>3. w # at'
      BY <1>1, <2>3 DEF Unbacked
    <3> QED BY <2>3, <3>2, <3>3, SameTree DEF Unbacked
  <2> QED BY <2>1, <2>2, <2>3, SameTree DEF Broken
<1> QED BY <1>1, <1>5, <1>6, <1>7, <1>9, <1>10 DEF IInv, WalkIsOver, Ends, CompleteAnswer

\* Finish, with the pointer of the list that holds the block null.
LEMMA FinishCrash ==
    ASSUME IInv, Building, at # <<>>, Node(Front(at)).kind \in UncheckedList, Front(at) \notin live
    PROVE  Harmful
<1>1. Typed /\ OpenIsLive
  BY DEF IInv, Building, Working, Walk
<1>2. /\ Front(at) \in DOMAIN call
      /\ Last(at) \in 1..Node(Front(at)).kids
      /\ Node(Front(at)).kids \in Nat
      /\ \A x \in Blocks : Begins(x, Front(at)) <=> Begins(x, at) /\ x # at
  BY <1>1, LeaveFacts
<1>3. Front(at) # <<>>
  <2>1. SUFFICES ASSUME Front(at) = <<>> PROVE FALSE
    OBVIOUS
  <2>2. Node(Front(at)).kind = "call"
    BY <1>1, <2>1, TypedFacts, TreeFacts
  <2> QED BY <2>2 DEF UncheckedList
<1>4. Front(at) \in Blocks
  BY <1>2, <1>3 DEF Blocks
<1>5. Begins(Front(at), Front(at))
  BY <1>1, <1>4, TypedFacts, BeginsFacts
<1>6. Front(at) \in failed
  BY <1>1, <1>2, <1>4, <1>5 DEF OpenIsLive
<1>7. ~Spared(Node(Front(at)))
  BY <1>2 DEF Spared, EmptyList, UncheckedList
<1> QED BY <1>6, <1>7 DEF Harmful

\* Out of a block that answers NULL for want of a kid it needs, after a
\* cleanup below it.
LEMMA AbandonKeeps ==
    ASSUME IInv, KidFailed, NEW freed, Abandon(at, freed),
           Node(at).kind \notin Owner \cup {"call", "scope"},
           \A x \in freed : x \in Blocks /\ Begins(at, x)
    PROVE  IInv'
<1>1. /\ pc = "build" /\ ret = "null" /\ pc' = "build" /\ ret' = "null"
      /\ at' = Front(at) /\ step' = Last(at) /\ live' = live \ freed
      /\ call' = call /\ stored' = stored /\ failed' = failed /\ sent' = sent
  BY DEF KidFailed, Abandon, Leave
<1>2. Typed /\ Walk /\ LiveIsReached /\ StoredIsPast /\ OpenIsLive /\ NullIsEarned
  BY <1>1 DEF IInv, Working, Walk
<1>3. at # <<>>
  BY <1>2, TypedFacts, TreeFacts
<1>4. /\ Front(at) \in DOMAIN call
      /\ Last(at) \in 0..Node(Front(at)).kids /\ Last(at) > 0
      /\ \A x \in Blocks : Past(x, at', step') <=> Past(x, at, step) \/ Begins(at, x)
      /\ \A x \in Blocks : Begins(x, at') <=> Begins(x, at) /\ x # at
      /\ \A x \in Blocks : Begins(at, x) => ~Begins(x, at')
      /\ Begins(at, at)
  BY <1>1, <1>2, <1>3, LeaveFacts
<1>5. at \in Blocks
  BY <1>2, <1>3, TypedFacts
<1>6. Typed'
  <2>1. live' \subseteq Blocks
    BY <1>1, <1>2 DEF Typed
  <2> QED BY <1>1, <1>2, <1>4, <2>1, SameTree DEF Typed
<1>7. Harmful /\ step > 0
  BY <1>1, <1>2 DEF NullIsEarned
<1>8. Harmful'
  BY <1>1, <1>7, SameTree DEF Harmful
<1>9. Walk'
  <2>1. LiveIsReached'
    BY <1>1, <1>2, <1>4 DEF LiveIsReached, Typed
  <2>2. StoredIsPast'
    BY <1>1, <1>2, <1>4 DEF StoredIsPast, Typed
  <2>3. OpenIsLive'
    <3>1. SUFFICES ASSUME NEW p \in Blocks, Begins(p, at')
                   PROVE  p \in live' \/ (p \in failed /\ Node(p).kind \in UncheckedList)
      BY <1>1, SameTree DEF OpenIsLive
    <3>2. p \notin freed
      BY <1>4, <3>1
    <3> QED BY <1>1, <1>2, <1>4, <3>1, <3>2 DEF OpenIsLive
  <2>4. NullIsEarned'
    BY <1>1, <1>4, <1>8 DEF NullIsEarned
  <2> QED BY <2>1, <2>2, <2>3, <2>4 DEF Walk
<1>10. Broken'
  <2>1. CASE \A x \in Blocks : Begins(x, at') => x \in live
    <3>1. ~Spared(Node(at))
      BY <1>2, <1>7, TypedFacts DEF Spared, EmptyList, Typed
    <3>2. at \notin stored
      BY <1>2, <1>4, <1>5, AtIsNotPast DEF StoredIsPast
    <3>3. ASSUME NEW x \in Blocks, Begins(x, at), x # at PROVE Linked(x)'
      <4>1. Begins(x, at')
        BY <1>4, <3>3
      <4>2. x \in live'
        BY <1>1, <1>4, <2>1, <4>1
      <4> QED BY <4>1, <4>2 DEF Linked
    <3>4. PICK w \in Blocks : w = at
      BY <1>5
    <3>5. w \notin stored' /\ Past(w, at', step')
      BY <1>1, <1>4, <3>2, <3>4
    <3>6. \A x \in Blocks : Begins(x, w) /\ x # w => Linked(x)'
      BY <3>3, <3>4
    <3>7. Missing(w)'
      BY <1>1, <3>5, <3>6, SameTree DEF Missing
    <3> QED BY <1>1, <3>1, <3>4, <3>7, SameTree DEF Broken
  <2>2. ASSUME NEW x \in Blocks, Begins(x, at'), x \notin live PROVE Broken'
    <3>1. Begins(x, at) /\ x # at
      BY <1>4, <2>2
    <3>2. Node(x).kind \in UncheckedList
      BY <1>2, <2>2, <3>1 DEF OpenIsLive
    <3>3. Node(x).kids > 0
      BY <1>2, <3>1, OpenHasKids
    <3>4. ~Spared(Node(x))
      BY <3>2, <3>3 DEF Spared, EmptyList, UncheckedList
    <3>5. x \notin live'
      BY <1>1, <2>2
    <3>6. Unbacked(x)'
      BY <1>1, <2>2, <3>2, <3>5, SameTree DEF Unbacked
    <3> QED BY <1>1, <3>4, <3>6, SameTree DEF Broken
  <2> QED BY <2>1, <2>2
<1> QED BY <1>1, <1>6, <1>8, <1>9, <1>10 DEF IInv, WalkIsOver, Ends, CompleteAnswer

LEMMA KeepNullKeeps ==
    ASSUME IInv, KeepNull
    PROVE  IInv'
<1>1. /\ pc = "build" /\ pc' = "build" /\ ret' = "go"
      /\ Node(at).kind \in Owner
      /\ call' = call /\ at' = at /\ step' = step /\ live' = live
      /\ stored' = stored /\ failed' = failed /\ sent' = sent
  BY DEF KeepNull, KidFailed
<1>2. Typed /\ Walk /\ LiveIsReached /\ StoredIsPast /\ OpenIsLive
  BY <1>1 DEF IInv, Working, Walk
<1>3. Typed'
  BY <1>1, <1>2, SameTree DEF Typed
<1>4. Walk'
  BY <1>1, <1>2, SameTree DEF Walk, LiveIsReached, StoredIsPast, OpenIsLive, NullIsEarned
<1>5. Harmful' <=> Harmful
  BY <1>1, SameTree DEF Harmful
<1>6. ASSUME ~Harmful PROVE Whole'
  <2>1. Whole
    BY <1>1, <1>6 DEF IInv, Working
  <2> QED BY <1>1, <2>1, SameTree DEF Whole, LiveIsLinked, PastIsStored, Linked
<1>7. ASSUME Harmful PROVE Broken'
  <2>1. PICK w \in Blocks : ~Spared(Node(w)) /\ (Missing(w) \/ Unbacked(w))
    BY <1>1, <1>7 DEF IInv, Working, Broken
  <2>2. ASSUME Missing(w) PROVE Missing(w)'
    BY <1>1, <2>2, SameTree DEF Missing, Linked
  <2>3. ASSUME Unbacked(w) PROVE Unbacked(w)'
    <3>1. w # at
      BY <1>1, <2>3 DEF Unbacked, UncheckedList, Owner
    <3> QED BY <1>1, <2>3, <3>1, SameTree DEF Unbacked
  <2> QED BY <1>1, <2>1, <2>2, <2>3, SameTree DEF Broken
<1> QED BY <1>1, <1>3, <1>4, <1>5, <1>6, <1>7 DEF IInv, WalkIsOver, Ends, CompleteAnswer

\* What a destructor reaches is below the block that it starts at.
LEMMA ReachIsBelow ==
    ASSUME Typed, NEW path \in Blocks, NEW x \in Reach(path)
    PROVE  x \in Blocks /\ x \in live /\ Begins(path, x)
BY ReachFacts DEF Typed

LEMMA CleanUpKeeps ==
    ASSUME IInv, CleanUp
    PROVE  IInv'
<1>1. KidFailed /\ Node(at).kind \in Cleaner /\ Abandon(at, Reach(at)) /\ Typed
  BY DEF CleanUp, IInv
<1>2. Node(at).kind \notin Owner \cup {"call", "scope"}
  BY <1>1 DEF Cleaner, Owner
<1>3. at # <<>>
  BY <1>1, <1>2, TypedFacts, TreeFacts
<1>4. \A x \in Reach(at) : x \in Blocks /\ Begins(at, x)
  BY <1>1, <1>3, TypedFacts, ReachIsBelow
<1> QED BY <1>1, <1>2, <1>4, AbandonKeeps

LEMMA NoResourceSpanKeeps ==
    ASSUME IInv, NoResourceSpan
    PROVE  IInv'
<1>1. KidFailed /\ Node(at).kind = "resource_spans" /\ Abandon(at, {at}) /\ Typed
  BY DEF NoResourceSpan, IInv
<1>2. Node(at).kind \notin Owner \cup {"call", "scope"}
  BY <1>1 DEF Owner
<1>3. at # <<>>
  BY <1>1, <1>2, TypedFacts, TreeFacts
<1>4. \A x \in {at} : x \in Blocks /\ Begins(at, x)
  BY <1>1, <1>3, TypedFacts, BeginsFacts
<1> QED BY <1>1, <1>2, <1>4, AbandonKeeps

LEMMA NoElementKeeps ==
    ASSUME IInv, NoElement
    PROVE  IInv'
<1> DEFINE elements == {Kid(at, i) : i \in 1..Destroyed(Node(at).kind)}
<1>1. KidFailed /\ Node(at).kind \in {"spans", "scope_spans"} /\ Typed /\ NullIsEarned
  BY DEF NoElement, KidFailed, IInv, Walk, Working
<1>2. Node(at).kind \notin Owner \cup {"call", "scope"}
  BY <1>1 DEF Owner
<1>3. at # <<>>
  BY <1>1, <1>2, TypedFacts, TreeFacts
<1>4. \/ Crash /\ failed' = failed
      \/ Abandon(at, {})
      \/ Abandon(at, {at} \cup UNION {Reach(p) : p \in elements})
  BY DEF NoElement
<1>5. CASE Crash /\ failed' = failed
  <2>1. Harmful
    BY <1>1, <1>2 DEF NullIsEarned, KidFailed
  <2>2. Harmful' /\ failed' \subseteq Blocks
    BY <1>1, <1>5, <2>1, SameTree DEF Harmful, Crash, Typed
  <2> QED BY <1>1, <1>5, <2>2, CrashKeeps
<1>6. CASE Abandon(at, {})
  BY <1>1, <1>2, <1>6, AbandonKeeps
<1>7. CASE Abandon(at, {at} \cup UNION {Reach(p) : p \in elements})
  <2>1. ASSUME NEW x \in {at} \cup UNION {Reach(p) : p \in elements}
        PROVE  x \in Blocks /\ Begins(at, x)
    <3>1. CASE x = at
      BY <1>1, <1>3, <3>1, TypedFacts, BeginsFacts
    <3>2. CASE x # at
      <4>1. PICK i \in 1..Destroyed(Node(at).kind) : x \in Reach(Kid(at, i))
        BY <2>1, <3>2
      <4>2. i \in 1..Node(at).kids
        BY <1>1, <4>1, TypedFacts DEF Destroyed, Typed
      <4>3. Kid(at, i) \in Blocks
        BY <1>1, <4>2, TypedFacts, FrontKid
      <4>4. x \in Blocks /\ Begins(Kid(at, i), x)
        BY <1>1, <4>1, <4>3, ReachIsBelow
      <4>5. Begins(at, Kid(at, i))
        <5>1. at \in Seq(Nat) /\ i \in Nat
          BY <1>1, <4>2, TypedFacts
        <5> QED BY <5>1, BeginsKid, BeginsFacts
      <4>6. Begins(at, x)
        BY <1>1, <4>3, <4>4, <4>5, TypedFacts, BeginsFacts
      <4> QED BY <4>4, <4>6
    <3> QED BY <3>1, <3>2
  <2> QED BY <1>1, <1>2, <1>7, <2>1, AbandonKeeps
<1> QED BY <1>4, <1>5, <1>6, <1>7

LEMMA BuiltKeeps ==
    ASSUME IInv, Built
    PROVE  IInv'
<1>1. /\ pc = "build" /\ pc' = "size" /\ ret' = "go" /\ at = <<>> /\ step = 1
      /\ call' = call /\ at' = at /\ step' = step /\ live' = live
      /\ stored' = stored /\ failed' = failed /\ sent' = sent
  BY DEF Built
<1>2. Typed /\ Walk /\ LiveIsReached /\ StoredIsPast /\ OpenIsLive
  BY <1>1 DEF IInv, Working, Walk
<1>3. Typed'
  BY <1>1, <1>2, SameTree DEF Typed
<1>4. Walk'
  BY <1>1, <1>2, SameTree DEF Walk, LiveIsReached, StoredIsPast, OpenIsLive, NullIsEarned
<1>5. Harmful' <=> Harmful
  BY <1>1, SameTree DEF Harmful
<1>6. ASSUME ~Harmful PROVE Whole'
  <2>1. Whole
    BY <1>1, <1>6 DEF IInv, Working
  <2> QED BY <1>1, <2>1, SameTree DEF Whole, LiveIsLinked, PastIsStored, Linked
<1>7. ASSUME Harmful PROVE Broken'
  <2>1. PICK w \in Blocks : ~Spared(Node(w)) /\ (Missing(w) \/ Unbacked(w))
    BY <1>1, <1>7 DEF IInv, Working, Broken
  <2>2. Missing(w)
    BY <1>1, <1>2, <2>1, TypedFacts, AllIsPast DEF Unbacked
  <2>3. Missing(w)'
    BY <1>1, <2>2, SameTree DEF Missing, Linked
  <2> QED BY <1>1, <2>1, <2>3, SameTree DEF Broken
<1> QED BY <1>1, <1>3, <1>4, <1>5, <1>6, <1>7 DEF IInv, WalkIsOver, Ends, CompleteAnswer

-----------------------------------------------------------------------------
(* Packing and destroying: the walk is over.                               *)

LEMMA RequestIsABlock ==
    ASSUME call \in Requests
    PROVE  Request \in Blocks /\ Front(Request) = <<>> /\ ~Spared(Node(Request))
<1>1. 1 \in 1..Node(<<>>).kids /\ <<>> \in DOMAIN call /\ <<>> \in Seq(Nat)
  BY TreeFacts
<1>2. Kid(<<>>, 1) \in Blocks /\ Front(Kid(<<>>, 1)) = <<>>
  BY <1>1, FrontKid
<1>3. <<"call", Node(Kid(<<>>, 1)).kind>> \in Holds
  BY <1>1, TreeFacts
<1>4. Node(Kid(<<>>, 1)).kind = "request"
  BY <1>3 DEF Holds
<1>5. Kid(<<>>, 1) = Request
  BY DEF Kid, Request
<1> QED BY <1>2, <1>4, <1>5 DEF Spared, EmptyList, List

LEMMA NothingMissing ==
    ASSUME Typed, Whole, at = <<>>, step = 1, NEW tests, "scope" \in tests
    PROVE  /\ Request \in stored
           /\ ~Misses(Request, tests)
           /\ Reach(Request) = live
<1>1. Request \in Blocks /\ Front(Request) = <<>> /\ ~Spared(Node(Request)) /\ call \in Requests
  BY RequestIsABlock, TypedFacts
<1>2. \A x \in Blocks : Past(x, at, step) /\ Begins(Request, x) /\ ~Begins(x, at)
  BY <1>1, AllIsPast DEF Request
<1>3. Request \in stored
  BY <1>1, <1>2 DEF Whole, PastIsStored
<1>4. ~Misses(Request, tests)
  <2>1. SUFFICES ASSUME NEW p \in Reach(Request), NEW i \in 1..Node(p).kids,
                        Kid(p, i) \notin stored,
                        Node(Kid(p, i)).kind \notin tests, ~EmptyList(Node(Kid(p, i)))
                 PROVE  FALSE
    BY DEF Misses
  <2>2. p \in Blocks /\ p \in live
    BY <1>1, ReachIsBelow
  <2>3. Kid(p, i) \in Blocks /\ Front(Kid(p, i)) = p
    BY <1>1, <2>1, <2>2, TypedFacts, FrontKid
  <2>4. Spared(Node(Kid(p, i)))
    BY <1>2, <2>1, <2>2, <2>3 DEF Whole, PastIsStored
  <2> QED BY <2>1, <2>4 DEF Spared
<1>5. Reach(Request) = live
  <2>1. ASSUME NEW x \in live PROVE x \in Reach(Request)
    <3>1. x \in Blocks
      BY DEF Typed
    <3>2. ASSUME NEW y \in Blocks, Begins(y, x) PROVE y \in stored
      BY <1>2, <3>2 DEF Whole, LiveIsLinked, Linked
    <3> QED BY <1>1, <1>2, <3>1, <3>2, ReachFacts DEF Typed
  <2>2. ASSUME NEW x \in Reach(Request) PROVE x \in live
    BY <1>1, ReachIsBelow
  <2> QED BY <2>1, <2>2
<1> QED BY <1>3, <1>4, <1>5

\* Whoever walks down from the request meets the block that is missing.
LEMMA MissingIsMet ==
    ASSUME Typed, at = <<>>, step = 1, Request \in stored, NEW tests, ~Misses(Request, tests),
           NEW w \in Blocks, ~Spared(Node(w)), Missing(w)
    PROVE  Node(w).kind \in tests
<1>1. call \in Requests /\ Request \in Blocks /\ w \in Seq(Nat) /\ w # <<>>
  BY TypedFacts, RequestIsABlock
<1>2. w \notin stored /\ \A x \in Blocks : Begins(x, w) /\ x # w => Linked(x)
  BY DEF Missing
<1>3. /\ Front(w) \in DOMAIN call
      /\ Last(w) \in 1..Node(Front(w)).kids
      /\ Kid(Front(w), Last(w)) = w
  BY <1>1, TreeFacts
<1>4. Front(w) # <<>>
  <2>1. SUFFICES ASSUME Front(w) = <<>> PROVE FALSE
    OBVIOUS
  <2>2. Last(w) \in 1..1
    BY <1>1, <1>3, <2>1, TreeFacts
  <2>3. w = Request
    BY <1>3, <2>1, <2>2 DEF Kid, Request
  <2> QED BY <1>2, <2>3
<1>5. Front(w) \in Blocks
  BY <1>3, <1>4 DEF Blocks
<1>6. \A y \in Blocks : Begins(y, Front(w)) => y \in live /\ y \in stored
  <2>1. SUFFICES ASSUME NEW y \in Blocks, Begins(y, Front(w)) PROVE y \in live /\ y \in stored
    OBVIOUS
  <2>2. Begins(y, w) /\ y # w
    BY <1>1, <2>1, TypedFacts, AboveFacts
  <2>3. ~Begins(y, at)
    BY <1>1, AllIsPast
  <2> QED BY <1>2, <2>2, <2>3 DEF Linked
<1>7. Begins(Front(w), Front(w)) /\ Begins(Request, Front(w))
  BY <1>1, <1>5, TypedFacts, BeginsFacts, AllIsPast DEF Request
<1>8. Front(w) \in Reach(Request)
  BY <1>1, <1>5, <1>6, <1>7, ReachFacts DEF Typed
<1>9. ~EmptyList(Node(w))
  BY DEF Spared
<1> QED BY <1>2, <1>3, <1>8, <1>9 DEF Misses

LEMMA SizeKeeps ==
    ASSUME IInv, get_packed_size
    PROVE  IInv'
<1>1. pc = "size" /\ at = <<>> /\ step = 1 /\ failed' = failed /\ call' = call
  BY DEF get_packed_size, IInv, WalkIsOver, Crash
<1>2. Typed /\ Walk
  BY <1>1 DEF IInv, Working
<1>3. CASE Request \notin stored \/ Misses(Request, PackTests)
  <2>1. Crash
    BY <1>3 DEF get_packed_size
  <2>2. Harmful
    <3>1. SUFFICES ASSUME ~Harmful PROVE FALSE
      OBVIOUS
    <3>2. Whole
      BY <1>1, <3>1 DEF IInv, Working
    <3> QED BY <1>1, <1>2, <1>3, <3>2, NothingMissing DEF PackTests
  <2>3. Harmful' /\ failed' \subseteq Blocks
    BY <1>1, <1>2, <2>2, SameTree DEF Harmful, Typed
  <2> QED BY <1>2, <2>1, <2>3, CrashKeeps
<1>4. CASE Request \in stored /\ ~Misses(Request, PackTests)
  <2>1. /\ pc' = "pack" /\ call' = call /\ at' = at /\ step' = step /\ ret' = ret
        /\ live' = live /\ stored' = stored /\ sent' = sent
    BY <1>4 DEF get_packed_size
  <2>2. Typed'
    BY <1>1, <1>2, <2>1, SameTree DEF Typed
  <2>3. Walk'
    BY <1>1, <1>2, <2>1, SameTree DEF Walk, LiveIsReached, StoredIsPast, OpenIsLive, NullIsEarned
  <2>4. Harmful' <=> Harmful
    BY <1>1, SameTree DEF Harmful
  <2>5. ASSUME ~Harmful PROVE Whole'
    <3>1. Whole
      BY <1>1, <2>5 DEF IInv, Working
    <3> QED BY <1>1, <2>1, <3>1, SameTree DEF Whole, LiveIsLinked, PastIsStored, Linked
  <2>6. ASSUME Harmful PROVE Broken'
    <3>1. PICK w \in Blocks : ~Spared(Node(w)) /\ (Missing(w) \/ Unbacked(w))
      BY <1>1, <2>6 DEF IInv, Working, Broken
    <3>2. Missing(w)
      BY <1>1, <1>2, <3>1, TypedFacts, AllIsPast DEF Unbacked
    <3>3. Node(w).kind = "resource"
      <4>1. Node(w).kind \in PackTests
        BY <1>1, <1>2, <1>4, <3>1, <3>2, MissingIsMet
      <4> QED BY <3>1, <4>1 DEF PackTests, Spared
    <3>4. Missing(w)'
      BY <1>1, <2>1, <3>2, <3>3, SameTree DEF Missing, Linked
    <3> QED BY <1>1, <3>1, <3>4, SameTree DEF Broken
  <2>7. WalkIsOver'
    BY <1>1, <1>4, <2>1 DEF WalkIsOver
  <2> QED BY <2>1, <2>2, <2>3, <2>4, <2>5, <2>6, <2>7 DEF IInv, Ends, CompleteAnswer
<1> QED BY <1>3, <1>4

LEMMA PackKeeps ==
    ASSUME IInv, Pack
    PROVE  IInv'
<1>1. /\ pc = "pack" /\ pc' = "destroy" /\ at = <<>> /\ step = 1 /\ Request \in stored
      /\ call' = call /\ at' = at /\ step' = step /\ ret' = ret /\ live' = live
      /\ stored' = stored /\ failed' = failed
      /\ sent' \in {Reach(Request), {}}
  BY DEF Pack, IInv, WalkIsOver
<1>2. Typed /\ Walk
  BY <1>1 DEF IInv, Working
<1>3. Typed'
  <2>1. Reach(Request) \subseteq Blocks
    BY <1>2, RequestIsABlock, TypedFacts, ReachIsBelow
  <2> QED BY <1>1, <1>2, <2>1, SameTree DEF Typed
<1>4. Walk'
  BY <1>1, <1>2, SameTree DEF Walk, LiveIsReached, StoredIsPast, OpenIsLive, NullIsEarned
<1>5. Harmful' <=> Harmful
  BY <1>1, SameTree DEF Harmful
<1>6. ASSUME ~Harmful PROVE Whole'
  <2>1. Whole
    BY <1>1, <1>6 DEF IInv, Working
  <2>2. Reach(Request) = live
    BY <1>1, <1>2, <2>1, NothingMissing DEF PackTests
  <2> QED BY <1>1, <2>1, <2>2, SameTree DEF Whole, LiveIsLinked, PastIsStored, Linked
<1>7. ASSUME Harmful PROVE Broken'
  <2>1. PICK w \in Blocks : ~Spared(Node(w)) /\ (Missing(w) \/ Unbacked(w))
    BY <1>1, <1>7 DEF IInv, Working, Broken
  <2>2. Missing(w)
    BY <1>1, <1>2, <2>1, TypedFacts, AllIsPast DEF Unbacked
  <2>3. Missing(w)'
    BY <1>1, <2>2, SameTree DEF Missing, Linked
  <2> QED BY <1>1, <2>1, <2>3, SameTree DEF Broken
<1>8. WalkIsOver'
  BY <1>1 DEF WalkIsOver
<1> QED BY <1>1, <1>3, <1>4, <1>5, <1>6, <1>7, <1>8 DEF IInv, Ends, CompleteAnswer

LEMMA DestroyKeeps ==
    ASSUME IInv, destroy_export_service_request
    PROVE  IInv'
<1>1. /\ pc = "destroy" /\ at = <<>> /\ step = 1 /\ Request \in stored
      /\ failed' = failed /\ call' = call
  BY DEF destroy_export_service_request, IInv, WalkIsOver, Crash
<1>2. Typed /\ Walk
  BY <1>1 DEF IInv, Working
<1>3. ASSUME ~Harmful PROVE Whole
  BY <1>1, <1>3 DEF IInv, Working
<1>4. CASE Misses(Request, DestroyTests)
  <2>1. Crash
    BY <1>4 DEF destroy_export_service_request
  <2>2. Harmful
    BY <1>1, <1>2, <1>3, <1>4, NothingMissing DEF DestroyTests
  <2>3. Harmful' /\ failed' \subseteq Blocks
    BY <1>1, <1>2, <2>2, SameTree DEF Harmful, Typed
  <2> QED BY <1>2, <2>1, <2>3, CrashKeeps
<1>5. CASE ~Misses(Request, DestroyTests)
  <2>1. /\ live' = live \ Reach(Request)
        /\ pc' = IF sent = {} THEN "null" ELSE "ok"
        /\ at' = at /\ step' = step /\ ret' = ret /\ stored' = stored /\ sent' = sent
    BY <1>5 DEF destroy_export_service_request
  <2>2. ~Harmful
    <3>1. SUFFICES ASSUME Harmful PROVE FALSE
      OBVIOUS
    <3>2. PICK w \in Blocks : ~Spared(Node(w)) /\ (Missing(w) \/ Unbacked(w))
      BY <1>1, <3>1 DEF IInv, Working, Broken
    <3>3. Missing(w)
      BY <1>1, <1>2, <3>2, TypedFacts, AllIsPast DEF Unbacked
    <3>4. Node(w).kind \in DestroyTests
      BY <1>1, <1>2, <1>5, <3>2, <3>3, MissingIsMet
    <3> QED BY <1>1, <3>3, <3>4 DEF Missing, DestroyTests
  <2>3. Whole /\ Reach(Request) = live
    BY <1>1, <1>2, <1>3, <2>2, NothingMissing DEF DestroyTests
  <2>4. live' = {}
    BY <2>1, <2>3
  <2>5. ~Harmful'
    BY <1>1, <2>2, SameTree DEF Harmful
  <2>6. CompleteAnswer'
    <3>1. SUFFICES ASSUME pc' = "ok", NEW p \in sent, NEW i \in 1..Node(p).kids
                   PROVE  Kid(p, i) \in sent \/ Spared(Node(Kid(p, i)))
      BY <1>1, <2>1, SameTree DEF CompleteAnswer
    <3>2. sent = live
      BY <1>1, <2>1, <2>3, <3>1 DEF Whole
    <3>3. p \in Blocks /\ p \in live
      BY <1>2, <3>1, <3>2 DEF Typed
    <3>4. Kid(p, i) \in Blocks /\ Front(Kid(p, i)) = p
      BY <1>2, <3>1, <3>3, TypedFacts, FrontKid
    <3>5. Past(Kid(p, i), at, step)
      BY <1>1, <1>2, <3>4, TypedFacts, AllIsPast
    <3> QED BY <2>3, <3>2, <3>3, <3>4, <3>5 DEF Whole, PastIsStored
  <2>7. Typed'
    BY <1>1, <1>2, <2>1, SameTree DEF Typed
  <2> QED BY <2>1, <2>4, <2>5, <2>6, <2>7 DEF IInv, WalkIsOver, Working, Ends
<1> QED BY <1>4, <1>5

-----------------------------------------------------------------------------
(* The theorems.                                                           *)

LEMMA InitIInv ==
    ASSUME Init
    PROVE  IInv
<1>1. call \in Requests /\ at = <<>> /\ step = 0 /\ ret = "go" /\ pc = "build"
      /\ live = {} /\ stored = {} /\ failed = {} /\ sent = {}
  BY DEF Init
<1>2. Typed
  BY <1>1, TreeFacts DEF Typed
<1>3. ~Harmful
  BY <1>1 DEF Harmful
<1>4. Walk
  <2>1. \A p \in Blocks : ~Begins(p, at)
    BY <1>1, AllIsPast
  <2> QED BY <1>1, <2>1 DEF Walk, LiveIsReached, StoredIsPast, OpenIsLive, NullIsEarned
<1>5. Whole
  <2>1. ASSUME NEW x \in Blocks, Past(x, at, step) PROVE FALSE
    <3>1. x \in DOMAIN call /\ x \in Seq(Nat) /\ Len(x) \in Nat
      BY <1>2, TypedFacts, LenProperties
    <3>2. \A i \in 1..Len(x) : x[i] > 0 /\ x[i] \in Nat
      BY <1>1, <3>1, NumbersArePositive, ElementOfSeq
    <3>3. Len(at) = 0
      BY <1>1, EmptySeq
    <3> QED BY <1>1, <2>1, <3>1, <3>2, <3>3 DEF Past, Mark
  <2> QED BY <1>1, <2>1 DEF Whole, LiveIsLinked, PastIsStored
<1> QED BY <1>1, <1>2, <1>3, <1>4, <1>5 DEF IInv, WalkIsOver, Ends, CompleteAnswer, Working

LEMMA StepIInv ==
    ASSUME IInv, [Next]_vars
    PROVE  IInv'
<1>1. CASE Allocate
  <2>1. /\ Building /\ step < Node(at).kids /\ Enter(Kid(at, step + 1))
        /\ live' = live \cup {Kid(at, step + 1)} /\ failed' = failed
        /\ UNCHANGED <<call, ret, stored, sent, pc>>
    BY <1>1 DEF Allocate
  <2> QED BY <2>1, EnterKeeps
<1>2. CASE AllocationFails
  <2> DEFINE k == Kid(at, step + 1)
  <2>1. Building /\ step < Node(at).kids /\ failed' = failed \cup {k}
    BY <1>2 DEF AllocationFails
  <2>2. \/ Node(k).kind \in Unchecked /\ Crash
        \/ /\ Node(k).kind \in UncheckedList /\ Enter(k)
           /\ UNCHANGED <<call, ret, live, stored, sent, pc>>
        \/ /\ step' = step + 1 /\ ret' = "null"
           /\ UNCHANGED <<call, at, live, stored, sent, pc>>
    BY <1>2 DEF AllocationFails
  <2>3. CASE Node(k).kind \in Unchecked /\ Crash
    <3>1. Typed /\ call' = call
      BY <2>3 DEF IInv, Crash
    <3>2. ~Spared(Node(k))
      BY <2>3 DEF Spared, EmptyList, Unchecked, List
    <3>3. PICK w : w = k
      OBVIOUS
    <3>4. w \in Blocks
      BY <2>1, <3>1, <3>3, NextKidFacts
    <3>5. Harmful'
      BY <2>1, <3>1, <3>2, <3>3, SameTree DEF Harmful
    <3>6. failed' \subseteq Blocks
      BY <2>1, <3>1, <3>3, <3>4 DEF Typed
    <3> QED BY <2>3, <3>1, <3>5, <3>6, CrashKeeps
  <2>4. CASE /\ Node(k).kind \in UncheckedList /\ Enter(k)
             /\ UNCHANGED <<call, ret, live, stored, sent, pc>>
    BY <2>1, <2>4, EnterKeeps
  <2>5. CASE /\ step' = step + 1 /\ ret' = "null"
             /\ UNCHANGED <<call, at, live, stored, sent, pc>>
    BY <2>1, <2>5, SkipKeeps
  <2> QED BY <2>2, <2>3, <2>4, <2>5
<1>3. CASE Finish
  <2>1. Building /\ at # <<>> /\ step = Node(at).kids /\ failed' = failed
    BY <1>3 DEF Finish
  <2>2. CASE Node(Front(at)).kind \in UncheckedList /\ Front(at) \notin live /\ Crash
    <3>1. Harmful /\ Typed
      BY <2>1, <2>2, FinishCrash DEF IInv
    <3>2. Harmful' /\ failed' \subseteq Blocks
      BY <2>1, <2>2, <3>1, SameTree DEF Harmful, Crash, Typed
    <3> QED BY <2>2, <3>1, <3>2, CrashKeeps
  <2>3. CASE /\ Node(Front(at)).kind \in UncheckedList => Front(at) \in live
             /\ Leave(at)
             /\ stored' = stored \cup ({at} \cap live)
             /\ UNCHANGED <<call, ret, live, sent, pc>>
    BY <2>1, <2>3, FinishKeeps
  <2> QED BY <1>3, <2>2, <2>3 DEF Finish
<1>4. CASE UNCHANGED vars
  <2>1. /\ call' = call /\ at' = at /\ step' = step /\ ret' = ret /\ live' = live
        /\ stored' = stored /\ failed' = failed /\ sent' = sent /\ pc' = pc
    BY <1>4 DEF vars
  <2> QED BY <2>1 DEF IInv, Typed, WalkIsOver, Walk, LiveIsReached, StoredIsPast, OpenIsLive,
                      NullIsEarned, Working, Harmful, Whole, LiveIsLinked, PastIsStored, Linked,
                      Broken, Missing, Unbacked, Ends, CompleteAnswer, Spared, EmptyList,
                      Node, Blocks
<1> QED BY <1>1, <1>2, <1>3, <1>4, KeepNullKeeps, CleanUpKeeps, NoResourceSpanKeeps,
           NoElementKeeps, BuiltKeeps, SizeKeeps, PackKeeps, DestroyKeeps DEF Next

LEMMA AlwaysIInv == Spec => []IInv
<1>1. Init => IInv
  BY InitIInv
<1>2. IInv /\ [Next]_vars => IInv'
  BY StepIInv
<1> QED BY <1>1, <1>2, PTL DEF Spec

\* A call that comes back, with a message or without, has freed every block
\* of its request, whatever the context and whichever allocations failed:
\* ctr_encode_opentelemetry_create and the cleanups of the functions it calls
\* leak only in a call that crashes.
THEOREM EncoderLeavesNothing == Spec => []CleanExit
<1>1. IInv => CleanExit
  BY DEF IInv, Ends, CleanExit
<1> QED BY <1>1, AlwaysIInv, PTL

\* A message that is handed out lacks no block of the context but the scopes
\* that got no memory and the lists of no elements, for any context.
THEOREM EncoderSendsAll == Spec => []CompleteAnswer
<1>1. IInv => CompleteAnswer
  BY DEF IInv, Ends
<1> QED BY <1>1, AlwaysIInv, PTL

\* The encoder crashes only when a block was refused that it cannot go
\* without, and never comes back from a call in which one was.
THEOREM EncoderCrashesAreEarned == Spec => []CrashesAreEarned
<1>1. IInv => CrashesAreEarned
  BY DEF IInv, Ends, CrashesAreEarned, Harmful
<1> QED BY <1>1, AlwaysIInv, PTL
=============================================================================
