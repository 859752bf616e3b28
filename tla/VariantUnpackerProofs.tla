----------------------- MODULE VariantUnpackerProofs -----------------------
(***************************************************************************)
(* What VariantUnpacker promises, for messages of any length, nested to    *)
(* any depth, any tokens and any limits.                                   *)
(*                                                                         *)
(* Memory: every block has one owner, a list that is being read, the value *)
(* just read, or in the end the result.  Whoever gives up frees what it    *)
(* owns, so that a block is left without an owner only by the steps that   *)
(* drop one (IInv).                                                        *)
(*                                                                         *)
(* Meaning: the tokens that were read are those that the lists being read  *)
(* would be packed to, so far as they are known (RInv).  And as long as    *)
(* those tokens begin a message of this library, each of these lists is    *)
(* being read from a list of the value that the message is of: there is a  *)
(* path into that value, and the next token is the one that it holds there *)
(* (PInv).                                                                 *)
(***************************************************************************)
EXTENDS VariantRoundTrip, SequencesExt, SequenceTheorems, WellFoundedInduction, TLAPS

-----------------------------------------------------------------------------
(* Induction over the natural numbers, for a set of numbers, and what it   *)
(* says of FlattenSeq, which puts sequences one after the other.           *)

Less == OpToRel(<, Nat)

LEMMA LeastNumber ==
    ASSUME NEW S, S \subseteq Nat, S # {}
    PROVE  \E m \in S : \A n \in S : m <= n
<1>1. IsWellFoundedOn(Less, Nat)
  BY NatLessThanWellFounded DEF Less
<1>2. PICK m \in S : \A n \in S : <<n, m>> \notin Less
  BY <1>1, WFMin
<1>3. \A n \in S : n \in Nat /\ m \in Nat
  OBVIOUS
<1>4. \A n \in S : n < m => <<n, m>> \in Less
  BY <1>3 DEF Less, OpToRel
<1>5. ASSUME NEW n \in S PROVE m <= n
  <2>1. n \in Nat /\ m \in Nat /\ ~(n < m)
    BY <1>2, <1>3, <1>4
  <2> QED BY <2>1
<1> QED BY <1>5

LEMMA Induction ==
    ASSUME NEW S, 0 \in S, \A n \in Nat : n \in S => n + 1 \in S
    PROVE  Nat \subseteq S
<1> SUFFICES ASSUME Nat \ S # {} PROVE FALSE
  OBVIOUS
<1>1. PICK m \in Nat \ S : \A n \in Nat \ S : m <= n
  BY LeastNumber
<1>2. m # 0
  OBVIOUS
<1>3. m - 1 \in Nat /\ m - 1 \in S /\ (m - 1) + 1 = m
  BY <1>1, <1>2
<1> QED BY <1>3

-----------------------------------------------------------------------------
(* FlattenSeq.                                                             *)

\* f[i] is the first i sequences of s, one after the other.
Joins(f, s, n) == f = [i \in 1..n |-> IF i = 1 THEN s[i] ELSE f[i-1] \o s[i]]

LEMMA JoinsLonger ==
    ASSUME NEW s, NEW n \in Nat, NEW f, Joins(f, s, n)
    PROVE  \E g : Joins(g, s, n + 1)
<1> DEFINE g == [i \in 1..(n + 1) |-> IF i = 1 THEN s[i] ELSE f[i-1] \o s[i]]
<1>1. \A i \in 1..n : f[i] = IF i = 1 THEN s[i] ELSE f[i-1] \o s[i]
  BY DEF Joins
<1>2. \A i \in 1..n : i \in 1..(n + 1) /\ g[i] = f[i]
  BY <1>1
<1>3. \A i \in 1..(n + 1) : i # 1 => i - 1 \in 1..n
  OBVIOUS
<1>4. g = [i \in 1..(n + 1) |-> IF i = 1 THEN s[i] ELSE g[i-1] \o s[i]]
  BY <1>2, <1>3
<1> HIDE DEF g
<1>5. Joins(g, s, n + 1)
  BY <1>4 DEF Joins
<1> QED BY <1>5

LEMMA JoinsExists ==
    ASSUME NEW s, NEW n \in Nat
    PROVE  \E f : Joins(f, s, n)
<1> DEFINE S == {k \in Nat : \E f : Joins(f, s, k)}
<1>1. 0 \in S
  <2>1. [i \in 1..0 |-> s[i]] = [i \in 1..0 |-> IF i = 1 THEN s[i]
                                     ELSE [j \in 1..0 |-> s[j]][i-1] \o s[i]]
    OBVIOUS
  <2>2. Joins([i \in 1..0 |-> s[i]], s, 0)
    BY <2>1 DEF Joins
  <2> QED BY <2>2
<1>2. \A k \in Nat : k \in S => k + 1 \in S
  BY JoinsLonger
<1> HIDE DEF S
<1>3. Nat \subseteq S
  BY <1>1, <1>2, Induction
<1> QED BY <1>3 DEF S

BeginAlike(s, t, n) == \A i \in 1..n : s[i] = t[i]

\* Two sequences that begin alike are joined alike.
LEMMA JoinsAgree ==
    ASSUME NEW s, NEW t, NEW k \in Nat, NEW n \in Nat, k <= n, NEW f, NEW g,
           Joins(f, s, k), Joins(g, t, n), BeginAlike(s, t, k)
    PROVE  BeginAlike(f, g, k)
<1> DEFINE S == {j \in Nat : j \in 1..k => f[j] = g[j]}
<1>0. /\ \A i \in 1..k : f[i] = IF i = 1 THEN s[i] ELSE f[i-1] \o s[i]
      /\ \A i \in 1..n : g[i] = IF i = 1 THEN t[i] ELSE g[i-1] \o t[i]
  BY DEF Joins
<1>1. 0 \in S
  OBVIOUS
<1>2. ASSUME NEW j \in Nat, j \in S PROVE j + 1 \in S
  <2>1. SUFFICES ASSUME j + 1 \in 1..k PROVE f[j + 1] = g[j + 1]
    OBVIOUS
  <2>2. j + 1 \in 1..k /\ j + 1 \in 1..n /\ (j + 1) - 1 = j
    BY <2>1
  <2>3. j + 1 # 1 => j \in 1..k
    BY <2>1
  <2>4. j + 1 # 1 => f[j] = g[j]
    BY <1>2, <2>3
  <2>5. s[j + 1] = t[j + 1]
    BY <2>1 DEF BeginAlike
  <2>6. /\ f[j + 1] = IF j + 1 = 1 THEN s[j + 1] ELSE f[j] \o s[j + 1]
        /\ g[j + 1] = IF j + 1 = 1 THEN t[j + 1] ELSE g[j] \o t[j + 1]
    BY <1>0, <2>2
  <2> QED BY <2>4, <2>5, <2>6
<1> HIDE DEF S
<1>3. Nat \subseteq S
  BY <1>1, <1>2, Induction
<1> QED BY <1>3 DEF S, BeginAlike

LEMMA FlattenIsJoins ==
    ASSUME NEW T, NEW s \in Seq(T), s # <<>>
    PROVE  /\ Len(s) \in Nat \ {0}
           /\ \E f : Joins(f, s, Len(s)) /\ FlattenSeq(s) = f[Len(s)]
<1>1. Len(s) \in Nat \ {0}
  BY LenProperties, EmptySeq
<1> DEFINE f == CHOOSE f : f = [i \in 1..Len(s) |-> IF i = 1 THEN s[i] ELSE f[i-1] \o s[i]]
<1>2. \E h : h = [i \in 1..Len(s) |-> IF i = 1 THEN s[i] ELSE h[i-1] \o s[i]]
  BY <1>1, JoinsExists DEF Joins
<1>3. f = [i \in 1..Len(s) |-> IF i = 1 THEN s[i] ELSE f[i-1] \o s[i]]
  BY <1>2
<1>4. FlattenSeq(s) = f[Len(s)]
  BY <1>1 DEF FlattenSeq
<1> HIDE DEF f
<1>5. Joins(f, s, Len(s))
  BY <1>3 DEF Joins
<1> QED BY <1>1, <1>4, <1>5

LEMMA FlattenEmpty == FlattenSeq(<<>>) = <<>>
<1>1. Len(<<>>) = 0
  BY EmptySeq
<1> QED BY <1>1 DEF FlattenSeq

LEMMA FlattenAppend ==
    ASSUME NEW T, NEW s \in Seq(Seq(T)), NEW x \in Seq(T)
    PROVE  FlattenSeq(Append(s, x)) = FlattenSeq(s) \o x
<1> DEFINE a == Append(s, x)
<1>1. /\ a \in Seq(Seq(T)) /\ a # <<>> /\ Len(s) \in Nat /\ Len(a) = Len(s) + 1
      /\ \A i \in 1..Len(s) : a[i] = s[i]
      /\ a[Len(s) + 1] = x
  BY AppendProperties, LenProperties
<1> HIDE DEF a
<1>2. PICK g : Joins(g, a, Len(a)) /\ FlattenSeq(a) = g[Len(a)]
  BY <1>1, FlattenIsJoins
<1>3. \A i \in 1..Len(a) : g[i] = IF i = 1 THEN a[i] ELSE g[i-1] \o a[i]
  BY <1>2 DEF Joins
<1>4. CASE s = <<>>
  <2>1. Len(s) = 0 /\ Len(a) = 1 /\ g[1] = x
    BY <1>1, <1>3, <1>4, EmptySeq
  <2>2. FlattenSeq(s) = <<>> /\ <<>> \o x = x
    BY <1>4, FlattenEmpty, ConcatEmptySeq
  <2> QED BY <1>2, <2>1, <2>2 DEF a
<1>5. CASE s # <<>>
  <2>1. PICK f : Joins(f, s, Len(s)) /\ FlattenSeq(s) = f[Len(s)]
    BY <1>5, FlattenIsJoins
  <2>2. Len(s) \in Nat \ {0} /\ Len(s) <= Len(a)
    BY <1>1, <1>5, EmptySeq
  <2>3. f[Len(s)] = g[Len(s)]
    <3>1. \A i \in 1..Len(s) : f[i] = g[i]
      <4>0. PICK m : m = Len(s)
        OBVIOUS
      <4>1. PICK n : n = Len(a)
        OBVIOUS
      <4>2. m \in Nat /\ n \in Nat /\ m <= n
        BY <1>1, <2>2, <4>0, <4>1
      <4>3. BeginAlike(s, a, m)
        BY <1>1, <4>0 DEF BeginAlike
      <4>4. Joins(f, s, m) /\ Joins(g, a, n)
        BY <1>2, <2>1, <4>0, <4>1
      <4>5. BeginAlike(f, g, m)
        BY ONLY <4>2, <4>3, <4>4, JoinsAgree
      <4> QED BY <4>0, <4>5 DEF BeginAlike
    <3> QED BY <2>2, <3>1
  <2>4. Len(a) \in 1..Len(a) /\ Len(a) # 1 /\ Len(a) - 1 = Len(s)
    BY <1>1, <2>2
  <2>5. g[Len(a)] = g[Len(s)] \o x
    BY <1>1, <1>3, <2>4
  <2> QED BY <1>2, <2>1, <2>3, <2>5 DEF a
<1> QED BY <1>4, <1>5

LEMMA FlattenType ==
    ASSUME NEW T, NEW s \in Seq(Seq(T))
    PROVE  FlattenSeq(s) \in Seq(T)
<1>1. CASE s = <<>>
  BY <1>1, FlattenEmpty, EmptySeq
<1>2. CASE s # <<>>
  <2>1. PICK f : Joins(f, s, Len(s)) /\ FlattenSeq(s) = f[Len(s)]
    BY <1>2, FlattenIsJoins
  <2>2. Len(s) \in Nat \ {0}
    BY <1>2, LenProperties, EmptySeq
  <2> DEFINE S == {i \in Nat : i \in 1..Len(s) => f[i] \in Seq(T)}
  <2>3. \A i \in 1..Len(s) : f[i] = IF i = 1 THEN s[i] ELSE f[i-1] \o s[i]
    BY <2>1 DEF Joins
  <2>4. \A i \in 1..Len(s) : s[i] \in Seq(T)
    BY ElementOfSeq
  <2>5. 0 \in S
    BY <2>2
  <2>6. ASSUME NEW i \in Nat, i \in S PROVE i + 1 \in S
    <3>1. SUFFICES ASSUME i + 1 \in 1..Len(s) PROVE f[i + 1] \in Seq(T)
      OBVIOUS
    <3>2. f[i + 1] = IF i + 1 = 1 THEN s[i + 1] ELSE f[(i + 1) - 1] \o s[i + 1]
      BY <2>3, <3>1
    <3>3. (i + 1) - 1 = i /\ (i + 1 # 1 => i \in 1..Len(s))
      BY <2>2, <3>1
    <3>4. i + 1 # 1 => f[i] \in Seq(T)
      BY <2>6, <3>3
    <3>5. s[i + 1] \in Seq(T)
      BY <2>4, <3>1
    <3> QED BY <3>2, <3>3, <3>4, <3>5, ConcatProperties
  <2> HIDE DEF S
  <2>7. Nat \subseteq S
    BY <2>5, <2>6, Induction
  <2> QED BY <2>1, <2>2, <2>7 DEF S
<1> QED BY <1>1, <1>2

\* A sequence of sequences that is another one and one more.
LEMMA FlattenLonger ==
    ASSUME NEW T, NEW d \in Seq(Seq(T)), NEW e \in Seq(Seq(T)), NEW n \in Nat, Len(d) = n,
           Len(e) = n + 1, BeginAlike(d, e, n)
    PROVE  FlattenSeq(e) = FlattenSeq(d) \o e[n + 1]
<1>1. e[n + 1] \in Seq(T)
  BY ElementOfSeq
<1>2. /\ Append(d, e[n + 1]) \in Seq(Seq(T))
      /\ Len(Append(d, e[n + 1])) = n + 1
      /\ \A i \in 1..n : Append(d, e[n + 1])[i] = d[i]
      /\ Append(d, e[n + 1])[n + 1] = e[n + 1]
  BY <1>1, AppendProperties
<1>3. \A i \in 1..(n + 1) : Append(d, e[n + 1])[i] = e[i]
  BY <1>2 DEF BeginAlike
<1>4. e = Append(d, e[n + 1])
  BY <1>2, <1>3, SeqEqual
<1> QED BY <1>1, <1>4, FlattenAppend

-----------------------------------------------------------------------------
(* The reader.                                                             *)

\* A list that is being read has the fields of Frame.
IsFrame(f) ==
    /\ f = [type |-> f.type, count |-> f.count, left |-> f.left, key |-> f.key,
            keys |-> f.keys, kids |-> f.kids, blocks |-> f.blocks]
    /\ f.type \in {"array", "kvlist"}

Forgotten == starved \cap {"variant of data", "variant of list", "append"} # {}

Typed ==
    /\ \E S : stack \in Seq(S)
    /\ \A i \in 1..Len(stack) : IsFrame(stack[i])
    /\ next \in Nat
    /\ \A b \in live : b \in Nat /\ b < next
    /\ code \in Int

OneOwner ==
    /\ \A i \in 1..Len(stack) : \A b \in stack[i].blocks : b \in live
    /\ \A i, j \in 1..Len(stack) : \A b \in stack[i].blocks : b \in stack[j].blocks => i = j
    /\ phase = "got" =>
          /\ \A b \in blocks : b \in live
          /\ \A i \in 1..Len(stack) : \A b \in stack[i].blocks : b \notin blocks

Owned(b) ==
    \/ \E i \in 1..Len(stack) : b \in stack[i].blocks
    \/ b \in blocks /\ (phase = "got" \/ (phase = "done" /\ code = 0))

\* Where a call stands, and what it is to answer.
Course ==
    /\ phase \in Phase
    /\ phase \in {"value", "got", "list"} => code = 0
    /\ phase \in {"failed", "broken"} => code # 0
    /\ code = 0 => ~Forgotten
    /\ phase = "done" => stack = <<>> /\ (code = 0 => \A b \in blocks : b \in live)
    /\ phase \in {"got", "list", "failed", "broken"} => stack # <<>>

IInv ==
    /\ Typed
    /\ OneOwner
    /\ ~Forgotten => \A b \in live : Owned(b)
    /\ Course

-----------------------------------------------------------------------------
(* The stack.                                                              *)

LEMMA PushFacts ==
    ASSUME NEW S, NEW s \in Seq(S), NEW f
    PROVE  /\ Append(s, f) \in Seq(S \cup {f})
           /\ Append(s, f) # <<>>
           /\ Len(s) \in Nat
           /\ Len(Append(s, f)) = Len(s) + 1
           /\ \A i \in 1..Len(s) : Append(s, f)[i] = s[i]
           /\ Append(s, f)[Len(s) + 1] = f
<1> DEFINE T == S \cup {f}
<1>1. s \in Seq(T)
  BY SeqMonotonic
<1>2. f \in T
  OBVIOUS
<1> HIDE DEF T
<1>3. Append(s, f) \in Seq(T)
  BY <1>1, <1>2, AppendProperties
<1> QED BY <1>1, <1>2, <1>3, AppendProperties, LenProperties DEF T

LEMMA PopFacts ==
    ASSUME NEW S, NEW s \in Seq(S), s # <<>>
    PROVE  /\ Front(s) \in Seq(S)
           /\ Len(s) \in Nat \ {0}
           /\ Len(Front(s)) = Len(s) - 1
           /\ Len(s) = 1 => Front(s) = <<>>
           /\ Len(s) # 1 => Front(s) # <<>>
           /\ \A i \in 1..(Len(s) - 1) : Front(s)[i] = s[i]
           /\ Last(s) = s[Len(s)]
<1>1. Len(s) \in Nat /\ Len(s) \in Nat \ {0}
  BY LenProperties, EmptySeq
<1>2. \A i \in 1..(Len(s) - 1) : s[i] \in S
  BY <1>1, ElementOfSeq
<1> DEFINE n == Len(s) - 1
<1>3. n \in Int /\ 1 \in Int /\ n >= 0 /\ Len(s) = n + 1
  BY <1>1
<1>4. /\ SubSeq(s, 1, n) \in Seq(S)
      /\ Len(SubSeq(s, 1, n)) = IF 1 <= n THEN n - 1 + 1 ELSE 0
      /\ \A i \in 1..(n - 1 + 1) : SubSeq(s, 1, n)[i] = s[1 + i - 1]
  BY <1>2, <1>3, SubSeqProperties
<1> HIDE DEF n
<1>5. Len(SubSeq(s, 1, n)) = n
  BY <1>3, <1>4
<1>6. \A i \in 1..n : SubSeq(s, 1, n)[i] = s[i]
  BY <1>3, <1>4
<1>7. n = 0 => SubSeq(s, 1, n) = <<>>
  BY <1>4, <1>5, EmptySeq
<1>8. n # 0 => SubSeq(s, 1, n) # <<>>
  BY <1>5, EmptySeq
<1>9. Last(s) = s[Len(s)]
  BY DEF Last
<1>10. Front(s) = SubSeq(s, 1, n) /\ Len(s) - 1 = n
  BY DEF Front, n
<1> QED BY <1>1, <1>3, <1>4, <1>5, <1>6, <1>7, <1>8, <1>9, <1>10

\* The innermost list replaced.
LEMMA SwapFacts ==
    ASSUME NEW S, NEW s \in Seq(S), s # <<>>, NEW f, NEW r, r = Append(Front(s), f)
    PROVE  /\ r \in Seq(S \cup {f})
           /\ r # <<>>
           /\ Len(r) = Len(s)
           /\ \A i \in 1..(Len(s) - 1) : r[i] = s[i]
           /\ r[Len(s)] = f
           /\ Len(s) \in Nat \ {0}
           /\ Last(s) = s[Len(s)]
<1> DEFINE t == Front(s)
<1>1. /\ t \in Seq(S) /\ Len(s) \in Nat \ {0} /\ Len(t) = Len(s) - 1
      /\ \A i \in 1..(Len(s) - 1) : t[i] = s[i]
      /\ Last(s) = s[Len(s)]
  BY PopFacts
<1>0. r = Append(t, f)
  OBVIOUS
<1> HIDE DEF t
<1>2. /\ Append(t, f) \in Seq(S \cup {f})
      /\ Append(t, f) # <<>>
      /\ Len(Append(t, f)) = Len(t) + 1
      /\ \A i \in 1..Len(t) : Append(t, f)[i] = t[i]
      /\ Append(t, f)[Len(t) + 1] = f
  BY <1>1, PushFacts
<1>3. /\ Append(t, f) \in Seq(S \cup {f})
      /\ Append(t, f) # <<>>
      /\ Len(Append(t, f)) = Len(s)
      /\ \A i \in 1..(Len(s) - 1) : Append(t, f)[i] = s[i]
      /\ Append(t, f)[Len(s)] = f
  BY <1>1, <1>2
<1> QED BY <1>0, <1>1, <1>3

LEMMA TopFacts ==
    ASSUME Typed, stack # <<>>
    PROVE  /\ Len(stack) \in Nat \ {0}
           /\ Top = stack[Len(stack)]
           /\ IsFrame(Top)
<1>1. PICK S : stack \in Seq(S)
  BY DEF Typed
<1>2. Len(stack) \in Nat \ {0} /\ Last(stack) = stack[Len(stack)]
  BY <1>1, PopFacts
<1> QED BY <1>2 DEF Top, Typed

-----------------------------------------------------------------------------
(* What the actions do to the blocks.                                      *)

\* An error is raised, with no block more but a forgotten one.
LEMMA RaiseKeeps ==
    ASSUME IInv, phase # "done", NEW p \in {"failed", "broken"}, NEW c \in Int \ {0},
           Raise(IF stack = <<>> THEN "done" ELSE p, c),
           stack' = stack, blocks' = blocks,
           starved \subseteq starved',
           \/ live' = live /\ next' = next
           \/ live' = live \cup {next} /\ next' = next + 1 /\ Forgotten',
           phase = "got" => Forgotten'
    PROVE  IInv'
<1>1. Typed /\ OneOwner /\ Course
  BY DEF IInv
<1>2. code' = c /\ phase' = IF stack = <<>> THEN "done" ELSE p
  BY DEF Raise
<1>3. live \subseteq live'
  OBVIOUS
<1>4. Typed'
  <2>1. next' \in Nat /\ \A b \in live' : b \in Nat /\ b < next'
    BY <1>1 DEF Typed
  <2> QED BY <1>1, <1>2, <2>1 DEF Typed
<1>5. OneOwner'
  BY <1>1, <1>2, <1>3 DEF OneOwner
<1>6. ASSUME ~Forgotten', NEW b \in live' PROVE Owned(b)'
  <2>1. live' = live /\ phase # "got" /\ ~Forgotten
    BY <1>6 DEF Forgotten
  <2>2. Owned(b)
    BY <1>6, <2>1 DEF IInv
  <2> QED BY <2>1, <2>2 DEF Owned
<1>7. Course'
  BY <1>2 DEF Course, Phase
<1> QED BY <1>4, <1>5, <1>6, <1>7 DEF IInv

\* A value is there, in blocks of its own.
LEMMA DeliverKeeps ==
    ASSUME IInv, phase = "value", stack # <<>>, NEW v, NEW own, Deliver(v, own),
           \A b \in own : b \in {next, next + 1}
    PROVE  IInv'
<1>1. Typed /\ OneOwner /\ Course
  BY DEF IInv
<1>2. /\ phase' = "got" /\ blocks' = own /\ live' = live \cup own /\ next' = next + 2
      /\ stack' = stack /\ code' = code /\ starved' = starved
  BY DEF Deliver
<1>3. code = 0 /\ ~Forgotten /\ ~Forgotten'
  BY <1>1, <1>2 DEF Course, Forgotten
<1>4. Typed'
  <2>1. next' \in Nat /\ \A b \in live' : b \in Nat /\ b < next'
    BY <1>1, <1>2 DEF Typed
  <2> QED BY <1>1, <1>2, <2>1 DEF Typed
<1>5. \A b \in own : b \notin live
  BY <1>1 DEF Typed
<1>6. OneOwner'
  BY <1>1, <1>2, <1>5 DEF OneOwner
<1>7. ASSUME NEW b \in live' PROVE Owned(b)'
  <2>1. CASE b \in own
    BY <1>2, <2>1 DEF Owned
  <2>2. CASE b \in live
    <3>1. Owned(b)
      BY <1>3, <2>2 DEF IInv
    <3> QED BY <1>2, <3>1 DEF Owned
  <2> QED BY <1>2, <1>7, <2>1, <2>2
<1>8. Course'
  BY <1>2, <1>3 DEF Course, Phase
<1> QED BY <1>4, <1>6, <1>7, <1>8 DEF IInv

LEMMA FrameIsFrame ==
    ASSUME NEW type \in {"array", "kvlist"}, NEW left, NEW block
    PROVE  IsFrame(Frame(type, left, block)) /\ Frame(type, left, block).blocks = {block}
BY DEF IsFrame, Frame

LEMMA OpenListKeeps ==
    ASSUME IInv, phase = "value", NEW type \in {"array", "kvlist"}, NEW t, OpenList(type, t)
    PROVE  IInv'
<1> DEFINE f == Frame(type, t.n, next)
<1>1. Typed /\ OneOwner /\ Course
  BY DEF IInv
<1>2. /\ phase' = "list" /\ stack' = Append(stack, f) /\ live' = live \cup {next}
      /\ next' = next + 1 /\ blocks' = blocks /\ code' = code /\ starved' = starved
  BY DEF OpenList
<1>3. IsFrame(f) /\ f.blocks = {next}
  BY FrameIsFrame
<1> HIDE DEF f
<1>0. PICK S : stack \in Seq(S)
  BY <1>1 DEF Typed
<1>4. /\ stack' \in Seq(S \cup {f})
      /\ stack' # <<>>
      /\ Len(stack) \in Nat
      /\ Len(stack') = Len(stack) + 1
      /\ \A i \in 1..Len(stack) : stack'[i] = stack[i]
      /\ stack'[Len(stack) + 1] = f
  BY <1>0, <1>2, PushFacts
<1>5. code = 0 /\ ~Forgotten /\ ~Forgotten'
  BY <1>1, <1>2 DEF Course, Forgotten
<1>6. \A i \in 1..Len(stack') : i \in 1..Len(stack) \/ i = Len(stack) + 1
  BY <1>4
<1>7. next \notin live
  BY <1>1 DEF Typed
<1>8. Typed'
  <2>1. next' \in Nat /\ \A b \in live' : b \in Nat /\ b < next'
    BY <1>1, <1>2 DEF Typed
  <2>2. \A i \in 1..Len(stack') : IsFrame(stack'[i])
    BY <1>1, <1>3, <1>4, <1>6 DEF Typed
  <2> QED BY <1>1, <1>2, <1>4, <2>1, <2>2 DEF Typed, IsFrame
<1>9. OneOwner'
  <2>1. \A i \in 1..Len(stack') : \A b \in stack'[i].blocks : b \in live'
    BY <1>1, <1>2, <1>3, <1>4, <1>6 DEF OneOwner
  <2>2. ASSUME NEW i \in 1..Len(stack'), NEW j \in 1..Len(stack'),
               NEW b \in stack'[i].blocks, b \in stack'[j].blocks
        PROVE  i = j
    <3>1. \A k \in 1..Len(stack) : b \in stack'[k].blocks => b # next
      BY <1>1, <1>4, <1>7 DEF OneOwner
    <3>2. CASE i \in 1..Len(stack) /\ j \in 1..Len(stack)
      BY <1>1, <1>4, <2>2, <3>2 DEF OneOwner
    <3>3. CASE i = Len(stack) + 1 /\ j \in 1..Len(stack)
      BY <1>3, <1>4, <2>2, <3>1, <3>3
    <3>4. CASE i \in 1..Len(stack) /\ j = Len(stack) + 1
      BY <1>3, <1>4, <2>2, <3>1, <3>4
    <3> QED BY <1>6, <3>2, <3>3, <3>4
  <2> QED BY <1>2, <2>1, <2>2 DEF OneOwner
<1>10. ASSUME NEW b \in live' PROVE Owned(b)'
  <2>1. CASE b = next
    <3>1. Len(stack) + 1 \in 1..Len(stack')
      BY <1>4
    <3> QED BY <1>3, <1>4, <2>1, <3>1 DEF Owned
  <2>2. CASE b \in live
    <3>1. PICK i \in 1..Len(stack) : b \in stack[i].blocks
      BY <1>5, <2>2 DEF IInv, Owned
    <3>2. i \in 1..Len(stack')
      BY <1>4
    <3> QED BY <1>4, <3>1, <3>2 DEF Owned
  <2> QED BY <1>2, <1>10, <2>1, <2>2
<1>11. Course'
  BY <1>2, <1>4, <1>5 DEF Course, Phase
<1> QED BY <1>8, <1>9, <1>10, <1>11 DEF IInv

\* The innermost list changes, and takes the blocks of the value just read
\* or none.
LEMMA SwapKeeps ==
    ASSUME IInv, stack # <<>>, NEW f, IsFrame(f),
           stack' = Append(Below, f),
           \/ phase \in {"list"} /\ phase' \in {"value"} /\ f.blocks = Top.blocks
           \/ phase = "got" /\ phase' = "list" /\ f.blocks = Top.blocks \cup blocks,
           UNCHANGED <<blocks, code, live, next, starved>>
    PROVE  IInv'
<1>1. Typed /\ OneOwner /\ Course
  BY DEF IInv
<1>2. PICK S : stack \in Seq(S)
  BY <1>1 DEF Typed
<1>3. /\ stack' \in Seq(S \cup {f})
      /\ stack' # <<>>
      /\ Len(stack') = Len(stack)
      /\ \A i \in 1..(Len(stack) - 1) : stack'[i] = stack[i]
      /\ stack'[Len(stack)] = f
      /\ Len(stack) \in Nat \ {0}
      /\ Top = stack[Len(stack)]
  <2>1. stack' = Append(Front(stack), f) /\ Top = Last(stack)
    BY DEF Below, Top
  <2>2. stack # <<>>
    OBVIOUS
  <2>3. \A r : r = Append(Front(stack), f) =>
          /\ r \in Seq(S \cup {f})
          /\ r # <<>>
          /\ Len(r) = Len(stack)
          /\ \A i \in 1..(Len(stack) - 1) : r[i] = stack[i]
          /\ r[Len(stack)] = f
          /\ Len(stack) \in Nat \ {0}
          /\ Last(stack) = stack[Len(stack)]
    BY ONLY <1>2, <2>2, SwapFacts
  <2> QED BY ONLY <2>1, <2>3
<1>4. \A i \in 1..Len(stack) : i \in 1..(Len(stack) - 1) \/ i = Len(stack)
  BY <1>3
<1>5. code = 0 /\ ~Forgotten /\ ~Forgotten'
  BY <1>1 DEF Course, Forgotten
<1>6. Typed'
  BY <1>1, <1>3, <1>4 DEF Typed, IsFrame
<1>7. \A i \in 1..Len(stack) : \A b \in stack'[i].blocks :
          b \in stack[i].blocks \/ (i = Len(stack) /\ phase = "got" /\ b \in blocks)
  BY <1>3, <1>4
<1>8. OneOwner'
  <2>1. \A i \in 1..Len(stack') : \A b \in stack'[i].blocks : b \in live'
    BY <1>1, <1>3, <1>7 DEF OneOwner
  <2>2. ASSUME NEW i \in 1..Len(stack'), NEW j \in 1..Len(stack'),
               NEW b \in stack'[i].blocks, b \in stack'[j].blocks
        PROVE  i = j
    <3>1. i \in 1..Len(stack) /\ j \in 1..Len(stack)
      BY <1>3
    <3>2. b \in stack[i].blocks \/ (i = Len(stack) /\ phase = "got" /\ b \in blocks)
      BY <1>7, <3>1
    <3>3. b \in stack[j].blocks \/ (j = Len(stack) /\ phase = "got" /\ b \in blocks)
      BY <1>7, <2>2, <3>1
    <3> QED BY <1>1, <3>1, <3>2, <3>3 DEF OneOwner
  <2> QED BY <2>1, <2>2 DEF OneOwner
<1>9. ASSUME NEW b \in live' PROVE Owned(b)'
  <2>1. Owned(b)
    BY <1>5, <1>9 DEF IInv
  <2>2. CASE \E i \in 1..Len(stack) : b \in stack[i].blocks
    <3>1. PICK i \in 1..Len(stack) : b \in stack[i].blocks
      BY <2>2
    <3>2. b \in stack'[i].blocks
      BY <1>3, <1>4, <3>1
    <3> QED BY <1>3, <3>2 DEF Owned
  <2>3. CASE phase = "got" /\ b \in blocks
    <3>1. b \in stack'[Len(stack)].blocks
      BY <1>3, <2>3
    <3> QED BY <1>3, <3>1 DEF Owned
  <2> QED BY <1>1, <2>1, <2>2, <2>3 DEF Owned, Course
<1>10. Course'
  BY <1>1, <1>3, <1>5 DEF Course, Phase
<1> QED BY <1>6, <1>8, <1>9, <1>10 DEF IInv

\* What a list pops: the lists below it, which own what they owned.
LEMMA BelowFacts ==
    ASSUME Typed, stack # <<>>
    PROVE  /\ Len(stack) \in Nat \ {0}
           /\ \E S : Below \in Seq(S)
           /\ Len(Below) = Len(stack) - 1
           /\ Len(stack) = 1 => Below = <<>>
           /\ Len(stack) # 1 => Below # <<>>
           /\ \A i \in 1..(Len(stack) - 1) : Below[i] = stack[i]
           /\ Top = stack[Len(stack)]
           /\ IsFrame(Top)
<1>1. PICK S : stack \in Seq(S)
  BY DEF Typed
<1>2. /\ Front(stack) \in Seq(S)
      /\ Len(stack) \in Nat \ {0}
      /\ Len(Front(stack)) = Len(stack) - 1
      /\ Len(stack) = 1 => Front(stack) = <<>>
      /\ Len(stack) # 1 => Front(stack) # <<>>
      /\ \A i \in 1..(Len(stack) - 1) : Front(stack)[i] = stack[i]
      /\ Last(stack) = stack[Len(stack)]
  BY <1>1, PopFacts
<1>3. Below = Front(stack) /\ Top = Last(stack)
  BY DEF Below, Top
<1>4. \E T : Below \in Seq(T)
  BY <1>2, <1>3
<1>5. IsFrame(Top)
  BY TopFacts
<1> QED BY <1>2, <1>3, <1>4, <1>5

-----------------------------------------------------------------------------
(* The steps that bring a value, or fail to.                               *)

LEMMA EndOfInputKeeps ==
    ASSUME IInv, EndOfInput
    PROVE  IInv'
<1>1. -1 \in Int \ {0} /\ "failed" \in {"failed", "broken"}
  OBVIOUS
<1>2. /\ phase # "done" /\ phase # "got"
      /\ Raise(IF stack = <<>> THEN "done" ELSE "failed", -1)
      /\ stack' = stack /\ blocks' = blocks /\ starved \subseteq starved'
      /\ live' = live /\ next' = next
  BY DEF EndOfInput
<1> QED BY <1>1, <1>2, RaiseKeeps

LEMMA UnsupportedKeeps ==
    ASSUME IInv, Unsupported
    PROVE  IInv'
<1>1. -1 \in Int \ {0} /\ "failed" \in {"failed", "broken"}
  OBVIOUS
<1>2. /\ phase # "done" /\ phase # "got"
      /\ Raise(IF stack = <<>> THEN "done" ELSE "failed", -1)
      /\ stack' = stack /\ blocks' = blocks /\ starved \subseteq starved'
      /\ live' = live /\ next' = next
  BY DEF Unsupported, WantsValue
<1> QED BY <1>1, <1>2, RaiseKeeps

LEMMA StringKeeps ==
    ASSUME IInv, NEW tag, NEW type, unpack_cfl_variant_string(tag, type)
    PROVE  IInv'
<1>1. /\ -3 \in Int \ {0} /\ -4 \in Int \ {0} /\ -5 \in Int \ {0}
      /\ "failed" \in {"failed", "broken"}
  OBVIOUS
<1>2. phase = "value" /\ stack # <<>> /\ phase # "done" /\ phase # "got"
  BY DEF unpack_cfl_variant_string, WantsValue
<1>3. CASE \E c \in {-3, -4} :
              /\ Raise("failed", c) /\ starved \subseteq starved'
              /\ stack' = stack /\ blocks' = blocks /\ live' = live /\ next' = next
  <2>1. PICK c \in {-3, -4} :
              /\ Raise("failed", c) /\ starved \subseteq starved'
              /\ stack' = stack /\ blocks' = blocks /\ live' = live /\ next' = next
    BY <1>3
  <2>2. Raise(IF stack = <<>> THEN "done" ELSE "failed", c) /\ c \in Int \ {0}
    BY <1>2, <2>1
  <2> QED BY <1>1, <1>2, <2>1, <2>2, RaiseKeeps
<1>4. CASE /\ Raise("failed", -5) /\ Hungry("variant of data")
           /\ live' = live \cup {next} /\ next' = next + 1
           /\ stack' = stack /\ blocks' = blocks
  <2>1. Forgotten' /\ starved \subseteq starved'
    BY <1>4 DEF Hungry, Forgotten
  <2>2. Raise(IF stack = <<>> THEN "done" ELSE "failed", -5)
    BY <1>2, <1>4
  <2> QED BY <1>1, <1>2, <1>4, <2>1, <2>2, RaiseKeeps
<1>5. CASE \E v : Deliver(v, {next, next + 1})
  BY <1>2, <1>5, DeliverKeeps
<1>6. PICK t \in Token :
        \/ /\ Raise("failed", -3) /\ Hungry("data")
           /\ UNCHANGED <<err, stack, got, blocks, live, next>>
        \/ /\ Raise("failed", -4)
           /\ UNCHANGED <<stack, got, blocks, live, next, starved>>
        \/ /\ Raise("failed", -5) /\ Hungry("variant of data")
           /\ live' = live \cup {next} /\ next' = next + 1
           /\ UNCHANGED <<err, stack, got, blocks>>
        \/ Deliver(Scalar(type, t.n), {next, next + 1})
  BY DEF unpack_cfl_variant_string
<1>7. CASE Deliver(Scalar(type, t.n), {next, next + 1})
  BY <1>5, <1>7
<1>8. CASE \/ /\ Raise("failed", -3) /\ Hungry("data")
              /\ UNCHANGED <<err, stack, got, blocks, live, next>>
           \/ /\ Raise("failed", -4)
              /\ UNCHANGED <<stack, got, blocks, live, next, starved>>
  <2>1. \E c \in {-3, -4} :
              /\ Raise("failed", c) /\ starved \subseteq starved'
              /\ stack' = stack /\ blocks' = blocks /\ live' = live /\ next' = next
    BY <1>8 DEF Hungry
  <2> QED BY <1>3, <2>1
<1> QED BY <1>4, <1>6, <1>7, <1>8

LEMMA ScalarKeeps ==
    ASSUME IInv, NEW v, phase = "value", stack # <<>>,
           \/ /\ Raise("failed", -3) /\ Hungry("scalar")
              /\ UNCHANGED <<err, stack, got, blocks, live, next>>
           \/ Deliver(v, {next})
    PROVE  IInv'
<1>1. -3 \in Int \ {0} /\ "failed" \in {"failed", "broken"}
  OBVIOUS
<1>2. CASE /\ Raise("failed", -3) /\ Hungry("scalar")
           /\ UNCHANGED <<err, stack, got, blocks, live, next>>
  <2>1. /\ Raise(IF stack = <<>> THEN "done" ELSE "failed", -3)
        /\ starved \subseteq starved' /\ phase # "done" /\ phase # "got"
        /\ stack' = stack /\ blocks' = blocks /\ live' = live /\ next' = next
    BY <1>2 DEF Hungry
  <2> QED BY <1>1, <2>1, RaiseKeeps
<1>3. CASE Deliver(v, {next})
  BY <1>3, DeliverKeeps
<1> QED BY <1>2, <1>3

LEMMA ArrayKeeps ==
    ASSUME IInv, unpack_cfl_array
    PROVE  IInv'
<1>1. /\ -2 \in Int \ {0} /\ -3 \in Int \ {0} /\ "failed" \in {"failed", "broken"}
      /\ "array" \in {"array", "kvlist"}
  OBVIOUS
<1>2. phase = "value" /\ stack # <<>> /\ phase # "done" /\ phase # "got"
  BY DEF unpack_cfl_array, WantsValue
<1>3. PICK t \in Token :
        \/ /\ Raise("failed", -2)
           /\ UNCHANGED <<err, stack, got, blocks, live, next, starved>>
        \/ /\ Raise("failed", -3) /\ Hungry("list")
           /\ UNCHANGED <<err, stack, got, blocks, live, next>>
        \/ OpenList("array", t)
  BY DEF unpack_cfl_array
<1>4. CASE OpenList("array", t)
  BY <1>1, <1>2, <1>4, OpenListKeeps
<1>5. CASE \/ /\ Raise("failed", -2)
              /\ UNCHANGED <<err, stack, got, blocks, live, next, starved>>
           \/ /\ Raise("failed", -3) /\ Hungry("list")
              /\ UNCHANGED <<err, stack, got, blocks, live, next>>
  <2>1. PICK c \in {-2, -3} : Raise("failed", c)
    BY <1>5
  <2>2. /\ starved \subseteq starved' /\ stack' = stack /\ blocks' = blocks
        /\ live' = live /\ next' = next
    BY <1>5 DEF Hungry
  <2>3. Raise(IF stack = <<>> THEN "done" ELSE "failed", c) /\ c \in Int \ {0}
    BY <1>2, <2>1
  <2> QED BY <1>1, <1>2, <2>2, <2>3, RaiseKeeps
<1> QED BY <1>3, <1>4, <1>5

LEMMA KvlistKeeps ==
    ASSUME IInv, unpack_cfl_kvlist
    PROVE  IInv'
<1>1. /\ -2 \in Int \ {0} /\ -3 \in Int \ {0} /\ "failed" \in {"failed", "broken"}
      /\ "kvlist" \in {"array", "kvlist"}
  OBVIOUS
<1>2. phase = "value" /\ phase # "done" /\ phase # "got"
  BY DEF unpack_cfl_kvlist
<1>3. PICK t \in Token :
        \/ /\ Raise(IF stack = <<>> THEN "done" ELSE "failed", -3) /\ Hungry("list")
           /\ UNCHANGED <<err, stack, got, blocks, live, next>>
        \/ OpenList("kvlist", t)
        \/ /\ stack = <<>> /\ Raise("done", -2)
           /\ UNCHANGED <<err, stack, got, blocks, live, next, starved>>
  BY DEF unpack_cfl_kvlist
<1>4. CASE OpenList("kvlist", t)
  BY <1>1, <1>2, <1>4, OpenListKeeps
<1>5. CASE \/ /\ Raise(IF stack = <<>> THEN "done" ELSE "failed", -3) /\ Hungry("list")
              /\ UNCHANGED <<err, stack, got, blocks, live, next>>
           \/ /\ stack = <<>> /\ Raise("done", -2)
              /\ UNCHANGED <<err, stack, got, blocks, live, next, starved>>
  <2>1. PICK c \in {-2, -3} : Raise(IF stack = <<>> THEN "done" ELSE "failed", c)
    BY <1>5
  <2>2. /\ starved \subseteq starved' /\ stack' = stack /\ blocks' = blocks
        /\ live' = live /\ next' = next
    BY <1>5 DEF Hungry
  <2>3. c \in Int \ {0}
    BY <2>1
  <2> QED BY <1>1, <1>2, <2>1, <2>2, <2>3, RaiseKeeps
<1> QED BY <1>3, <1>4, <1>5

-----------------------------------------------------------------------------
(* The steps of a list.                                                    *)

LEMMA ReadKeyKeeps ==
    ASSUME IInv, ReadKey
    PROVE  IInv'
<1>1. Typed /\ OneOwner /\ Course
  BY DEF IInv
<1>2. phase = "list" /\ stack # <<>> /\ UNCHANGED <<blocks, live, next, starved>>
  BY <1>1 DEF ReadKey, Course
<1>3. CASE \E c \in {-4, -5, -6} : Raise("broken", c) /\ UNCHANGED stack
  <2>1. PICK c \in {-4, -5, -6} : Raise("broken", c) /\ UNCHANGED stack
    BY <1>3
  <2>2. c \in Int \ {0} /\ "broken" \in {"failed", "broken"}
    OBVIOUS
  <2>3. Raise(IF stack = <<>> THEN "done" ELSE "broken", c)
    BY <1>2, <2>1
  <2>4. /\ phase # "done" /\ phase # "got" /\ starved \subseteq starved'
        /\ stack' = stack /\ blocks' = blocks /\ live' = live /\ next' = next
    BY <1>2, <2>1
  <2> QED BY <2>2, <2>3, <2>4, RaiseKeeps
<1>4. CASE \E t \in Token : /\ stack' = Append(Below, [Top EXCEPT !.key = t.n])
                            /\ phase' = "value" /\ code' = code
  <2>1. PICK t \in Token : /\ stack' = Append(Below, [Top EXCEPT !.key = t.n])
                           /\ phase' = "value" /\ code' = code
    BY <1>4
  <2>2. PICK f : f = [Top EXCEPT !.key = t.n]
    OBVIOUS
  <2>3. IsFrame(Top)
    BY <1>1, <1>2, TopFacts
  <2>4. IsFrame(f) /\ f.blocks = Top.blocks
    BY <2>2, <2>3 DEF IsFrame
  <2>5. /\ stack' = Append(Below, f)
        /\ phase \in {"list"} /\ phase' \in {"value"}
        /\ UNCHANGED <<blocks, code, live, next, starved>>
    BY <1>2, <2>1, <2>2
  <2> QED BY <1>2, <2>4, <2>5, SwapKeeps
<1>5. \/ Raise("broken", -4) /\ UNCHANGED stack
      \/ Raise("broken", -5) /\ UNCHANGED stack
      \/ Raise("broken", -6) /\ UNCHANGED stack
      \/ \E t \in Token : /\ stack' = Append(Below, [Top EXCEPT !.key = t.n])
                          /\ phase' = "value" /\ code' = code
  BY DEF ReadKey
<1> QED BY <1>3, <1>4, <1>5

LEMMA NextElementKeeps ==
    ASSUME IInv, NextElement
    PROVE  IInv'
<1>1. /\ phase = "list" /\ phase' = "value"
      /\ UNCHANGED <<stack, blocks, code, live, next, starved>>
  BY DEF NextElement
<1>2. Typed'
  BY <1>1 DEF IInv, Typed, IsFrame
<1>3. OneOwner'
  BY <1>1 DEF IInv, OneOwner
<1>4. ASSUME ~Forgotten', NEW b \in live' PROVE Owned(b)'
  BY <1>1, <1>4 DEF IInv, Forgotten, Owned
<1>5. Course'
  BY <1>1 DEF IInv, Course, Forgotten, Phase
<1> QED BY <1>2, <1>3, <1>4, <1>5 DEF IInv

LEMMA AddKeeps ==
    ASSUME IInv, Add
    PROVE  IInv'
<1>1. Typed /\ OneOwner /\ Course
  BY DEF IInv
<1>2. /\ phase = "got" /\ phase' = "list" /\ stack # <<>>
      /\ UNCHANGED <<blocks, code, live, next, starved>>
  BY <1>1 DEF Add, Course
<1>3. PICK f : f = [Top EXCEPT !.left = @ - 1,
                               !.keys = Append(@, Top.key),
                               !.kids = Append(@, got),
                               !.blocks = @ \cup blocks]
  OBVIOUS
<1>4. stack' = Append(Below, f)
  BY <1>3 DEF Add
<1>5. IsFrame(Top)
  BY <1>1, <1>2, TopFacts
<1>6. IsFrame(f) /\ f.blocks = Top.blocks \cup blocks
  BY <1>3, <1>5 DEF IsFrame
<1> QED BY <1>2, <1>4, <1>6, SwapKeeps

LEMMA AppendFailsKeeps ==
    ASSUME IInv, AppendFails
    PROVE  IInv'
<1>1. phase = "got" /\ stack # <<>>
  BY DEF AppendFails, IInv, Course
<1>2. Forgotten' /\ starved \subseteq starved'
  BY DEF AppendFails, Hungry, Forgotten
<1>3. -5 \in Int \ {0} /\ "broken" \in {"failed", "broken"}
  OBVIOUS
<1>4. /\ phase # "done"
      /\ Raise(IF stack = <<>> THEN "done" ELSE "broken", -5)
      /\ stack' = stack /\ blocks' = blocks /\ live' = live /\ next' = next
  BY <1>1 DEF AppendFails
<1> QED BY <1>2, <1>3, <1>4, RaiseKeeps

LEMMA InsertFailsKeeps ==
    ASSUME IInv, InsertFails
    PROVE  IInv'
<1>1. Typed /\ OneOwner /\ Course
  BY DEF IInv
<1>2. /\ phase = "got" /\ stack # <<>> /\ phase' = "broken" /\ code' = -8
      /\ starved' = starved \cup {"insert"} /\ live' = live \ blocks
      /\ stack' = stack /\ blocks' = blocks /\ next' = next
  BY <1>1 DEF InsertFails, Raise, Hungry, Course
<1>3. Typed'
  BY <1>1, <1>2 DEF Typed, IsFrame
<1>4. OneOwner'
  BY <1>1, <1>2 DEF OneOwner
<1>5. ASSUME ~Forgotten', NEW b \in live' PROVE Owned(b)'
  <2>1. Owned(b)
    BY <1>2, <1>5 DEF IInv, Forgotten
  <2> QED BY <1>2, <1>5, <2>1 DEF Owned
<1>6. Course'
  BY <1>2 DEF Course, Phase
<1> QED BY <1>3, <1>4, <1>5, <1>6 DEF IInv

\* The innermost list is gone from the stack.
LEMMA PopKeeps ==
    ASSUME Typed, OneOwner, stack # <<>>, stack' = Below
    PROVE  /\ \E S : stack' \in Seq(S)
           /\ \A i \in 1..Len(stack') : /\ IsFrame(stack'[i])
                                        /\ i \in 1..Len(stack)
                                        /\ stack'[i] = stack[i]
                                        /\ \A b \in stack'[i].blocks : /\ b \in live
                                                                       /\ b \notin Top.blocks
           /\ \A i \in 1..Len(stack) : \A b \in stack[i].blocks :
                 \/ b \in Top.blocks
                 \/ \E j \in 1..Len(stack') : b \in stack'[j].blocks
           /\ Len(stack) = 1 <=> stack' = <<>>
<1>1. /\ Len(stack) \in Nat \ {0}
      /\ \E S : stack' \in Seq(S)
      /\ Len(stack') = Len(stack) - 1
      /\ Len(stack) = 1 <=> stack' = <<>>
      /\ \A i \in 1..(Len(stack) - 1) : stack'[i] = stack[i]
      /\ Top = stack[Len(stack)]
  BY BelowFacts
<1>2. ASSUME NEW i \in 1..Len(stack')
      PROVE  /\ IsFrame(stack'[i])
             /\ i \in 1..Len(stack)
             /\ stack'[i] = stack[i]
             /\ \A b \in stack'[i].blocks : b \in live /\ b \notin Top.blocks
  <2>1. i \in 1..Len(stack) /\ i # Len(stack) /\ stack'[i] = stack[i]
    BY <1>1
  <2>2. Len(stack) \in 1..Len(stack)
    BY <1>1
  <2>3. \A b \in stack[i].blocks : b \in live /\ b \notin Top.blocks
    BY <1>1, <2>1, <2>2 DEF OneOwner
  <2>4. IsFrame(stack[i])
    BY <2>1 DEF Typed
  <2> QED BY <2>1, <2>3, <2>4
<1>3. ASSUME NEW i \in 1..Len(stack), NEW b \in stack[i].blocks, b \notin Top.blocks
      PROVE  \E j \in 1..Len(stack') : b \in stack'[j].blocks
  <2>1. i # Len(stack)
    BY <1>1, <1>3
  <2>2. i \in 1..Len(stack') /\ stack'[i] = stack[i]
    BY <1>1, <2>1
  <2> QED BY <2>2
<1> QED BY <1>1, <1>2, <1>3

LEMMA CloseListKeeps ==
    ASSUME IInv, CloseList
    PROVE  IInv'
<1>1. Typed /\ OneOwner /\ Course
  BY DEF IInv
<1>2. phase = "list" /\ stack # <<>> /\ stack' = Below
  BY <1>1 DEF CloseList, Course
<1>3. code = 0 /\ ~Forgotten
  BY <1>1, <1>2 DEF Course
<1>4. /\ \E S : stack' \in Seq(S)
      /\ \A i \in 1..Len(stack') : /\ IsFrame(stack'[i])
                                   /\ i \in 1..Len(stack)
                                   /\ stack'[i] = stack[i]
                                   /\ \A b \in stack'[i].blocks : /\ b \in live
                                                                  /\ b \notin Top.blocks
      /\ \A i \in 1..Len(stack) : \A b \in stack[i].blocks :
            \/ b \in Top.blocks
            \/ \E j \in 1..Len(stack') : b \in stack'[j].blocks
      /\ Len(stack) = 1 <=> stack' = <<>>
  BY <1>1, <1>2, PopKeeps
<1>5. \A i, j \in 1..Len(stack') : \A b \in stack'[i].blocks : b \in stack'[j].blocks => i = j
  BY <1>1, <1>4 DEF OneOwner
<1>6. \A b \in Top.blocks : b \in live
  <2>1. Len(stack) \in 1..Len(stack) /\ Top = stack[Len(stack)]
    BY <1>1, <1>2, TopFacts
  <2> QED BY <1>1, <2>1 DEF OneOwner
<1>7. \A b \in live : \E i \in 1..Len(stack) : b \in stack[i].blocks
  BY <1>2, <1>3 DEF IInv, Owned
<1>8. CASE /\ Len(stack) = 1 /\ phase' = "done" /\ blocks' = Top.blocks
           /\ UNCHANGED <<code, live, next, starved>>
  <2>1. Typed'
    BY <1>1, <1>4, <1>8 DEF Typed
  <2>2. OneOwner'
    BY <1>4, <1>5, <1>8 DEF OneOwner
  <2>3. ASSUME NEW b \in live' PROVE Owned(b)'
    BY <1>3, <1>4, <1>7, <1>8 DEF Owned
  <2>4. Course'
    BY <1>3, <1>4, <1>6, <1>8 DEF Course, Phase, Forgotten
  <2> QED BY <2>1, <2>2, <2>3, <2>4 DEF IInv
<1>9. CASE /\ Len(stack) # 1 /\ phase' = "got" /\ blocks' = Top.blocks \cup {next}
           /\ live' = live \cup {next} /\ next' = next + 1
           /\ UNCHANGED <<code, starved>>
  <2>1. next \in Nat /\ next \notin live
    BY <1>1 DEF Typed
  <2>2. Typed'
    <3>1. next' \in Nat /\ \A b \in live' : b \in Nat /\ b < next'
      BY <1>1, <1>9 DEF Typed
    <3> QED BY <1>1, <1>4, <1>9, <3>1 DEF Typed
  <2>3. OneOwner'
    BY <1>4, <1>5, <1>6, <1>9, <2>1 DEF OneOwner
  <2>4. ASSUME NEW b \in live' PROVE Owned(b)'
    BY <1>4, <1>7, <1>9 DEF Owned
  <2>5. Course'
    BY <1>3, <1>4, <1>9 DEF Course, Phase, Forgotten
  <2> QED BY <2>2, <2>3, <2>4, <2>5 DEF IInv
<1>10. CASE /\ Len(stack) # 1 /\ Raise("failed", -3) /\ Hungry("variant of list")
            /\ UNCHANGED <<blocks, live, next>>
  <2>0. -3 \in Int \ {0}
    OBVIOUS
  <2>1. /\ phase' = "failed" /\ code' \in Int \ {0} /\ Forgotten' /\ Len(stack) # 1
        /\ blocks' = blocks /\ live' = live /\ next' = next
    BY <1>10, <2>0 DEF Raise, Hungry, Forgotten
  <2>2. Typed'
    BY <1>1, <1>4, <2>1 DEF Typed
  <2>3. OneOwner'
    BY <1>4, <1>5, <2>1 DEF OneOwner
  <2>4. Course'
    BY <1>4, <2>1 DEF Course, Phase
  <2> QED BY <2>1, <2>2, <2>3, <2>4 DEF IInv
<1> QED BY <1>8, <1>9, <1>10 DEF CloseList

\* A list that gives up frees what it owns, and no other list's.
LEMMA GiveUpKeeps ==
    ASSUME IInv, GiveUp
    PROVE  IInv'
<1>1. Typed /\ OneOwner /\ Course
  BY DEF IInv
<1>2. /\ phase \in {"failed", "broken"} /\ stack # <<>> /\ code \in Int \ {0}
      /\ stack' = Below /\ live' = live \ Top.blocks /\ code' = Answer
      /\ phase' = IF Len(stack) = 1 THEN "done" ELSE "failed"
      /\ UNCHANGED <<blocks, next, starved>>
  BY <1>1 DEF GiveUp, Course, Typed
<1>3. Answer \in Int \ {0}
  <2>1. CASE phase = "failed"
    BY <2>1 DEF Answer
  <2>2. CASE phase = "broken"
    BY <1>2, <2>2 DEF Answer
  <2> QED BY <1>2, <2>1, <2>2
<1>4. /\ \E S : stack' \in Seq(S)
      /\ \A i \in 1..Len(stack') : /\ IsFrame(stack'[i])
                                   /\ i \in 1..Len(stack)
                                   /\ stack'[i] = stack[i]
                                   /\ \A b \in stack'[i].blocks : /\ b \in live
                                                                  /\ b \notin Top.blocks
      /\ \A i \in 1..Len(stack) : \A b \in stack[i].blocks :
            \/ b \in Top.blocks
            \/ \E j \in 1..Len(stack') : b \in stack'[j].blocks
      /\ Len(stack) = 1 <=> stack' = <<>>
  BY <1>1, <1>2, PopKeeps
<1>5. Typed'
  BY <1>1, <1>2, <1>3, <1>4 DEF Typed
<1>6. OneOwner'
  <2>1. \A i, j \in 1..Len(stack') : \A b \in stack'[i].blocks :
            b \in stack'[j].blocks => i = j
    BY <1>1, <1>4 DEF OneOwner
  <2> QED BY <1>2, <1>4, <2>1 DEF OneOwner
<1>7. ASSUME ~Forgotten', NEW b \in live' PROVE Owned(b)'
  <2>1. Owned(b)
    BY <1>2, <1>7 DEF IInv, Forgotten
  <2> QED BY <1>2, <1>4, <1>7, <2>1 DEF Owned
<1>8. Course'
  BY <1>2, <1>3, <1>4 DEF Course, Phase
<1> QED BY <1>5, <1>6, <1>7, <1>8 DEF IInv

-----------------------------------------------------------------------------
(* The theorem.                                                            *)

LEMMA InitIInv == Init => IInv
<1> SUFFICES ASSUME Init PROVE IInv
  OBVIOUS
<1>1. stack = <<>> /\ Len(stack) = 0 /\ stack \in Seq({})
  BY EmptySeq DEF Init
<1> QED BY <1>1 DEF Init, IInv, Typed, OneOwner, Course, Phase, Forgotten

LEMMA StepIInv == IInv /\ [Next]_vars => IInv'
<1> SUFFICES ASSUME IInv, [Next]_vars PROVE IInv'
  OBVIOUS
<1>1. CASE EndOfInput
  BY <1>1, EndOfInputKeeps
<1>2. CASE Unsupported
  BY <1>2, UnsupportedKeeps
<1>3. CASE \/ unpack_cfl_variant_string("str", "string")
           \/ unpack_cfl_variant_string("bin", "bytes")
  BY <1>3, StringKeeps
<1>4. CASE \/ unpack_cfl_variant_scalar("bool", "bool", Same)
           \/ unpack_cfl_variant_scalar("uint", "int", AsInt64)
           \/ unpack_cfl_variant_scalar("int", "int", Same)
           \/ unpack_cfl_variant_scalar("double", "double", Same)
  <2>1. PICK v : \/ /\ Raise("failed", -3) /\ Hungry("scalar")
                    /\ UNCHANGED <<err, stack, got, blocks, live, next>>
                 \/ Deliver(v, {next})
    BY <1>4 DEF unpack_cfl_variant_scalar
  <2>2. phase = "value" /\ stack # <<>>
    BY <1>4 DEF unpack_cfl_variant_scalar, WantsValue
  <2> QED BY <2>1, <2>2, ScalarKeeps
<1>5. CASE unpack_cfl_array
  BY <1>5, ArrayKeeps
<1>6. CASE unpack_cfl_kvlist
  BY <1>6, KvlistKeeps
<1>7. CASE ReadKey
  BY <1>7, ReadKeyKeeps
<1>8. CASE NextElement
  BY <1>8, NextElementKeeps
<1>9. CASE Add
  BY <1>9, AddKeeps
<1>10. CASE AppendFails
  BY <1>10, AppendFailsKeeps
<1>11. CASE InsertFails
  BY <1>11, InsertFailsKeeps
<1>12. CASE CloseList
  BY <1>12, CloseListKeeps
<1>13. CASE GiveUp
  BY <1>13, GiveUpKeeps
<1>14. CASE UNCHANGED vars
  <2>1. Typed'
    BY <1>14 DEF vars, IInv, Typed, IsFrame
  <2>2. OneOwner'
    BY <1>14 DEF vars, IInv, OneOwner
  <2>3. (~Forgotten => \A b \in live : Owned(b))'
    BY <1>14 DEF vars, IInv, Owned, Forgotten
  <2>4. Course'
    BY <1>14 DEF vars, IInv, Course, Forgotten, Phase
  <2> QED BY <2>1, <2>2, <2>3, <2>4 DEF IInv
<1> QED
  BY <1>1, <1>2, <1>3, <1>4, <1>5, <1>6, <1>7, <1>8, <1>9, <1>10, <1>11, <1>12, <1>13,
     <1>14 DEF Next

LEMMA IInvEarns == IInv => LeaksAreEarned
<1> SUFFICES ASSUME IInv, phase = "done" PROVE LeaksAreEarned
  BY DEF LeaksAreEarned, Done
<1>1. stack = <<>> /\ Len(stack) = 0
  BY EmptySeq DEF IInv, Course
<1>2. \A b : Owned(b) => b \in blocks /\ code = 0
  BY <1>1 DEF Owned
<1>3. code = 0 => live = blocks
  BY <1>2 DEF IInv, Course
<1>4. code # 0 /\ live # {} => Forgotten
  BY <1>2 DEF IInv
<1> QED BY <1>3, <1>4 DEF LeaksAreEarned, Forgotten

\* When the reading of attributes is over, the blocks that are left are those
\* of the result, or none if it failed, unless the variant for data that was
\* read, the variant for a nested list, or the room for one more element of a
\* long array could not be allocated (unpack_cfl_variant_string, _binary,
\* _array, _kvlist and unpack_cfl_array): whatever the message, however deep
\* its lists, and wherever memory runs out.
THEOREM AttributesLeakNothingElse == Spec => []LeaksAreEarned
<1>1. Init => IInv
  BY InitIInv
<1>2. IInv /\ [Next]_vars => IInv'
  BY StepIInv
<1>3. IInv => LeaksAreEarned
  BY IInvEarns
<1> QED BY <1>1, <1>2, <1>3, PTL DEF Spec

-----------------------------------------------------------------------------
(* The tokens of a value, by its depth.                                    *)

Upto(depth) == DOMAIN Packed[depth]

Piles(f, n) == f = [d \in 0..n |-> Around(IF d = 0 THEN <<>> ELSE f[d - 1])]

LEMMA PilesHigher ==
    ASSUME NEW n \in Nat, NEW f, Piles(f, n)
    PROVE  \E g : Piles(g, n + 1)
<1> DEFINE g == [d \in 0..(n + 1) |-> Around(IF d = 0 THEN <<>> ELSE f[d - 1])]
<1>1. \A d \in 0..n : f[d] = Around(IF d = 0 THEN <<>> ELSE f[d - 1])
  BY DEF Piles
<1>2. \A d \in 0..n : d \in 0..(n + 1) /\ g[d] = f[d]
  BY <1>1
<1>3. \A d \in 0..(n + 1) : d # 0 => d - 1 \in 0..n
  OBVIOUS
<1>4. g = [d \in 0..(n + 1) |-> Around(IF d = 0 THEN <<>> ELSE g[d - 1])]
  BY <1>2, <1>3
<1> HIDE DEF g
<1>5. Piles(g, n + 1)
  BY <1>4 DEF Piles
<1> QED BY <1>5

LEMMA PilesExist ==
    ASSUME NEW n \in Nat
    PROVE  \E f : Piles(f, n)
<1> DEFINE S == {k \in Nat : \E f : Piles(f, k)}
<1>1. 0 \in S
  <2> DEFINE f == [d \in 0..0 |-> Around(<<>>)]
  <2>1. f = [d \in 0..0 |-> Around(IF d = 0 THEN <<>> ELSE f[d - 1])]
    OBVIOUS
  <2> HIDE DEF f
  <2>2. Piles(f, 0)
    BY <2>1 DEF Piles
  <2> QED BY <2>2
<1>2. \A k \in Nat : k \in S => k + 1 \in S
  BY PilesHigher
<1> HIDE DEF S
<1>3. Nat \subseteq S
  BY <1>1, <1>2, Induction
<1> QED BY <1>3 DEF S

LEMMA PilesAgree ==
    ASSUME NEW m \in Nat, NEW n \in Nat, m <= n, NEW f, NEW g, Piles(f, m), Piles(g, n)
    PROVE  \A d \in 0..m : f[d] = g[d]
<1> DEFINE S == {d \in Nat : d \in 0..m => f[d] = g[d]}
<1>0. /\ \A d \in 0..m : f[d] = Around(IF d = 0 THEN <<>> ELSE f[d - 1])
      /\ \A d \in 0..n : g[d] = Around(IF d = 0 THEN <<>> ELSE g[d - 1])
  BY DEF Piles
<1>1. 0 \in S
  <2>1. 0 \in 0..m /\ 0 \in 0..n
    OBVIOUS
  <2> QED BY <1>0, <2>1
<1>2. ASSUME NEW d \in Nat, d \in S PROVE d + 1 \in S
  <2>1. SUFFICES ASSUME d + 1 \in 0..m PROVE f[d + 1] = g[d + 1]
    OBVIOUS
  <2>2. d + 1 \in 0..n /\ (d + 1) - 1 = d /\ d + 1 # 0 /\ d \in 0..m
    BY <2>1
  <2>3. f[d + 1] = Around(f[d]) /\ g[d + 1] = Around(g[d])
    BY <1>0, <2>1, <2>2
  <2>4. f[d] = g[d]
    BY <1>2, <2>2
  <2> QED BY <2>3, <2>4
<1> HIDE DEF S
<1>3. Nat \subseteq S
  BY <1>1, <1>2, Induction
<1> QED BY <1>3 DEF S

LEMMA PackedExists ==
    \E f : f = [d \in Nat |-> Around(IF d = 0 THEN <<>> ELSE f[d - 1])]
<1> DEFINE pile(n) == CHOOSE f : Piles(f, n)
           g == [d \in Nat |-> pile(d)[d]]
<1>1. \A n \in Nat : Piles(pile(n), n)
  BY PilesExist
<1> HIDE DEF pile
<1>2. ASSUME NEW d \in Nat PROVE g[d] = Around(IF d = 0 THEN <<>> ELSE g[d - 1])
  <2>1. d \in 0..d /\ pile(d)[d] = Around(IF d = 0 THEN <<>> ELSE pile(d)[d - 1])
    BY <1>1 DEF Piles
  <2>2. CASE d = 0
    BY <2>1, <2>2
  <2>3. CASE d # 0
    <3>1. d - 1 \in Nat /\ d - 1 <= d /\ d - 1 \in 0..(d - 1)
      BY <2>3
    <3>2. Piles(pile(d - 1), d - 1) /\ Piles(pile(d), d)
      BY <1>1, <3>1
    <3>3. pile(d - 1)[d - 1] = pile(d)[d - 1]
      BY <3>1, <3>2, PilesAgree
    <3> QED BY <2>1, <2>3, <3>1, <3>3
  <2> QED BY <2>2, <2>3
<1>3. g = [d \in Nat |-> Around(IF d = 0 THEN <<>> ELSE g[d - 1])]
  BY <1>2
<1> QED BY <1>3

LEMMA PackedByDepth ==
    /\ Packed[0] = Around(<<>>)
    /\ \A d \in Nat : Packed[d + 1] = Around(Packed[d])
<1>1. Packed = [d \in Nat |-> Around(IF d = 0 THEN <<>> ELSE Packed[d - 1])]
  BY PackedExists DEF Packed
<1>2. \A d \in Nat : d + 1 \in Nat /\ d + 1 # 0 /\ (d + 1) - 1 = d
  OBVIOUS
<1>3. 0 \in Nat
  OBVIOUS
<1>4. Packed[0] = Around(<<>>)
  BY <1>1, <1>3
<1>5. ASSUME NEW d \in Nat PROVE Packed[d + 1] = Around(Packed[d])
  BY <1>1, <1>2
<1> QED BY <1>4, <1>5

Extends(g, f) == DOMAIN f \subseteq DOMAIN g /\ \A v \in DOMAIN f : g[v] = f[v]

TokensAround(inner, v) ==
    <<Tag(v)>> \o FlattenSeq([i \in DOMAIN v.kids |-> Key(v, i) \o inner[v.kids[i]]])

LEMMA AroundFacts ==
    ASSUME NEW f
    PROVE  /\ DOMAIN Around(f) = Leaves \cup Lists(DOMAIN f)
           /\ \A v \in Leaves \cup Lists(DOMAIN f) : Around(f)[v] = TokensAround(f, v)
<1> DEFINE D == Leaves \cup Lists(DOMAIN f)
<1>1. Around(f) = [v \in D |-> TokensAround(f, v)]
  BY DEF Around, TokensAround
<1> HIDE DEF D
<1>2. DOMAIN Around(f) = D /\ \A v \in D : Around(f)[v] = TokensAround(f, v)
  BY <1>1
<1> QED BY <1>2 DEF D

LEMMA LeafFacts ==
    ASSUME NEW v \in Leaves
    PROVE  /\ v.kids = <<>> /\ v.keys = <<>>
           /\ v.type \in {"string", "bytes", "bool", "double", "int"}
           /\ v.n \in Int
           /\ v.type \in {"string", "bytes"} => v.n \in Nat
           /\ v.type = "int" => v.n \in (-Half)..(Half - 1)
<1>1. CASE v \in [type : {"string", "bytes"}, n : Nat, keys : {<<>>}, kids : {<<>>}]
  BY <1>1
<1>2. CASE v \in [type : {"bool", "double"}, n : Int, keys : {<<>>}, kids : {<<>>}]
  BY <1>2
<1>3. CASE v \in [type : {"int"}, n : (-Half)..(Half - 1), keys : {<<>>}, kids : {<<>>}]
  BY <1>3, RoomAssumption
<1> QED BY <1>1, <1>2, <1>3 DEF Leaves

LEMMA ListFacts ==
    ASSUME NEW V, NEW v \in Lists(V)
    PROVE  /\ v.type \in {"array", "kvlist"} /\ v.n \in Nat
           /\ v.keys \in Seq(0..(KeyRoom - 1)) /\ v.kids \in Seq(V)
           /\ v.n = Len(v.kids)
           /\ v.type = "array" => v.keys = <<>> /\ v.n < SizeLimit
           /\ v.type = "kvlist" => Len(v.keys) = v.n
BY DEF Lists

LEMMA AroundExtends ==
    ASSUME NEW f, NEW g, Extends(g, f)
    PROVE  Extends(Around(g), Around(f))
<1>1. ASSUME NEW v \in Leaves \cup Lists(DOMAIN f)
      PROVE  v \in Leaves \cup Lists(DOMAIN g) /\ TokensAround(f, v) = TokensAround(g, v)
  <2>1. CASE v \in Leaves
    <3>1. v.kids = <<>>
      BY <2>1, LeafFacts
    <3>2. DOMAIN <<>> = {}
      OBVIOUS
    <3>3. [i \in DOMAIN v.kids |-> Key(v, i) \o f[v.kids[i]]]
            = [i \in DOMAIN v.kids |-> Key(v, i) \o g[v.kids[i]]]
      BY <3>1, <3>2
    <3> QED BY <2>1, <3>3 DEF TokensAround
  <2>2. CASE v \in Lists(DOMAIN f)
    <3>1. v.kids \in Seq(DOMAIN f) /\ DOMAIN f \subseteq DOMAIN g
      BY <2>2, ListFacts DEF Extends
    <3>2. v.kids \in Seq(DOMAIN g)
      BY <3>1, SeqMonotonic
    <3>3. v \in Lists(DOMAIN g)
      BY <2>2, <3>2 DEF Lists
    <3>4. \A i \in DOMAIN v.kids : v.kids[i] \in DOMAIN f
      BY <3>1, ElementOfSeq, LenProperties
    <3>5. \A i \in DOMAIN v.kids : f[v.kids[i]] = g[v.kids[i]]
      BY <3>4 DEF Extends
    <3>6. [i \in DOMAIN v.kids |-> Key(v, i) \o f[v.kids[i]]]
            = [i \in DOMAIN v.kids |-> Key(v, i) \o g[v.kids[i]]]
      BY <3>5
    <3> QED BY <3>3, <3>6 DEF TokensAround
  <2> QED BY <1>1, <2>1, <2>2
<1>2. /\ DOMAIN Around(f) = Leaves \cup Lists(DOMAIN f)
      /\ DOMAIN Around(g) = Leaves \cup Lists(DOMAIN g)
      /\ \A v \in Leaves \cup Lists(DOMAIN f) : Around(f)[v] = TokensAround(f, v)
      /\ \A v \in Leaves \cup Lists(DOMAIN g) : Around(g)[v] = TokensAround(g, v)
  BY AroundFacts
<1>3. ASSUME NEW v \in DOMAIN Around(f)
      PROVE  v \in DOMAIN Around(g) /\ Around(g)[v] = Around(f)[v]
  BY <1>1, <1>2
<1> QED BY <1>3 DEF Extends

LEMMA DeeperExtends ==
    ASSUME NEW d \in Nat
    PROVE  Extends(Packed[d + 1], Packed[d])
<1> DEFINE S == {k \in Nat : Extends(Packed[k + 1], Packed[k])}
<1>1. 0 \in S
  <2>1. Extends(Packed[0], <<>>)
    BY DEF Extends
  <2>2. Extends(Around(Packed[0]), Around(<<>>))
    BY <2>1, AroundExtends
  <2>3. Packed[0 + 1] = Around(Packed[0]) /\ Packed[0] = Around(<<>>)
    BY PackedByDepth
  <2> QED BY <2>2, <2>3
<1>2. ASSUME NEW k \in Nat, k \in S PROVE k + 1 \in S
  <2>1. Extends(Around(Packed[k + 1]), Around(Packed[k]))
    BY <1>2, AroundExtends
  <2>2. Packed[k + 1] = Around(Packed[k]) /\ Packed[(k + 1) + 1] = Around(Packed[k + 1])
    BY PackedByDepth
  <2> QED BY <2>1, <2>2
<1> HIDE DEF S
<1>3. Nat \subseteq S
  BY <1>1, <1>2, Induction
<1> QED BY <1>3 DEF S

LEMMA DeepExtends ==
    ASSUME NEW d \in Nat, NEW e \in Nat, d <= e
    PROVE  Extends(Packed[e], Packed[d])
<1> DEFINE S == {k \in Nat : Extends(Packed[d + k], Packed[d])}
<1>1. 0 \in S
  <2>1. d + 0 = d
    OBVIOUS
  <2> QED BY <2>1 DEF Extends
<1>2. ASSUME NEW k \in Nat, k \in S PROVE k + 1 \in S
  <2>1. Extends(Packed[(d + k) + 1], Packed[d + k]) /\ d + (k + 1) = (d + k) + 1
    BY DeeperExtends
  <2> QED BY <1>2, <2>1 DEF Extends
<1> HIDE DEF S
<1>3. Nat \subseteq S
  BY <1>1, <1>2, Induction
<1>4. e - d \in Nat /\ d + (e - d) = e
  OBVIOUS
<1> QED BY <1>3, <1>4 DEF S

LEMMA TagType ==
    ASSUME NEW V, NEW v \in Leaves \cup Lists(V)
    PROVE  Tag(v) \in TokenKind
<1>1. v.type \in {"string", "bytes", "bool", "double", "int", "array", "kvlist"}
      /\ v.n \in Int /\ (v.type \in {"array", "kvlist"} => Len(v.kids) \in Int)
  <2>1. CASE v \in Leaves
    BY <2>1, LeafFacts
  <2>2. CASE v \in Lists(V)
    BY <2>2, ListFacts, LenProperties
  <2> QED BY <2>1, <2>2
<1>2. Tag(v).n \in Int /\ Tag(v).whole \in BOOLEAN
  BY <1>1 DEF Tag
<1>3. Tag(v).type \in {"str", "bin", "bool", "double", "uint", "int", "array", "map"}
  BY <1>1 DEF Tag
<1>4. Tag(v) = [type |-> Tag(v).type, n |-> Tag(v).n, whole |-> Tag(v).whole]
  BY DEF Tag
<1> QED BY <1>2, <1>3, <1>4 DEF TokenKind

LEMMA StringType ==
    ASSUME NEW n \in Int
    PROVE  <<String(n)>> \in Seq(TokenKind) /\ <<>> \in Seq(TokenKind)
<1>1. String(n) \in TokenKind
  BY DEF String, TokenKind
<1> QED BY <1>1

LEMMA KeyType ==
    ASSUME NEW v, v.type = "kvlist" => v.keys \in Seq(0..(KeyRoom - 1)),
           NEW i \in Nat, v.type = "kvlist" => i \in 1..Len(v.keys)
    PROVE  Key(v, i) \in Seq(TokenKind)
<1>1. CASE v.type = "kvlist"
  <2>1. v.keys[i] \in 0..(KeyRoom - 1)
    BY <1>1, ElementOfSeq
  <2>2. v.keys[i] \in Int
    BY <2>1, RoomAssumption
  <2> QED BY <1>1, <2>2, StringType DEF Key
<1>2. CASE v.type # "kvlist"
  BY <1>2, StringType DEF Key
<1> QED BY <1>1, <1>2

LEMMA TokensAroundType ==
    ASSUME NEW f, \A w \in DOMAIN f : f[w] \in Seq(TokenKind),
           NEW v \in Leaves \cup Lists(DOMAIN f)
    PROVE  TokensAround(f, v) \in Seq(TokenKind)
<1> DEFINE parts == [i \in DOMAIN v.kids |-> Key(v, i) \o f[v.kids[i]]]
<1>1. parts \in Seq(Seq(TokenKind))
  <2>1. CASE v \in Leaves
    <3>1. v.kids = <<>> /\ DOMAIN <<>> = {}
      BY <2>1, LeafFacts
    <3>2. parts = <<>>
      BY <3>1
    <3> QED BY <3>2
  <2>2. CASE v \in Lists(DOMAIN f)
    <3>1. /\ v.kids \in Seq(DOMAIN f) /\ v.keys \in Seq(0..(KeyRoom - 1))
          /\ v.type = "kvlist" => Len(v.keys) = Len(v.kids)
          /\ Len(v.kids) \in Nat /\ DOMAIN v.kids = 1..Len(v.kids)
      BY <2>2, ListFacts, LenProperties
    <3>2. ASSUME NEW i \in 1..Len(v.kids) PROVE Key(v, i) \o f[v.kids[i]] \in Seq(TokenKind)
      <4>1. Key(v, i) \in Seq(TokenKind)
        BY <3>1, KeyType
      <4>2. f[v.kids[i]] \in Seq(TokenKind)
        BY <3>1, ElementOfSeq
      <4> QED BY <4>1, <4>2, ConcatProperties
    <3> QED BY <3>1, <3>2
  <2> QED BY <2>1, <2>2
<1> HIDE DEF parts
<1>2. FlattenSeq(parts) \in Seq(TokenKind)
  BY <1>1, FlattenType
<1>3. <<Tag(v)>> \in Seq(TokenKind)
  BY TagType
<1>4. <<Tag(v)>> \o FlattenSeq(parts) \in Seq(TokenKind)
  BY <1>2, <1>3, ConcatProperties
<1> QED BY <1>4 DEF TokensAround, parts

LEMMA PackedType ==
    ASSUME NEW d \in Nat, NEW v \in Upto(d)
    PROVE  Packed[d][v] \in Seq(TokenKind)
<1> DEFINE S == {k \in Nat : \A w \in DOMAIN Packed[k] : Packed[k][w] \in Seq(TokenKind)}
<1>1. ASSUME NEW f, \A w \in DOMAIN f : f[w] \in Seq(TokenKind)
      PROVE  \A w \in DOMAIN Around(f) : Around(f)[w] \in Seq(TokenKind)
  <2>1. /\ DOMAIN Around(f) = Leaves \cup Lists(DOMAIN f)
        /\ \A w \in Leaves \cup Lists(DOMAIN f) : Around(f)[w] = TokensAround(f, w)
    BY AroundFacts
  <2>2. \A w \in Leaves \cup Lists(DOMAIN f) : TokensAround(f, w) \in Seq(TokenKind)
    BY <1>1, TokensAroundType
  <2> QED BY <2>1, <2>2
<1>2. 0 \in S
  <2>1. \A w \in DOMAIN <<>> : <<>>[w] \in Seq(TokenKind)
    OBVIOUS
  <2>2. Packed[0] = Around(<<>>)
    BY PackedByDepth
  <2> QED BY <1>1, <2>1, <2>2
<1>3. ASSUME NEW k \in Nat, k \in S PROVE k + 1 \in S
  <2>1. Packed[k + 1] = Around(Packed[k])
    BY PackedByDepth
  <2> QED BY <1>1, <1>3, <2>1
<1> HIDE DEF S
<1>4. Nat \subseteq S
  BY <1>2, <1>3, Induction
<1> QED BY <1>4 DEF S, Upto

LEMMA PackFacts ==
    ASSUME NEW d \in Nat, d <= MaxTokens, NEW v \in Upto(d)
    PROVE  v \in Values /\ Pack(v) = Packed[d][v] /\ Pack(v) \in Seq(TokenKind)
<1>1. Extends(Packed[MaxTokens], Packed[d])
  BY DeepExtends, RoomAssumption
<1>2. Packed[d][v] \in Seq(TokenKind)
  BY PackedType
<1> QED BY <1>1, <1>2 DEF Extends, Upto, Values, Pack

LEMMA UptoGrows ==
    ASSUME NEW d \in Nat, NEW e \in Nat, d <= e
    PROVE  Upto(d) \subseteq Upto(e) /\ Seq(Upto(d)) \subseteq Seq(Upto(e))
<1>1. Upto(d) \subseteq Upto(e)
  BY DeepExtends DEF Extends, Upto
<1> QED BY <1>1, SeqMonotonic

LEMMA PackValue ==
    ASSUME NEW v \in Values
    PROVE  Pack(v) \in Seq(TokenKind)
BY PackedType, RoomAssumption DEF Values, Pack, Upto

LEMMA LeafPack ==
    ASSUME NEW v \in Leaves, NEW d \in Nat
    PROVE  v \in Upto(d) /\ v \in Values /\ Pack(v) = <<Tag(v)>>
<1>0. \A k \in Nat : \E f : Packed[k] = Around(f)
  <2>1. SUFFICES ASSUME NEW k \in Nat PROVE \E f : Packed[k] = Around(f)
    OBVIOUS
  <2>2. CASE k = 0
    BY <2>2, PackedByDepth
  <2>3. CASE k # 0
    <3>1. k - 1 \in Nat /\ (k - 1) + 1 = k
      BY <2>3
    <3> QED BY <3>1, PackedByDepth
  <2> QED BY <2>2, <2>3
<1>1. \A k \in Nat : v \in Upto(k)
  BY <1>0, AroundFacts DEF Upto
<1>2. PICK f : Packed[MaxTokens] = Around(f)
  BY <1>0, RoomAssumption
<1>3. Pack(v) = TokensAround(f, v)
  BY <1>2, AroundFacts DEF Pack
<1>4. v.kids = <<>> /\ DOMAIN <<>> = {}
  BY LeafFacts
<1>5. [i \in DOMAIN v.kids |-> Key(v, i) \o f[v.kids[i]]] = <<>>
  BY <1>4
<1>6. TokensAround(f, v) = <<Tag(v)>> \o <<>>
  BY <1>5, FlattenEmpty DEF TokensAround
<1>7. <<Tag(v)>> \in Seq(TokenKind)
  BY TagType
<1>8. Pack(v) = <<Tag(v)>>
  BY <1>3, <1>6, <1>7, ConcatEmptySeq
<1> QED BY <1>1, <1>8, RoomAssumption DEF Upto, Values

-----------------------------------------------------------------------------
(* The entries of a list, one after the other.                             *)

Entry(v, i) == Key(v, i) \o Pack(v.kids[i])

Entries(v, n) == FlattenSeq([i \in 1..n |-> Entry(v, i)])

\* A list, complete or not, has values, and a map as many keys.
Listed(v) ==
    /\ v.keys \in Seq(0..(KeyRoom - 1)) /\ v.kids \in Seq(Values)
    /\ v.type = "kvlist" => Len(v.keys) = Len(v.kids)

LEMMA EntryType ==
    ASSUME NEW v, Listed(v), NEW i \in 1..Len(v.kids)
    PROVE  Entry(v, i) \in Seq(TokenKind)
<1>1. i \in Nat /\ v.kids[i] \in Values /\ (v.type = "kvlist" => i \in 1..Len(v.keys))
  BY ElementOfSeq, LenProperties DEF Listed
<1>2. Key(v, i) \in Seq(TokenKind)
  BY <1>1, KeyType DEF Listed
<1>3. Pack(v.kids[i]) \in Seq(TokenKind)
  BY <1>1, PackValue
<1> QED BY <1>2, <1>3, ConcatProperties DEF Entry

LEMMA NoEntries ==
    ASSUME NEW v
    PROVE  Entries(v, 0) = <<>>
<1>1. [i \in 1..0 |-> Entry(v, i)] = <<>>
  OBVIOUS
<1> QED BY <1>1, FlattenEmpty DEF Entries

LEMMA EntriesType ==
    ASSUME NEW v, Listed(v), NEW n \in Nat, n <= Len(v.kids)
    PROVE  /\ [i \in 1..n |-> Entry(v, i)] \in Seq(Seq(TokenKind))
           /\ Entries(v, n) \in Seq(TokenKind)
<1>1. Len(v.kids) \in Nat
  BY LenProperties DEF Listed
<1>2. \A i \in 1..n : Entry(v, i) \in Seq(TokenKind)
  BY <1>1, EntryType
<1>3. [i \in 1..n |-> Entry(v, i)] \in Seq(Seq(TokenKind))
  BY <1>2
<1> QED BY <1>3, FlattenType DEF Entries

LEMMA OneEntryMore ==
    ASSUME NEW v, Listed(v), NEW n \in Nat, n < Len(v.kids)
    PROVE  Entries(v, n + 1) = Entries(v, n) \o Entry(v, n + 1)
<1>1. Len(v.kids) \in Nat
  BY LenProperties DEF Listed
<1> DEFINE d == [i \in 1..n |-> Entry(v, i)]
           e == [i \in 1..(n + 1) |-> Entry(v, i)]
<1>2. d \in Seq(Seq(TokenKind)) /\ e \in Seq(Seq(TokenKind))
  BY <1>1, EntriesType
<1>3. Len(d) = n /\ Len(e) = n + 1 /\ e[n + 1] = Entry(v, n + 1)
  OBVIOUS
<1>4. BeginAlike(d, e, n)
  BY DEF BeginAlike
<1>5. Entries(v, n + 1) = FlattenSeq(e) /\ Entries(v, n) = FlattenSeq(d)
  BY DEF Entries
<1> HIDE DEF d, e
<1>6. FlattenSeq(e) = FlattenSeq(d) \o e[n + 1]
  BY <1>2, <1>3, <1>4, FlattenLonger
<1> QED BY <1>3, <1>5, <1>6

\* The entries that two lists have alike are written alike.
LEMMA SameEntries ==
    ASSUME NEW v, NEW w, NEW n \in Nat, v.type = w.type,
           \A i \in 1..n : v.kids[i] = w.kids[i],
           v.type = "kvlist" => \A i \in 1..n : v.keys[i] = w.keys[i]
    PROVE  Entries(v, n) = Entries(w, n)
<1>1. \A i \in 1..n : Entry(v, i) = Entry(w, i)
  BY DEF Entry, Key
<1> QED BY <1>1 DEF Entries

LEMMA ListPack ==
    ASSUME NEW d \in Nat, d < MaxTokens, NEW v \in Lists(Upto(d))
    PROVE  /\ v \in Upto(d + 1) /\ v \in Values /\ Listed(v)
           /\ Pack(v) = <<Tag(v)>> \o Entries(v, Len(v.kids))
<1>1. Packed[d + 1] = Around(Packed[d])
  BY PackedByDepth
<1>2. v \in Upto(d + 1) /\ Packed[d + 1][v] = TokensAround(Packed[d], v)
  BY <1>1, AroundFacts DEF Upto
<1>3. d + 1 \in Nat /\ d + 1 <= MaxTokens /\ d <= MaxTokens
  BY RoomAssumption
<1>4. v \in Values /\ Pack(v) = TokensAround(Packed[d], v)
  BY <1>2, <1>3, PackFacts
<1>5. v.kids \in Seq(Upto(d)) /\ DOMAIN v.kids = 1..Len(v.kids) /\ Len(v.kids) \in Nat
  BY ListFacts, LenProperties
<1>6. \A i \in 1..Len(v.kids) : Pack(v.kids[i]) = Packed[d][v.kids[i]]
  BY <1>3, <1>5, ElementOfSeq, PackFacts
<1>7. [i \in DOMAIN v.kids |-> Key(v, i) \o Packed[d][v.kids[i]]]
        = [i \in 1..Len(v.kids) |-> Entry(v, i)]
  BY <1>5, <1>6 DEF Entry
<1>8. Pack(v) = <<Tag(v)>> \o Entries(v, Len(v.kids))
  BY <1>4, <1>7 DEF TokensAround, Entries
<1>9. Upto(d) \subseteq Values
  BY <1>3, PackFacts
<1>10. Listed(v)
  BY <1>5, <1>9, ListFacts, SeqMonotonic DEF Listed
<1> QED BY <1>2, <1>4, <1>8, <1>10

\* What a value is made of.
LEMMA ValueParts ==
    ASSUME NEW v \in Values
    PROVE  \/ v \in Leaves
           \/ /\ v \in Lists(Values) /\ Listed(v)
              /\ Pack(v) = <<Tag(v)>> \o Entries(v, Len(v.kids))
<1>1. CASE MaxTokens = 0
  <2>1. v \in Leaves \cup Lists(DOMAIN <<>>) /\ Pack(v) = TokensAround(<<>>, v)
    BY <1>1, PackedByDepth, AroundFacts DEF Values, Pack
  <2>2. SUFFICES ASSUME v \in Lists(DOMAIN <<>>)
                 PROVE  v \in Lists(Values) /\ Listed(v)
                        /\ Pack(v) = <<Tag(v)>> \o Entries(v, Len(v.kids))
    BY <2>1
  <2>3. v.kids \in Seq(DOMAIN <<>>) /\ DOMAIN <<>> = {}
    BY <2>2, ListFacts
  <2>4. v.kids = <<>> /\ v.kids \in Seq(Values) /\ Len(v.kids) = 0
    <3>1. Len(v.kids) \in Nat /\ \A i \in 1..Len(v.kids) : v.kids[i] \in {}
      BY <2>3, ElementOfSeq, LenProperties
    <3>2. Len(v.kids) = 0
      BY <3>1
    <3> QED BY <2>3, <3>2, EmptySeq
  <2>5. v \in Lists(Values) /\ Listed(v)
    BY <2>2, <2>4, ListFacts DEF Lists, Listed
  <2>6. [i \in DOMAIN v.kids |-> Key(v, i) \o <<>>[v.kids[i]]] = <<>>
    BY <2>3, <2>4
  <2>7. Pack(v) = <<Tag(v)>> \o FlattenSeq(<<>>)
    BY <2>1, <2>6 DEF TokensAround
  <2> QED BY <2>4, <2>5, <2>7, NoEntries, FlattenEmpty
<1>2. CASE MaxTokens # 0
  <2>1. PICK d \in Nat : d + 1 = MaxTokens
    <3>1. MaxTokens - 1 \in Nat /\ (MaxTokens - 1) + 1 = MaxTokens
      BY <1>2, RoomAssumption
    <3> QED BY <3>1
  <2>2. v \in Leaves \cup Lists(Upto(d))
    BY <2>1, PackedByDepth, AroundFacts DEF Values, Upto
  <2>3. SUFFICES ASSUME v \in Lists(Upto(d))
                 PROVE  v \in Lists(Values) /\ Listed(v)
                        /\ Pack(v) = <<Tag(v)>> \o Entries(v, Len(v.kids))
    BY <2>2
  <2>4. d < MaxTokens
    BY <2>1
  <2>5. Listed(v) /\ Pack(v) = <<Tag(v)>> \o Entries(v, Len(v.kids))
    BY <2>3, <2>4, ListPack
  <2> QED BY <2>3, <2>5 DEF Listed, Lists
<1> QED BY <1>1, <1>2

-----------------------------------------------------------------------------
(* The lists that are being read.                                          *)

FrameTag(f) ==
    [type |-> IF f.type = "array" THEN "array" ELSE "map", n |-> f.count, whole |-> TRUE]

\* The tokens of a list up to the value it wants, and with the key of that value.
Begun(f) == <<FrameTag(f)>> \o Entries(f, Len(f.kids))
Pending(f) == IF f.type = "kvlist" THEN <<String(f.key)>> ELSE <<>>
Waiting(f) == Begun(f) \o Pending(f)

\* The tokens before the i-th list.
Before(s, i) == FlattenSeq([j \in 1..(i - 1) |-> Waiting(s[j])])

FrameOK(f, depth) ==
    /\ f.type \in {"array", "kvlist"}
    /\ f.count \in Nat /\ f.left \in Nat
    /\ f.key \in 0..(KeyRoom - 1) /\ f.keys \in Seq(0..(KeyRoom - 1))
    /\ f.kids \in Seq(Upto(depth))
    /\ Len(f.keys) = Len(f.kids) /\ f.count = f.left + Len(f.kids)
    /\ f.type = "array" => f.count < SizeLimit

LEMMA FrameFacts ==
    ASSUME NEW d \in Nat, d <= MaxTokens, NEW f, FrameOK(f, d)
    PROVE  /\ Listed(f) /\ Len(f.kids) \in Nat
           /\ <<FrameTag(f)>> \in Seq(TokenKind)
           /\ Entries(f, Len(f.kids)) \in Seq(TokenKind)
           /\ Begun(f) \in Seq(TokenKind)
           /\ Pending(f) \in Seq(TokenKind)
           /\ Waiting(f) \in Seq(TokenKind)
<1>1. Upto(d) \subseteq Values
  BY PackFacts
<1>2. Listed(f) /\ Len(f.kids) \in Nat /\ Len(f.kids) <= Len(f.kids)
  BY <1>1, SeqMonotonic, LenProperties DEF Listed, FrameOK
<1>3. FrameTag(f) \in TokenKind
  BY DEF FrameTag, TokenKind, FrameOK
<1>4. <<FrameTag(f)>> \in Seq(TokenKind)
  BY <1>3
<1>5. Entries(f, Len(f.kids)) \in Seq(TokenKind)
  BY <1>2, EntriesType
<1>6. Begun(f) \in Seq(TokenKind)
  BY <1>4, <1>5, ConcatProperties DEF Begun
<1>7. Pending(f) \in Seq(TokenKind)
  <2>1. f.key \in Int
    BY RoomAssumption DEF FrameOK
  <2> QED BY <2>1, StringType DEF Pending
<1>8. Waiting(f) \in Seq(TokenKind)
  BY <1>6, <1>7, ConcatProperties DEF Waiting
<1> QED BY <1>2, <1>4, <1>5, <1>6, <1>7, <1>8

LEMMA BeforeFirst ==
    ASSUME NEW s
    PROVE  Before(s, 1) = <<>>
<1>1. 1 - 1 = 0 /\ [j \in 1..0 |-> Waiting(s[j])] = <<>>
  OBVIOUS
<1> QED BY <1>1, FlattenEmpty DEF Before

LEMMA BeforeNext ==
    ASSUME NEW s, NEW i \in Nat \ {0}, \A j \in 1..i : Waiting(s[j]) \in Seq(TokenKind)
    PROVE  /\ Before(s, i) \in Seq(TokenKind)
           /\ Before(s, i + 1) = Before(s, i) \o Waiting(s[i])
<1>0. PICK n \in Nat : n + 1 = i
  <2>1. i - 1 \in Nat /\ (i - 1) + 1 = i
    OBVIOUS
  <2> QED BY <2>1
<1> DEFINE d == [j \in 1..n |-> Waiting(s[j])]
           e == [j \in 1..(n + 1) |-> Waiting(s[j])]
<1>1. d \in Seq(Seq(TokenKind)) /\ e \in Seq(Seq(TokenKind))
  BY <1>0
<1>2. Len(d) = n /\ Len(e) = n + 1 /\ e[n + 1] = Waiting(s[i])
  BY <1>0
<1>3. BeginAlike(d, e, n)
  BY DEF BeginAlike
<1>4. i - 1 = n /\ (i + 1) - 1 = n + 1
  BY <1>0
<1>5. Before(s, i) = FlattenSeq(d) /\ Before(s, i + 1) = FlattenSeq(e)
  BY <1>4 DEF Before
<1> HIDE DEF d, e
<1>6. FlattenSeq(e) = FlattenSeq(d) \o e[n + 1]
  BY <1>1, <1>2, <1>3, FlattenLonger
<1>7. FlattenSeq(d) \in Seq(TokenKind)
  BY <1>1, FlattenType
<1> QED BY <1>2, <1>5, <1>6, <1>7

LEMMA BeforeSame ==
    ASSUME NEW s, NEW t, NEW i \in Nat, \A j \in 1..(i - 1) : s[j] = t[j]
    PROVE  Before(s, i) = Before(t, i)
BY DEF Before

-----------------------------------------------------------------------------
(* What has been read, at every moment.                                    *)

Read == [i \in 1..Len(seen) |-> Canonical(seen[i])]

\* A list that waits for a value has room for it.
Unfinished ==
    \A i \in 1..Len(stack) :
        i < Len(stack) \/ phase \in {"value", "got"} => stack[i].left > 0

Shape ==
    /\ seen \in Seq(Token) /\ Len(seen) <= MaxTokens /\ Len(stack) <= Len(seen)
    /\ \A i \in 1..Len(stack) : FrameOK(stack[i], Len(seen) - i)
    /\ phase = "got" => got \in Upto(Len(seen) - Len(stack))
    /\ Unfinished

ReadSoFar ==
    /\ phase = "list" => Read = Before(stack, Len(stack)) \o Begun(Top)
    /\ phase = "value" => Read = Before(stack, Len(stack) + 1)
    /\ phase = "got" => Read = Before(stack, Len(stack) + 1) \o Pack(got)
    /\ phase = "done" /\ code = 0 => Read = Pack(got)

RInv == IInv /\ Shape /\ ReadSoFar

LEMMA FrameOKGrows ==
    ASSUME NEW d \in Nat, NEW e \in Nat, d <= e, NEW f, FrameOK(f, d)
    PROVE  FrameOK(f, e)
BY UptoGrows DEF FrameOK

LEMMA CanonicalType ==
    ASSUME NEW t \in Token
    PROVE  t \in TokenKind /\ Canonical(t) \in TokenKind
<1>1. t \in TokenKind /\ t.whole \in BOOLEAN /\ t.n \in Int
  BY TokenAssumption DEF TokenKind
<1> QED BY <1>1, RoomAssumption DEF Canonical, TokenKind

\* The numbers of the sequences: the tokens and the lists.
LEMMA SizeFacts ==
    ASSUME RInv
    PROVE  /\ Len(seen) \in Nat /\ Len(stack) \in Nat /\ MaxTokens \in Nat
           /\ Len(stack) <= Len(seen) /\ Len(seen) <= MaxTokens
           /\ \A i \in 1..Len(stack) : /\ Len(seen) - i \in Nat /\ Len(seen) - i < MaxTokens
                                       /\ Waiting(stack[i]) \in Seq(TokenKind)
           /\ \E S : stack \in Seq(S)
           /\ Read \in Seq(TokenKind) /\ Len(Read) = Len(seen)
<1>1. PICK S : stack \in Seq(S)
  BY DEF RInv, IInv, Typed
<1>2. Len(seen) \in Nat /\ Len(stack) \in Nat /\ MaxTokens \in Nat
      /\ Len(stack) <= Len(seen) /\ Len(seen) <= MaxTokens
  BY <1>1, LenProperties, RoomAssumption DEF RInv, Shape
<1>3. \A i \in 1..Len(stack) : Len(seen) - i \in Nat /\ Len(seen) - i < MaxTokens
                               /\ Len(seen) - i <= MaxTokens
  BY <1>2
<1>4. \A i \in 1..Len(stack) : FrameOK(stack[i], Len(seen) - i)
  BY DEF RInv, Shape
<1>5. \A i \in 1..Len(stack) : Waiting(stack[i]) \in Seq(TokenKind)
  BY <1>3, <1>4, FrameFacts
<1>6. \A i \in 1..Len(seen) : Canonical(seen[i]) \in TokenKind
  BY ElementOfSeq, CanonicalType DEF RInv, Shape
<1>7. Read \in Seq(TokenKind) /\ Len(Read) = Len(seen)
  BY <1>2, <1>6 DEF Read
<1> QED BY <1>1, <1>2, <1>3, <1>5, <1>7

\* One more token.
LEMMA ReadMore ==
    ASSUME RInv, NEW t \in Token, NEW type, Wants(type, t)
    PROVE  /\ seen' \in Seq(Token) /\ Len(seen') = Len(seen) + 1 /\ Len(seen') <= MaxTokens
           /\ Read' = Read \o <<Canonical(t)>>
<1>1. /\ seen \in Seq(Token) /\ Len(seen) \in Nat /\ Len(seen) < MaxTokens /\ MaxTokens \in Nat
      /\ seen' = Append(seen, t)
      /\ Read \in Seq(TokenKind) /\ Len(Read) = Len(seen)
  BY SizeFacts DEF RInv, Shape, Wants
<1>2. /\ seen' \in Seq(Token) /\ Len(seen') = Len(seen) + 1
      /\ \A i \in 1..Len(seen) : seen'[i] = seen[i]
      /\ seen'[Len(seen) + 1] = t
  BY <1>1, AppendProperties
<1>3. Canonical(t) \in TokenKind
  BY CanonicalType
<1>4. /\ Append(Read, Canonical(t)) \in Seq(TokenKind)
      /\ Len(Append(Read, Canonical(t))) = Len(seen) + 1
      /\ \A i \in 1..Len(seen) : Append(Read, Canonical(t))[i] = Read[i]
      /\ Append(Read, Canonical(t))[Len(seen) + 1] = Canonical(t)
  BY <1>1, <1>3, AppendProperties
<1>5. Append(Read, Canonical(t)) = Read \o <<Canonical(t)>>
  BY <1>1, <1>3, AppendIsConcat
<1>6. Read' = [i \in 1..(Len(seen) + 1) |-> Canonical(seen'[i])]
  BY <1>2 DEF Read
<1>7. \A i \in 1..(Len(seen) + 1) : Canonical(seen'[i]) = Append(Read, Canonical(t))[i]
  BY <1>1, <1>2, <1>4 DEF Read
<1>8. Read' \in Seq(TokenKind) /\ Len(Read') = Len(seen) + 1
  BY <1>1, <1>4, <1>6, <1>7, ElementOfSeq
<1>9. Read' = Append(Read, Canonical(t))
  BY <1>4, <1>6, <1>7, <1>8, SeqEqual
<1> QED BY <1>1, <1>2, <1>5, <1>9

\* Lists that stay as they are are read in what was read, and more.
LEMMA ShapeOfRest ==
    ASSUME RInv, Len(seen') \in Nat, Len(seen) <= Len(seen'),
           NEW n \in Nat, n <= Len(stack), \A i \in 1..n : stack'[i] = stack[i]
    PROVE  \A i \in 1..n : FrameOK(stack'[i], Len(seen') - i)
<1> SUFFICES ASSUME NEW i \in 1..n PROVE FrameOK(stack'[i], Len(seen') - i)
  OBVIOUS
<1>1. i \in 1..Len(stack) /\ stack'[i] = stack[i]
  BY SizeFacts
<1>2. /\ Len(seen) - i \in Nat /\ Len(seen') - i \in Nat
      /\ Len(seen) - i <= Len(seen') - i
  BY <1>1, SizeFacts
<1>3. FrameOK(stack[i], Len(seen) - i)
  BY <1>1 DEF RInv, Shape
<1> QED BY <1>1, <1>2, <1>3, FrameOKGrows

\* A step that fails, or stays failed.
LEMMA FailReads ==
    ASSUME RInv, IInv',
           seen' = seen \/ \E t \in Token : Wants(t.type, t),
           Len(stack') \in Nat, Len(stack') <= Len(stack),
           \A i \in 1..Len(stack') : stack'[i] = stack[i],
           phase' \in {"failed", "broken"} \/ (phase' = "done" /\ code' # 0)
    PROVE  RInv'
<1>1. /\ seen' \in Seq(Token) /\ Len(seen') \in Nat
      /\ Len(seen) <= Len(seen') /\ Len(seen') <= MaxTokens
  <2>1. CASE seen' = seen
    BY <2>1, SizeFacts DEF RInv, Shape
  <2>2. CASE \E t \in Token : Wants(t.type, t)
    <3>1. PICK t \in Token : Wants(t.type, t)
      BY <2>2
    <3>2. seen' \in Seq(Token) /\ Len(seen') = Len(seen) + 1 /\ Len(seen') <= MaxTokens
      BY <3>1, ReadMore
    <3> QED BY <3>2, SizeFacts
  <2> QED BY <2>1, <2>2
<1>2. \A i \in 1..Len(stack') : FrameOK(stack'[i], Len(seen') - i)
  BY <1>1, ShapeOfRest
<1>3. Unfinished'
  <2>1. SUFFICES ASSUME NEW i \in 1..Len(stack'), i < Len(stack') PROVE stack'[i].left > 0
    BY DEF Unfinished
  <2>2. i \in 1..Len(stack) /\ i < Len(stack) /\ stack'[i] = stack[i]
    BY <2>1, SizeFacts
  <2> QED BY <2>2 DEF RInv, Shape, Unfinished
<1>5. Shape'
  <2>1. Len(stack') <= Len(seen')
    BY <1>1, SizeFacts
  <2> QED BY <1>1, <1>2, <1>3, <2>1 DEF Shape
<1>4. ReadSoFar'
  BY DEF ReadSoFar
<1> QED BY <1>4, <1>5 DEF RInv

\* A leaf is read from the token that it is written as.
LEMMA LeafReads ==
    ASSUME RInv, IInv', phase = "value", NEW v \in Leaves, NEW own, Deliver(v, own),
           NEW t \in Token, NEW type, Wants(type, t), Tag(v) = Canonical(t)
    PROVE  RInv'
<1>1. /\ phase' = "got" /\ got' = v /\ stack' = stack
  BY DEF Deliver
<1>2. /\ seen' \in Seq(Token) /\ Len(seen') = Len(seen) + 1 /\ Len(seen') <= MaxTokens
      /\ Read' = Read \o <<Canonical(t)>>
  BY ReadMore
<1>3. Len(seen) \in Nat /\ Len(stack) \in Nat /\ Len(stack) <= Len(seen)
  BY SizeFacts
<1>4. \A i \in 1..Len(stack') : FrameOK(stack'[i], Len(seen') - i)
  BY <1>1, <1>2, <1>3, ShapeOfRest
<1>5. Len(seen') - Len(stack') \in Nat
  BY <1>1, <1>2, <1>3
<1>6. got' \in Upto(Len(seen') - Len(stack')) /\ Pack(v) = <<Tag(v)>>
  BY <1>1, <1>5, LeafPack
<1>11. Unfinished'
  BY <1>1 DEF RInv, Shape, Unfinished
<1>7. Shape'
  BY <1>1, <1>2, <1>3, <1>4, <1>6, <1>11 DEF Shape
<1>8. Read = Before(stack, Len(stack) + 1)
  BY DEF RInv, ReadSoFar
<1>9. Read' = Before(stack', Len(stack') + 1) \o Pack(got')
  BY <1>1, <1>2, <1>6, <1>8
<1>10. ReadSoFar'
  BY <1>1, <1>9 DEF ReadSoFar
<1> QED BY <1>7, <1>10 DEF RInv

\* A list begins with its tag.
LEMMA OpenReads ==
    ASSUME RInv, IInv', phase = "value",
           NEW tag \in {"array", "map"}, NEW type, type = IF tag = "map" THEN "kvlist" ELSE "array",
           NEW t \in Token, Wants(tag, t), OpenList(type, t),
           tag = "array" => t.n < SizeLimit
    PROVE  RInv'
<1>1. PICK f : f = Frame(type, t.n, next)
  OBVIOUS
<1>2. phase' = "list" /\ stack' = Append(stack, f)
  BY <1>1 DEF OpenList
<1>3. /\ seen' \in Seq(Token) /\ Len(seen') = Len(seen) + 1 /\ Len(seen') <= MaxTokens
      /\ Read' = Read \o <<Canonical(t)>>
  BY ReadMore
<1>4. Len(seen) \in Nat /\ Len(stack) \in Nat /\ Len(stack) <= Len(seen)
  BY SizeFacts
<1>5. t.type = tag /\ t.n \in Nat /\ t \in TokenKind /\ t.whole = TRUE
  BY TokenAssumption DEF Wants, TokenKind
<1>6. Canonical(t) = FrameTag(f)
  <2>1. Canonical(t) = t
    BY <1>5 DEF Canonical
  <2>2. t = [type |-> tag, n |-> t.n, whole |-> TRUE]
    BY <1>5 DEF TokenKind
  <2>3. FrameTag(f) = [type |-> tag, n |-> t.n, whole |-> TRUE]
    BY <1>1 DEF FrameTag, Frame
  <2> QED BY <2>1, <2>2, <2>3
<1>7. PICK d \in Nat : d = Len(seen') - Len(stack')
  <2>1. PICK S : stack \in Seq(S)
    BY SizeFacts
  <2>2. Len(Append(stack, f)) = Len(stack) + 1
    BY <2>1, PushFacts
  <2>3. Len(seen') - Len(stack') \in Nat
    BY <1>2, <1>3, <1>4, <2>2
  <2> QED BY <2>3
<1>8. FrameOK(f, d)
  <2>1. /\ f.type = type /\ f.count = t.n /\ f.left = t.n /\ f.key = 0
        /\ f.keys = <<>> /\ f.kids = <<>>
    BY <1>1 DEF Frame
  <2>2. <<>> \in Seq(0..(KeyRoom - 1)) /\ <<>> \in Seq(Upto(d)) /\ Len(<<>>) = 0
    OBVIOUS
  <2>3. 0 \in 0..(KeyRoom - 1)
    BY RoomAssumption
  <2> QED BY <1>5, <2>1, <2>2, <2>3 DEF FrameOK
<1>9. /\ stack' # <<>> /\ Len(stack') = Len(stack) + 1 /\ stack'[Len(stack) + 1] = f
      /\ \A i \in 1..Len(stack) : stack'[i] = stack[i]
      /\ Top' = f
  <2>1. PICK S : stack \in Seq(S)
    BY SizeFacts
  <2>2. /\ Len(stack') = Len(stack) + 1 /\ stack'[Len(stack) + 1] = f /\ stack' # <<>>
        /\ \A i \in 1..Len(stack) : stack'[i] = stack[i]
    BY <1>2, <2>1, PushFacts
  <2> QED BY <2>2 DEF Top, Last
<1>10. \A i \in 1..Len(stack') : FrameOK(stack'[i], Len(seen') - i)
  <2>1. \A i \in 1..Len(stack) : FrameOK(stack'[i], Len(seen') - i)
    BY <1>3, <1>4, <1>9, ShapeOfRest
  <2>2. \A i \in 1..Len(stack') : i \in 1..Len(stack) \/ i = Len(stack')
    BY <1>4, <1>9
  <2> QED BY <1>7, <1>8, <1>9, <2>1, <2>2
<1>17. Unfinished'
  <2>1. SUFFICES ASSUME NEW i \in 1..Len(stack'), i < Len(stack') PROVE stack'[i].left > 0
    BY <1>2 DEF Unfinished
  <2>2. i \in 1..Len(stack) /\ stack'[i] = stack[i]
    BY <1>4, <1>9, <2>1
  <2> QED BY <2>2 DEF RInv, Shape, Unfinished
<1>11. Shape'
  BY <1>2, <1>3, <1>4, <1>9, <1>10, <1>17 DEF Shape
<1>12. Begun(f) = <<FrameTag(f)>>
  <2>1. Len(f.kids) = 0
    BY <1>1 DEF Frame
  <2>2. <<FrameTag(f)>> \in Seq(TokenKind)
    BY <1>6, CanonicalType
  <2> QED BY <2>1, <2>2, NoEntries, ConcatEmptySeq DEF Begun
<1>13. Before(stack', Len(stack')) = Before(stack, Len(stack) + 1)
  <2>1. (Len(stack) + 1) - 1 = Len(stack) /\ Len(stack) + 1 \in Nat
    BY <1>4
  <2> QED BY <1>9, <2>1, BeforeSame
<1>14. Read = Before(stack, Len(stack) + 1)
  BY DEF RInv, ReadSoFar
<1>15. Read' = Before(stack', Len(stack')) \o Begun(Top')
  BY <1>3, <1>6, <1>9, <1>12, <1>13, <1>14
<1>16. ReadSoFar'
  BY <1>2, <1>15 DEF ReadSoFar
<1> QED BY <1>11, <1>16 DEF RInv

\* The innermost list replaced, as a step does it.
LEMMA TopSwapped ==
    ASSUME RInv, stack # <<>>, NEW f, stack' = Append(Below, f)
    PROVE  /\ stack' # <<>>
           /\ Len(stack') = Len(stack)
           /\ \A i \in 1..(Len(stack) - 1) : stack'[i] = stack[i]
           /\ stack'[Len(stack)] = f
           /\ Top' = f
           /\ Len(stack) \in Nat \ {0}
           /\ Top = stack[Len(stack)]
<1>1. PICK S : stack \in Seq(S)
  BY SizeFacts
<1>2. stack # <<>>
  OBVIOUS
<1>3. \A r : r = Append(Front(stack), f) =>
        /\ r \in Seq(S \cup {f})
        /\ r # <<>>
        /\ Len(r) = Len(stack)
        /\ \A i \in 1..(Len(stack) - 1) : r[i] = stack[i]
        /\ r[Len(stack)] = f
        /\ Len(stack) \in Nat \ {0}
        /\ Last(stack) = stack[Len(stack)]
  BY ONLY <1>1, <1>2, SwapFacts
<1>4. stack' = Append(Front(stack), f) /\ Top = Last(stack)
  BY DEF Below, Top
<1>5. /\ stack' # <<>>
      /\ Len(stack') = Len(stack)
      /\ \A i \in 1..(Len(stack) - 1) : stack'[i] = stack[i]
      /\ stack'[Len(stack)] = f
      /\ Len(stack) \in Nat \ {0}
      /\ Top = stack[Len(stack)]
  BY ONLY <1>3, <1>4
<1>6. Top' = f
  BY <1>5 DEF Top, Last
<1> QED BY <1>5, <1>6

\* The innermost list replaced by one that is as sound.
LEMMA SwapShape ==
    ASSUME RInv, stack # <<>>, NEW f, stack' = Append(Below, f), FrameOK(f, Len(seen) - Len(stack)),
           seen' \in Seq(Token), Len(seen') \in Nat, Len(seen) <= Len(seen'),
           Len(seen') <= MaxTokens, phase' # "got", phase' = "value" => f.left > 0
    PROVE  /\ Shape'
           /\ Len(stack) \in Nat \ {0} /\ Len(stack') = Len(stack)
           /\ Top' = f /\ Top = stack[Len(stack)]
           /\ FrameOK(Top, Len(seen) - Len(stack))
           /\ Before(stack', Len(stack)) = Before(stack, Len(stack))
           /\ Before(stack, Len(stack)) \in Seq(TokenKind)
           /\ Before(stack, Len(stack) + 1) = Before(stack, Len(stack)) \o Waiting(Top)
           /\ Before(stack', Len(stack) + 1) = Before(stack, Len(stack)) \o Waiting(f)
           /\ Begun(Top) \in Seq(TokenKind) /\ Pending(Top) \in Seq(TokenKind)
           /\ Begun(f) \in Seq(TokenKind) /\ Pending(f) \in Seq(TokenKind)
<1>2. /\ stack' # <<>>
      /\ Len(stack') = Len(stack)
      /\ \A i \in 1..(Len(stack) - 1) : stack'[i] = stack[i]
      /\ stack'[Len(stack)] = f
      /\ Len(stack) \in Nat \ {0}
      /\ Top = stack[Len(stack)]
  BY TopSwapped
<1>3. Top' = f
  BY TopSwapped
<1>4. PICK d \in Nat : d = Len(seen) - Len(stack) /\ d <= MaxTokens
  <2>1. Len(stack) \in 1..Len(stack)
    BY <1>2
  <2>2. Len(seen) - Len(stack) \in Nat /\ Len(seen) - Len(stack) < MaxTokens /\ MaxTokens \in Nat
    BY <2>1, SizeFacts
  <2>3. Len(seen) - Len(stack) <= MaxTokens
    BY <2>2
  <2> QED BY <2>2, <2>3
<1>5. FrameOK(f, d) /\ FrameOK(Top, d)
  <2>1. Len(stack) \in 1..Len(stack)
    BY <1>2
  <2> QED BY <1>2, <1>4, <2>1 DEF RInv, Shape
<1>6. /\ Begun(Top) \in Seq(TokenKind) /\ Pending(Top) \in Seq(TokenKind)
      /\ Begun(f) \in Seq(TokenKind) /\ Pending(f) \in Seq(TokenKind)
      /\ Waiting(f) \in Seq(TokenKind)
  BY <1>4, <1>5, FrameFacts
<1>7. \A i \in 1..Len(stack') : FrameOK(stack'[i], Len(seen') - i)
  <2>1. Len(stack) - 1 \in Nat /\ Len(stack) - 1 <= Len(stack)
    BY <1>2
  <2>2. \A i \in 1..(Len(stack) - 1) : FrameOK(stack'[i], Len(seen') - i)
    <3>1. PICK n \in Nat : n = Len(stack) - 1
      BY <2>1
    <3>2. n <= Len(stack) /\ \A i \in 1..n : stack'[i] = stack[i]
      BY <1>2, <2>1, <3>1
    <3>3. \A i \in 1..n : FrameOK(stack'[i], Len(seen') - i)
      BY <3>2, ShapeOfRest
    <3> QED BY <3>1, <3>3
  <2>3. Len(seen') - Len(stack) \in Nat /\ d <= Len(seen') - Len(stack)
    BY <1>2, <1>4, SizeFacts
  <2>4. FrameOK(f, Len(seen') - Len(stack))
    BY <1>5, <2>3, FrameOKGrows
  <2>5. \A i \in 1..Len(stack') : i \in 1..(Len(stack) - 1) \/ i = Len(stack)
    BY <1>2
  <2> QED BY <1>2, <2>2, <2>4, <2>5
<1>8. Shape'
  <2>1. Len(stack) <= Len(seen) /\ Len(seen) \in Nat
    BY SizeFacts
  <2>2. Len(stack') <= Len(seen')
    BY <1>2, <2>1
  <2>3. \A i \in 1..Len(stack') : i < Len(stack') => stack'[i].left > 0
    <3>1. SUFFICES ASSUME NEW i \in 1..Len(stack'), i < Len(stack') PROVE stack'[i].left > 0
      OBVIOUS
    <3>2. i \in 1..Len(stack) /\ i < Len(stack) /\ stack'[i] = stack[i]
      BY <1>2, <3>1
    <3> QED BY <3>2 DEF RInv, Shape, Unfinished
  <2>4. phase' = "value" => \A i \in 1..Len(stack') : i = Len(stack') => stack'[i].left > 0
    BY <1>2
  <2>5. \A i \in 1..Len(stack') : i < Len(stack') \/ i = Len(stack')
    BY <1>2
  <2>6. Unfinished'
    BY <2>3, <2>4, <2>5 DEF Unfinished
  <2> QED BY <1>7, <2>2, <2>6 DEF Shape
<1>9. \A j \in 1..Len(stack) : Waiting(stack[j]) \in Seq(TokenKind)
  BY SizeFacts
<1>10. \A j \in 1..Len(stack) : Waiting(stack'[j]) \in Seq(TokenKind)
  <2>1. \A j \in 1..Len(stack) : j \in 1..(Len(stack) - 1) \/ j = Len(stack)
    BY <1>2
  <2> QED BY <1>2, <1>6, <1>9, <2>1
<1>11. Before(stack', Len(stack)) = Before(stack, Len(stack))
  BY <1>2, BeforeSame
<1>12. /\ Before(stack, Len(stack)) \in Seq(TokenKind)
       /\ Before(stack, Len(stack) + 1) = Before(stack, Len(stack)) \o Waiting(stack[Len(stack)])
  <2>1. PICK n \in Nat \ {0} : n = Len(stack)
    BY <1>2
  <2>2. \A j \in 1..n : Waiting(stack[j]) \in Seq(TokenKind)
    BY <1>9, <2>1
  <2>3. /\ Before(stack, n) \in Seq(TokenKind)
        /\ Before(stack, n + 1) = Before(stack, n) \o Waiting(stack[n])
    BY <2>2, BeforeNext
  <2> QED BY <2>1, <2>3
<1>13. Before(stack', Len(stack) + 1) = Before(stack', Len(stack)) \o Waiting(stack'[Len(stack)])
  <2>1. PICK n \in Nat \ {0} : n = Len(stack)
    BY <1>2
  <2>2. \A j \in 1..n : Waiting(stack'[j]) \in Seq(TokenKind)
    BY <1>10, <2>1
  <2>3. Before(stack', n + 1) = Before(stack', n) \o Waiting(stack'[n])
    BY <2>2, BeforeNext
  <2> QED BY <2>1, <2>3
<1> QED BY <1>2, <1>3, <1>4, <1>5, <1>6, <1>8, <1>11, <1>12, <1>13

LEMMA Joined ==
    ASSUME NEW a \in Seq(TokenKind), NEW b \in Seq(TokenKind), NEW c \in Seq(TokenKind)
    PROVE  (a \o b) \o c = a \o (b \o c)
BY ConcatAssociative

\* A list that was begun and has no value more is begun alike.
LEMMA SameBegun ==
    ASSUME NEW f, NEW g, f.type = g.type, f.count = g.count, f.keys = g.keys, f.kids = g.kids
    PROVE  Begun(f) = Begun(g)
BY DEF Begun, FrameTag, Entries, Entry, Key

LEMMA KeyReads ==
    ASSUME RInv, IInv', phase = "list", phase' = "value", stack # <<>>, Top.type = "kvlist", Top.left > 0,
           NEW t \in Token, Wants("str", t), KeyFits(t.n), t.whole,
           stack' = Append(Below, [Top EXCEPT !.key = t.n])
    PROVE  RInv'
<1>1. PICK f : f = [Top EXCEPT !.key = t.n]
  OBVIOUS
<1>2. IsFrame(Top)
  BY TopFacts DEF RInv, IInv
<1>3. /\ f.type = Top.type /\ f.count = Top.count /\ f.left = Top.left /\ f.key = t.n
      /\ f.keys = Top.keys /\ f.kids = Top.kids
  BY <1>1, <1>2 DEF IsFrame
<1>4. t.type = "str" /\ t.n \in Nat /\ t = String(t.n) /\ Canonical(t) = t
  BY TokenAssumption DEF Wants, TokenKind, String, Canonical
<1>5. t.n \in 0..(KeyRoom - 1)
  BY <1>4, RoomAssumption DEF KeyFits
<1>6. FrameOK(Top, Len(seen) - Len(stack))
  <2>1. PICK S : stack \in Seq(S)
    BY SizeFacts
  <2>2. Len(stack) \in Nat \ {0} /\ Last(stack) = stack[Len(stack)]
    BY <2>1, PopFacts
  <2>3. Len(stack) \in 1..Len(stack) /\ Top = stack[Len(stack)]
    BY <2>2 DEF Top
  <2> QED BY <2>3 DEF RInv, Shape
<1>7. FrameOK(f, Len(seen) - Len(stack))
  BY <1>3, <1>5, <1>6 DEF FrameOK
<1>8. /\ seen' \in Seq(Token) /\ Len(seen') = Len(seen) + 1 /\ Len(seen') <= MaxTokens
      /\ Read' = Read \o <<Canonical(t)>>
  BY ReadMore
<1>9. Len(seen') \in Nat /\ Len(seen) <= Len(seen')
  BY <1>8, SizeFacts
<1>10. stack' = Append(Below, f) /\ phase' # "got" /\ f.left > 0
  BY <1>1, <1>3
<1>11. /\ Shape'
       /\ Len(stack) \in Nat \ {0} /\ Len(stack') = Len(stack)
       /\ Before(stack, Len(stack)) \in Seq(TokenKind)
       /\ Before(stack', Len(stack) + 1) = Before(stack, Len(stack)) \o Waiting(f)
       /\ Begun(Top) \in Seq(TokenKind) /\ Pending(f) \in Seq(TokenKind)
  BY <1>7, <1>8, <1>9, <1>10, SwapShape
<1>12. Waiting(f) = Begun(Top) \o <<t>>
  <2>1. Begun(f) = Begun(Top)
    BY <1>3, SameBegun
  <2>2. Pending(f) = <<t>>
    BY <1>3, <1>4 DEF Pending
  <2> QED BY <2>1, <2>2 DEF Waiting
<1>13. Read = Before(stack, Len(stack)) \o Begun(Top)
  BY DEF RInv, ReadSoFar
<1>14. <<t>> \in Seq(TokenKind)
  BY CanonicalType
<1>15. Read' = Before(stack, Len(stack)) \o (Begun(Top) \o <<t>>)
  <2>1. Read' = (Before(stack, Len(stack)) \o Begun(Top)) \o <<t>>
    BY <1>4, <1>8, <1>13
  <2>2. (Before(stack, Len(stack)) \o Begun(Top)) \o <<t>>
          = Before(stack, Len(stack)) \o (Begun(Top) \o <<t>>)
    BY <1>11, <1>14, Joined
  <2> QED BY <2>1, <2>2
<1>16. Read' = Before(stack', Len(stack') + 1)
  BY <1>11, <1>12, <1>15
<1>17. ReadSoFar'
  BY <1>16 DEF ReadSoFar
<1> QED BY <1>11, <1>17 DEF RInv

LEMMA ElementReads ==
    ASSUME RInv, IInv', NextElement
    PROVE  RInv'
<1>1. /\ phase = "list" /\ Top.type = "array" /\ Top.left > 0 /\ phase' = "value"
      /\ UNCHANGED <<seen, stack, got, code>> /\ stack # <<>>
  BY DEF NextElement, RInv, IInv, Course
<1>3. PICK S : stack \in Seq(S)
  BY SizeFacts
<1>4. Len(stack) \in Nat \ {0} /\ Top = stack[Len(stack)]
  BY <1>1, <1>3, PopFacts DEF Top
<1>2. Shape'
  <2>1. \A i \in 1..Len(stack) : i < Len(stack) \/ i = Len(stack)
    BY <1>4
  <2>2. Unfinished'
    BY <1>1, <1>4, <2>1 DEF RInv, Shape, Unfinished
  <2> QED BY <1>1, <2>2 DEF RInv, Shape
<1>5. PICK n \in Nat \ {0} : n = Len(stack)
  BY <1>4
<1>6. \A j \in 1..n : Waiting(stack[j]) \in Seq(TokenKind)
  BY <1>5, SizeFacts
<1>7. Before(stack, n + 1) = Before(stack, n) \o Waiting(Top)
  BY <1>4, <1>5, <1>6, BeforeNext
<1>8. Waiting(Top) = Begun(Top)
  <2>1. FrameOK(Top, Len(seen) - n)
    BY <1>4, <1>5 DEF RInv, Shape
  <2>2. n \in 1..Len(stack)
    BY <1>5
  <2>3. Len(seen) - n \in Nat /\ Len(seen) - n < MaxTokens /\ MaxTokens \in Nat
    BY <2>2, SizeFacts
  <2>4. Len(seen) - n <= MaxTokens
    BY <2>3
  <2>5. Begun(Top) \in Seq(TokenKind)
    BY <2>1, <2>3, <2>4, FrameFacts
  <2> QED BY <1>1, <2>5, ConcatEmptySeq DEF Waiting, Pending
<1>9. Read = Before(stack, n) \o Begun(Top)
  BY <1>1, <1>5 DEF RInv, ReadSoFar
<1>10. Read = Before(stack, n + 1)
  BY <1>7, <1>8, <1>9
<1>11. Read' = Before(stack', Len(stack') + 1)
  BY <1>1, <1>5, <1>10 DEF Read
<1>12. ReadSoFar'
  BY <1>1, <1>11 DEF ReadSoFar
<1> QED BY <1>2, <1>12 DEF RInv

\* The innermost list, and the depth of its values.
LEMMA TopOK ==
    ASSUME RInv, stack # <<>>
    PROVE  /\ Len(stack) \in Nat \ {0} /\ Top = stack[Len(stack)]
           /\ FrameOK(Top, Len(seen) - Len(stack))
           /\ Len(seen) - Len(stack) \in Nat /\ Len(seen) - Len(stack) < MaxTokens
           /\ Len(seen) - Len(stack) <= MaxTokens
           /\ IsFrame(Top)
<1>1. PICK S : stack \in Seq(S)
  BY SizeFacts
<1>2. Len(stack) \in Nat \ {0} /\ Top = stack[Len(stack)]
  BY <1>1, PopFacts DEF Top
<1>3. Len(stack) \in 1..Len(stack)
  BY <1>2
<1>4. Len(seen) - Len(stack) \in Nat /\ Len(seen) - Len(stack) < MaxTokens /\ MaxTokens \in Nat
  BY <1>3, SizeFacts
<1>5. Len(seen) - Len(stack) <= MaxTokens
  BY <1>4
<1>6. FrameOK(Top, Len(seen) - Len(stack))
  BY <1>2, <1>3 DEF RInv, Shape
<1>7. IsFrame(Top)
  BY TopFacts DEF RInv, IInv
<1> QED BY <1>2, <1>4, <1>5, <1>6, <1>7

\* A list with one value more is written with one entry more.
LEMMA BegunMore ==
    ASSUME NEW d \in Nat, d <= MaxTokens, NEW f, FrameOK(f, d), NEW g, FrameOK(g, d),
           NEW v \in Upto(d),
           g.type = f.type, g.count = f.count,
           g.keys = Append(f.keys, f.key), g.kids = Append(f.kids, v)
    PROVE  Begun(g) = Waiting(f) \o Pack(v)
<1>1. PICK n \in Nat : n = Len(f.kids)
  BY LenProperties DEF FrameOK
<1>2. Listed(f) /\ Listed(g)
  BY FrameFacts
<1>3. /\ Len(g.kids) = n + 1 /\ g.kids[n + 1] = v
      /\ \A i \in 1..n : g.kids[i] = f.kids[i]
  BY <1>1, AppendProperties DEF FrameOK
<1>4. g.keys[n + 1] = f.key /\ \A i \in 1..n : g.keys[i] = f.keys[i]
  BY <1>1, AppendProperties DEF FrameOK
<1>5. Entries(g, n + 1) = Entries(g, n) \o Entry(g, n + 1)
  <2>1. n < Len(g.kids)
    BY <1>3
  <2> QED BY <1>2, <2>1, OneEntryMore
<1>6. Entries(g, n) = Entries(f, n)
  BY <1>3, <1>4, SameEntries
<1>7. Entry(g, n + 1) = Pending(f) \o Pack(v)
  BY <1>3, <1>4 DEF Entry, Key, Pending
<1>8. FrameTag(g) = FrameTag(f)
  BY DEF FrameTag
<1>9. Begun(g) = <<FrameTag(f)>> \o (Entries(f, n) \o (Pending(f) \o Pack(v)))
  BY <1>3, <1>5, <1>6, <1>7, <1>8 DEF Begun
<1>10. /\ <<FrameTag(f)>> \in Seq(TokenKind) /\ Entries(f, n) \in Seq(TokenKind)
       /\ Begun(f) \in Seq(TokenKind) /\ Pending(f) \in Seq(TokenKind)
  BY <1>1, FrameFacts
<1>11. Pack(v) \in Seq(TokenKind)
  BY PackFacts
<1>12. Pending(f) \o Pack(v) \in Seq(TokenKind)
  BY <1>10, <1>11, ConcatProperties
<1>13. Begun(g) = Begun(f) \o (Pending(f) \o Pack(v))
  BY <1>1, <1>9, <1>10, <1>12, Joined DEF Begun
<1>14. Begun(f) \o (Pending(f) \o Pack(v)) = (Begun(f) \o Pending(f)) \o Pack(v)
  BY <1>10, <1>11, Joined
<1> QED BY <1>13, <1>14 DEF Waiting

LEMMA AddReads ==
    ASSUME RInv, IInv', Add
    PROVE  RInv'
<1>1. PICK f : f = [Top EXCEPT !.left = @ - 1,
                               !.keys = Append(@, Top.key),
                               !.kids = Append(@, got),
                               !.blocks = @ \cup blocks]
  OBVIOUS
<1>2. /\ phase = "got" /\ stack # <<>> /\ stack' = Append(Below, f) /\ phase' = "list"
      /\ seen' = seen
  BY <1>1 DEF Add, RInv, IInv, Course
<1>3. PICK d \in Nat : d = Len(seen) - Len(stack) /\ d <= MaxTokens
  BY <1>2, TopOK
<1>4. FrameOK(Top, d) /\ IsFrame(Top)
  BY <1>2, <1>3, TopOK
<1>5. /\ f.type = Top.type /\ f.count = Top.count /\ f.left = Top.left - 1 /\ f.key = Top.key
      /\ f.keys = Append(Top.keys, Top.key) /\ f.kids = Append(Top.kids, got)
  BY <1>1, <1>4 DEF IsFrame
<1>6. got \in Upto(d)
  BY <1>2, <1>3 DEF RInv, Shape
<1>7. Top.left > 0
  <2>1. Len(stack) \in 1..Len(stack) /\ Top = stack[Len(stack)]
    BY <1>2, TopOK
  <2> QED BY <1>2, <2>1 DEF RInv, Shape, Unfinished
<1>8. FrameOK(f, d)
  <2>1. /\ f.keys \in Seq(0..(KeyRoom - 1)) /\ Len(f.keys) = Len(Top.keys) + 1
        /\ f.kids \in Seq(Upto(d)) /\ Len(f.kids) = Len(Top.kids) + 1
    BY <1>4, <1>5, <1>6, AppendProperties DEF FrameOK
  <2>2. f.left \in Nat /\ f.count = f.left + Len(f.kids)
    <3>1. PICK n \in Nat : n = Len(Top.kids)
      BY <1>4, LenProperties DEF FrameOK
    <3>2. Top.left \in Nat /\ f.count = Top.left + n /\ Len(f.kids) = n + 1
      BY <1>4, <1>5, <2>1, <3>1 DEF FrameOK
    <3> QED BY <1>5, <1>7, <3>2
  <2> QED BY <1>4, <1>5, <2>1, <2>2 DEF FrameOK
<1>9. Begun(f) = Waiting(Top) \o Pack(got)
  BY <1>3, <1>4, <1>5, <1>6, <1>8, BegunMore
<1>10. /\ seen' \in Seq(Token) /\ Len(seen') \in Nat /\ Len(seen) <= Len(seen')
       /\ Len(seen') <= MaxTokens /\ phase' # "got"
  BY <1>2, SizeFacts DEF RInv, Shape
<1>11. /\ Shape'
       /\ Len(stack) \in Nat \ {0} /\ Len(stack') = Len(stack)
       /\ Top' = f
       /\ Before(stack', Len(stack)) = Before(stack, Len(stack))
       /\ Before(stack, Len(stack)) \in Seq(TokenKind)
       /\ Before(stack, Len(stack) + 1) = Before(stack, Len(stack)) \o Waiting(Top)
       /\ Begun(Top) \in Seq(TokenKind) /\ Pending(Top) \in Seq(TokenKind)
  BY <1>2, <1>3, <1>8, <1>10, SwapShape
<1>12. Waiting(Top) \in Seq(TokenKind) /\ Pack(got) \in Seq(TokenKind)
  BY <1>3, <1>6, <1>11, PackFacts, ConcatProperties DEF Waiting
<1>13. Read = (Before(stack, Len(stack)) \o Waiting(Top)) \o Pack(got)
  BY <1>2, <1>11 DEF RInv, ReadSoFar
<1>14. Read = Before(stack, Len(stack)) \o (Waiting(Top) \o Pack(got))
  BY <1>11, <1>12, <1>13, Joined
<1>15. Read' = Read
  BY <1>2 DEF Read
<1>16. Read' = Before(stack', Len(stack')) \o Begun(Top')
  BY <1>9, <1>11, <1>14, <1>15
<1>17. ReadSoFar'
  BY <1>2, <1>16 DEF ReadSoFar
<1> QED BY <1>11, <1>17 DEF RInv

ClosedList == Value(Top.type, Top.count, IF Top.type = "array" THEN <<>> ELSE Top.keys, Top.kids)

LEMMA ClosedFacts ==
    ASSUME RInv, stack # <<>>, Top.left = 0
    PROVE  /\ ClosedList \in Lists(Upto(Len(seen) - Len(stack)))
           /\ ClosedList \in Upto(Len(seen) - Len(stack) + 1)
           /\ ClosedList \in Values
           /\ Pack(ClosedList) = Begun(Top)
<1>1. PICK d \in Nat : d = Len(seen) - Len(stack) /\ d < MaxTokens /\ d <= MaxTokens
  BY TopOK
<1>2. FrameOK(Top, d)
  BY <1>1, TopOK
<1>3. PICK v : v = ClosedList
  OBVIOUS
<1>4. v = [type |-> Top.type, n |-> Top.count,
           keys |-> IF Top.type = "array" THEN <<>> ELSE Top.keys, kids |-> Top.kids]
  BY <1>3 DEF ClosedList, Value
<1>5. Top.count = Len(Top.kids) /\ Top.count = Len(Top.keys)
  <2>1. PICK n \in Nat : n = Len(Top.kids)
    BY <1>2, LenProperties DEF FrameOK
  <2>2. Top.count = 0 + n /\ Len(Top.keys) = n
    BY <1>2, <2>1 DEF FrameOK
  <2> QED BY <2>1, <2>2
<1>6. <<>> \in Seq(0..(KeyRoom - 1))
  OBVIOUS
<1>7. v \in [type : {"array", "kvlist"}, n : Nat, keys : Seq(0..(KeyRoom - 1)),
             kids : Seq(Upto(d))]
  BY <1>2, <1>4, <1>6 DEF FrameOK
<1>8. v \in Lists(Upto(d))
  BY <1>2, <1>4, <1>5, <1>7 DEF Lists, FrameOK
<1>9. /\ v \in Upto(d + 1) /\ v \in Values
      /\ Pack(v) = <<Tag(v)>> \o Entries(v, Len(v.kids))
  BY <1>1, <1>8, ListPack
<1>10. Tag(v) = FrameTag(Top)
  <2>1. v.type \in {"array", "kvlist"} /\ v.type = Top.type /\ Len(v.kids) = Top.count
    BY <1>2, <1>4, <1>5 DEF FrameOK
  <2>2. Tag(v).type = IF Top.type = "array" THEN "array" ELSE "map"
    BY <2>1 DEF Tag
  <2>3. Tag(v).n = Top.count /\ Tag(v).whole = TRUE
    BY <2>1 DEF Tag
  <2>4. Tag(v) = [type |-> Tag(v).type, n |-> Tag(v).n, whole |-> Tag(v).whole]
    BY DEF Tag
  <2> QED BY <2>2, <2>3, <2>4 DEF FrameTag
<1>11. Entries(v, Len(v.kids)) = Entries(Top, Len(Top.kids))
  <2>1. PICK n \in Nat : n = Len(Top.kids)
    BY <1>2, LenProperties DEF FrameOK
  <2>2. /\ v.type = Top.type /\ v.kids = Top.kids
        /\ v.type = "kvlist" => v.keys = Top.keys
    BY <1>4
  <2>3. Entries(v, n) = Entries(Top, n)
    BY <2>2, SameEntries
  <2> QED BY <2>1, <2>2, <2>3
<1>12. Pack(v) = Begun(Top)
  BY <1>9, <1>10, <1>11 DEF Begun
<1> QED BY <1>1, <1>3, <1>8, <1>9, <1>12

LEMMA CloseReads ==
    ASSUME RInv, IInv', CloseList
    PROVE  RInv'
<1>1. /\ phase = "list" /\ stack # <<>> /\ Top.left = 0 /\ stack' = Below /\ seen' = seen
      /\ code = 0
  BY DEF CloseList, RInv, IInv, Course
<1>2. /\ ClosedList \in Upto(Len(seen) - Len(stack) + 1)
      /\ ClosedList \in Values
      /\ Pack(ClosedList) = Begun(Top)
  BY <1>1, ClosedFacts
<1>3. /\ Len(stack) \in Nat \ {0} /\ Len(stack') = Len(stack) - 1
      /\ \A i \in 1..(Len(stack) - 1) : stack'[i] = stack[i]
  BY <1>1, BelowFacts DEF RInv, IInv
<1>4. Read = Before(stack, Len(stack)) \o Pack(ClosedList)
  BY <1>1, <1>2 DEF RInv, ReadSoFar
<1>5. Read' = Read
  BY <1>1 DEF Read
<1>6. /\ Len(stack') \in Nat /\ Len(stack') <= Len(stack)
      /\ \A i \in 1..Len(stack') : stack'[i] = stack[i] /\ i \in 1..Len(stack) /\ i < Len(stack)
  BY <1>3
<1>7. \/ phase' = "done" /\ got' = ClosedList /\ code' = code /\ Len(stack) = 1
      \/ phase' = "got" /\ got' = ClosedList
      \/ phase' = "failed"
  BY <1>1 DEF CloseList, ClosedList, Raise
<1>8. CASE phase' = "failed"
  <2>1. \A i \in 1..Len(stack') : stack'[i] = stack[i]
    BY <1>6
  <2> QED BY <1>1, <1>6, <1>8, <2>1, FailReads
<1>9. CASE phase' # "failed"
  <2>1. \A i \in 1..Len(stack') : FrameOK(stack'[i], Len(seen') - i)
    <3>1. PICK n \in Nat : n = Len(stack')
      BY <1>6
    <3>2. n <= Len(stack) /\ \A i \in 1..n : stack'[i] = stack[i]
      BY <1>6, <3>1
    <3>3. Len(seen') \in Nat /\ Len(seen) <= Len(seen')
      BY <1>1, SizeFacts
    <3>4. \A i \in 1..n : FrameOK(stack'[i], Len(seen') - i)
      BY <3>2, <3>3, ShapeOfRest
    <3> QED BY <3>1, <3>4
  <2>2. Unfinished'
    BY <1>6 DEF RInv, Shape, Unfinished
  <2>3. Len(seen') - Len(stack') = Len(seen) - Len(stack) + 1
    BY <1>1, <1>3, SizeFacts
  <2>4. phase' = "got" => got' \in Upto(Len(seen') - Len(stack'))
    BY <1>2, <1>7, <2>3
  <2>5. Shape'
    <3>1. Len(stack') <= Len(seen')
      BY <1>1, <1>6, SizeFacts
    <3> QED BY <1>1, <2>1, <2>2, <2>4, <3>1 DEF RInv, Shape
  <2>6. Before(stack', Len(stack') + 1) = Before(stack, Len(stack))
    <3>1. PICK n \in Nat : n = Len(stack) /\ Len(stack') + 1 = n
      BY <1>3
    <3>2. \A i \in 1..(n - 1) : stack'[i] = stack[i]
      BY <1>3, <3>1
    <3>3. Before(stack', n) = Before(stack, n)
      BY <3>2, BeforeSame
    <3> QED BY <3>1, <3>3
  <2>7. CASE phase' = "got"
    <3>1. Read' = Before(stack', Len(stack') + 1) \o Pack(got')
      BY <1>4, <1>5, <1>7, <2>6, <2>7
    <3>2. ReadSoFar'
      BY <2>7, <3>1 DEF ReadSoFar
    <3> QED BY <2>5, <3>2 DEF RInv
  <2>8. CASE phase' = "done"
    <3>1. Len(stack) = 1 /\ got' = ClosedList
      BY <1>7, <2>8
    <3>2. Before(stack, Len(stack)) = <<>>
      BY <3>1, BeforeFirst
    <3>3. Pack(ClosedList) \in Seq(TokenKind)
      BY <1>2, PackValue
    <3>4. Read' = Pack(got')
      BY <1>4, <1>5, <3>1, <3>2, <3>3, ConcatEmptySeq
    <3>5. ReadSoFar'
      BY <2>8, <3>4 DEF ReadSoFar
    <3> QED BY <2>5, <3>5 DEF RInv
  <2> QED BY <1>7, <1>9, <2>7, <2>8
<1> QED BY <1>8, <1>9

-----------------------------------------------------------------------------
(* All steps.                                                              *)

LEMMA InitRInv == Init => RInv
<1> SUFFICES ASSUME Init PROVE RInv
  OBVIOUS
<1>1. IInv
  BY InitIInv
<1>2. /\ seen = <<>> /\ Len(seen) = 0 /\ stack = <<>> /\ Len(stack) = 0
      /\ seen \in Seq(Token) /\ phase = "value"
  BY EmptySeq DEF Init
<1>3. Shape
  BY <1>2, RoomAssumption DEF Shape, Unfinished
<1>4. Read = <<>> /\ Before(stack, Len(stack) + 1) = <<>>
  BY <1>2, BeforeFirst DEF Read
<1>5. ReadSoFar
  BY <1>2, <1>4 DEF ReadSoFar
<1> QED BY <1>1, <1>3, <1>5 DEF RInv

\* The stack stays, and the step fails.
LEMMA FailsInPlace ==
    ASSUME RInv, IInv', stack' = stack,
           seen' = seen \/ \E t \in Token : Wants(t.type, t),
           phase' \in {"failed", "broken"} \/ (phase' = "done" /\ code' # 0)
    PROVE  RInv'
<1>1. Len(stack') \in Nat /\ Len(stack') <= Len(stack)
      /\ \A i \in 1..Len(stack') : stack'[i] = stack[i]
  BY SizeFacts
<1> QED BY <1>1, FailReads

LEMMA LeafOfToken ==
    ASSUME NEW tag, NEW type, NEW t \in Token, t.type = tag, NEW n,
           \/ tag = "str" /\ type = "string" /\ n = t.n /\ t.whole
           \/ tag = "bin" /\ type = "bytes" /\ n = t.n /\ t.whole
           \/ tag = "bool" /\ type = "bool" /\ n = t.n
           \/ tag = "double" /\ type = "double" /\ n = t.n
           \/ tag = "int" /\ type = "int" /\ n = t.n
           \/ tag = "uint" /\ type = "int" /\ n = AsInt64(t.n)
    PROVE  Scalar(type, n) \in Leaves /\ Tag(Scalar(type, n)) = Canonical(t)
<1>1. PICK v : v = Scalar(type, n)
  OBVIOUS
<1>2. v = [type |-> type, n |-> n, keys |-> <<>>, kids |-> <<>>]
  BY <1>1 DEF Scalar, Value
<1>3. /\ t = [type |-> t.type, n |-> t.n, whole |-> t.whole] /\ t.n \in Int
      /\ t.type \in {"str", "bin"} => t.n \in Nat
      /\ t.type = "uint" => t.n \in 0..(2 * Half - 1)
      /\ t.type = "int" => t.n \in (-Half)..(Half - 1)
      /\ t.type \notin {"str", "bin"} => t.whole
  BY TokenAssumption DEF TokenKind
<1>4. t.whole = TRUE
  BY <1>3, TokenAssumption DEF TokenKind
<1>5. t = [type |-> tag, n |-> t.n, whole |-> TRUE]
  BY <1>3, <1>4
<1>6. Half \in Nat \ {0}
  BY RoomAssumption
<1>7. CASE tag \in {"str", "bin"}
  <2>1. v \in Leaves
    BY <1>2, <1>3, <1>7 DEF Leaves
  <2>2. Tag(v) = [type |-> tag, n |-> t.n, whole |-> TRUE]
    <3>1. n = t.n /\ v.n = n /\ v.type = type /\ type \notin {"array", "kvlist"}
      BY <1>2, <1>7
    <3>2. CASE tag = "str" /\ type = "string"
      BY <3>1, <3>2 DEF Tag
    <3>3. CASE tag = "bin" /\ type = "bytes"
      BY <3>1, <3>3 DEF Tag
    <3> QED BY <1>7, <3>2, <3>3
  <2>3. Canonical(t) = t
    BY <1>7 DEF Canonical
  <2> QED BY <1>1, <1>5, <2>1, <2>2, <2>3
<1>8. CASE tag \in {"bool", "double"}
  <2>1. v \in Leaves
    BY <1>2, <1>3, <1>8 DEF Leaves
  <2>2. Tag(v) = [type |-> tag, n |-> t.n, whole |-> TRUE]
    <3>1. n = t.n /\ v.n = n /\ v.type = type /\ type \notin {"array", "kvlist"}
      BY <1>2, <1>8
    <3>2. CASE tag = "bool" /\ type = "bool"
      BY <3>1, <3>2 DEF Tag
    <3>3. CASE tag = "double" /\ type = "double"
      BY <3>1, <3>3 DEF Tag
    <3> QED BY <1>8, <3>2, <3>3
  <2>3. Canonical(t) = t
    BY <1>8 DEF Canonical
  <2> QED BY <1>1, <1>5, <2>1, <2>2, <2>3
<1>9. CASE tag \in {"int", "uint"}
  <2>1. type = "int" /\ n \in (-Half)..(Half - 1) /\ n \in Int
    BY <1>3, <1>6, <1>9 DEF AsInt64
  <2>2. v \in Leaves
    BY <1>2, <2>1 DEF Leaves
  <2>3. Tag(v) = [type |-> IF n >= 0 THEN "uint" ELSE "int", n |-> n, whole |-> TRUE]
    BY <1>2, <2>1 DEF Tag
  <2>4. CASE tag = "int"
    <3>1. n = t.n /\ ~(t.type = "uint")
      BY <2>4
    <3>2. Canonical(t) = IF t.n >= 0 THEN [type |-> "uint", n |-> t.n, whole |-> TRUE] ELSE t
      BY <1>4, <2>4 DEF Canonical
    <3> QED BY <1>1, <1>5, <2>2, <2>3, <2>4, <3>1, <3>2
  <2>5. CASE tag = "uint" /\ t.n >= Half
    <3>1. n = t.n - 2 * Half /\ ~(n >= 0)
      BY <1>3, <1>6, <2>5 DEF AsInt64
    <3>2. Canonical(t) = [type |-> "int", n |-> t.n - 2 * Half, whole |-> TRUE]
      BY <1>4, <2>5 DEF Canonical
    <3> QED BY <1>1, <2>2, <2>3, <3>1, <3>2
  <2>6. CASE tag = "uint" /\ ~(t.n >= Half)
    <3>1. n = t.n /\ n >= 0
      BY <1>3, <1>6, <2>6 DEF AsInt64
    <3>2. Canonical(t) = t
      BY <2>6 DEF Canonical
    <3> QED BY <1>1, <1>5, <2>2, <2>3, <2>6, <3>1, <3>2
  <2> QED BY <1>9, <2>4, <2>5, <2>6
<1> QED BY <1>7, <1>8, <1>9

LEMMA StringReads ==
    ASSUME RInv, IInv', NEW tag, NEW type, unpack_cfl_variant_string(tag, type),
           \/ tag = "str" /\ type = "string"
           \/ tag = "bin" /\ type = "bytes"
    PROVE  RInv'
<1>1. PICK t \in Token :
        /\ Wants(tag, t)
        /\ \/ /\ phase' = "failed" /\ stack' = stack
           \/ t.whole /\ Deliver(Scalar(type, t.n), {next, next + 1})
  BY DEF unpack_cfl_variant_string, Raise
<1>2. phase = "value" /\ t.type = tag /\ Wants(t.type, t)
  BY <1>1 DEF unpack_cfl_variant_string, WantsValue, Wants
<1>3. CASE phase' = "failed" /\ stack' = stack
  BY <1>2, <1>3, FailsInPlace
<1>4. CASE t.whole /\ Deliver(Scalar(type, t.n), {next, next + 1})
  <2>1. Scalar(type, t.n) \in Leaves /\ Tag(Scalar(type, t.n)) = Canonical(t)
    BY <1>2, <1>4, LeafOfToken
  <2> QED BY <1>2, <1>4, <2>1, LeafReads
<1> QED BY <1>1, <1>3, <1>4

LEMMA ScalarReads ==
    ASSUME RInv, IInv', phase = "value", NEW tag, NEW type, NEW t \in Token, Wants(tag, t), NEW n,
           \/ phase' = "failed" /\ stack' = stack
           \/ Deliver(Scalar(type, n), {next}),
           \/ tag = "bool" /\ type = "bool" /\ n = t.n
           \/ tag = "double" /\ type = "double" /\ n = t.n
           \/ tag = "int" /\ type = "int" /\ n = t.n
           \/ tag = "uint" /\ type = "int" /\ n = AsInt64(t.n)
    PROVE  RInv'
<1>1. t.type = tag /\ Wants(t.type, t)
  BY DEF Wants
<1>2. Scalar(type, n) \in Leaves /\ Tag(Scalar(type, n)) = Canonical(t)
  BY <1>1, LeafOfToken
<1>3. CASE phase' = "failed" /\ stack' = stack
  BY <1>1, <1>3, FailsInPlace
<1>4. CASE Deliver(Scalar(type, n), {next})
  BY <1>1, <1>2, <1>4, LeafReads
<1> QED BY <1>3, <1>4

\* The four kinds of numbers, as the steps name them.
LEMMA ScalarKinds ==
    ASSUME \/ unpack_cfl_variant_scalar("bool", "bool", Same)
           \/ unpack_cfl_variant_scalar("uint", "int", AsInt64)
           \/ unpack_cfl_variant_scalar("int", "int", Same)
           \/ unpack_cfl_variant_scalar("double", "double", Same)
    PROVE  /\ phase = "value" /\ stack # <<>>
           /\ \E t \in Token : \E tag, type, n :
                /\ Wants(tag, t)
                /\ \/ phase' = "failed" /\ stack' = stack /\ Hungry("scalar") /\ err' = err
                   \/ Deliver(Scalar(type, n), {next})
                /\ \/ tag = "bool" /\ type = "bool" /\ n = t.n
                   \/ tag = "double" /\ type = "double" /\ n = t.n
                   \/ tag = "int" /\ type = "int" /\ n = t.n
                   \/ tag = "uint" /\ type = "int" /\ n = AsInt64(t.n)
<1>1. CASE unpack_cfl_variant_scalar("bool", "bool", Same)
  <2>1. PICK t \in Token :
          /\ Wants("bool", t)
          /\ \/ phase' = "failed" /\ stack' = stack /\ Hungry("scalar") /\ err' = err
             \/ Deliver(Scalar("bool", t.n), {next})
    BY <1>1 DEF unpack_cfl_variant_scalar, Raise, Same
  <2> QED BY <1>1, <2>1 DEF unpack_cfl_variant_scalar, WantsValue
<1>2. CASE unpack_cfl_variant_scalar("uint", "int", AsInt64)
  <2>1. PICK t \in Token :
          /\ Wants("uint", t)
          /\ \/ phase' = "failed" /\ stack' = stack /\ Hungry("scalar") /\ err' = err
             \/ Deliver(Scalar("int", AsInt64(t.n)), {next})
    BY <1>2 DEF unpack_cfl_variant_scalar, Raise
  <2> QED BY <1>2, <2>1 DEF unpack_cfl_variant_scalar, WantsValue
<1>3. CASE unpack_cfl_variant_scalar("int", "int", Same)
  <2>1. PICK t \in Token :
          /\ Wants("int", t)
          /\ \/ phase' = "failed" /\ stack' = stack /\ Hungry("scalar") /\ err' = err
             \/ Deliver(Scalar("int", t.n), {next})
    BY <1>3 DEF unpack_cfl_variant_scalar, Raise, Same
  <2> QED BY <1>3, <2>1 DEF unpack_cfl_variant_scalar, WantsValue
<1>4. CASE unpack_cfl_variant_scalar("double", "double", Same)
  <2>1. PICK t \in Token :
          /\ Wants("double", t)
          /\ \/ phase' = "failed" /\ stack' = stack /\ Hungry("scalar") /\ err' = err
             \/ Deliver(Scalar("double", t.n), {next})
    BY <1>4 DEF unpack_cfl_variant_scalar, Raise, Same
  <2> QED BY <1>4, <2>1 DEF unpack_cfl_variant_scalar, WantsValue
<1> QED BY <1>1, <1>2, <1>3, <1>4

LEMMA ArrayReads ==
    ASSUME RInv, IInv', unpack_cfl_array
    PROVE  RInv'
<1>1. PICK t \in Token :
        /\ Wants("array", t)
        /\ \/ phase' = "failed" /\ stack' = stack
           \/ t.n < SizeLimit /\ OpenList("array", t)
  BY DEF unpack_cfl_array, Raise
<1>2. phase = "value" /\ Wants(t.type, t)
  BY <1>1 DEF unpack_cfl_array, WantsValue, Wants
<1>3. CASE phase' = "failed" /\ stack' = stack
  BY <1>2, <1>3, FailsInPlace
<1>4. CASE t.n < SizeLimit /\ OpenList("array", t)
  <2>1. "array" \in {"array", "map"} /\ "array" = IF "array" = "map" THEN "kvlist" ELSE "array"
    OBVIOUS
  <2> QED BY <1>1, <1>2, <1>4, <2>1, OpenReads
<1> QED BY <1>1, <1>3, <1>4

LEMMA KvlistReads ==
    ASSUME RInv, IInv', unpack_cfl_kvlist
    PROVE  RInv'
<1>1. PICK t \in Token :
        /\ Wants(t.type, t)
        /\ \/ /\ phase' = IF stack = <<>> THEN "done" ELSE "failed"
              /\ code' # 0 /\ stack' = stack
           \/ Wants("map", t) /\ OpenList("kvlist", t)
  <2>1. PICK t \in Token :
        \/ /\ Wants("map", t)
           /\ \/ /\ phase' = (IF stack = <<>> THEN "done" ELSE "failed") /\ code' = -3
                 /\ stack' = stack
              \/ OpenList("kvlist", t)
        \/ /\ stack = <<>> /\ Wants(t.type, t)
           /\ phase' = "done" /\ code' = -2 /\ stack' = stack
    BY DEF unpack_cfl_kvlist, Raise
  <2>2. Wants(t.type, t)
    BY <2>1 DEF Wants
  <2> QED BY <2>1, <2>2
<1>2. phase = "value"
  BY DEF unpack_cfl_kvlist
<1>3. CASE Wants("map", t) /\ OpenList("kvlist", t)
  <2>1. "map" \in {"array", "map"} /\ "kvlist" = IF "map" = "map" THEN "kvlist" ELSE "array"
    OBVIOUS
  <2> QED BY <1>2, <1>3, <2>1, OpenReads
<1>4. CASE /\ phase' = IF stack = <<>> THEN "done" ELSE "failed"
           /\ code' # 0 /\ stack' = stack
  BY <1>1, <1>4, FailsInPlace
<1> QED BY <1>1, <1>3, <1>4

LEMMA ReadKeyReads ==
    ASSUME RInv, IInv', ReadKey
    PROVE  RInv'
<1>1. phase = "list" /\ Top.type = "kvlist" /\ Top.left > 0 /\ stack # <<>>
  BY DEF ReadKey, RInv, IInv, Course
<1>2. \/ /\ phase' = "broken" /\ stack' = stack
         /\ seen' = seen \/ \E t \in Token : Wants(t.type, t)
      \/ \E t \in Token : /\ Wants("str", t) /\ KeyFits(t.n) /\ t.whole
                          /\ stack' = Append(Below, [Top EXCEPT !.key = t.n])
                          /\ phase' = "value"
  BY DEF ReadKey, Raise, Wants
<1>3. CASE /\ phase' = "broken" /\ stack' = stack
           /\ seen' = seen \/ \E t \in Token : Wants(t.type, t)
  BY <1>3, FailsInPlace
<1>4. CASE \E t \in Token : /\ Wants("str", t) /\ KeyFits(t.n) /\ t.whole
                            /\ stack' = Append(Below, [Top EXCEPT !.key = t.n])
                            /\ phase' = "value"
  BY <1>1, <1>4, KeyReads
<1> QED BY <1>2, <1>3, <1>4

LEMMA StepRInv == RInv /\ [Next]_vars => RInv'
<1> SUFFICES ASSUME RInv, [Next]_vars PROVE RInv'
  OBVIOUS
<1>0. IInv'
  BY StepIInv DEF RInv
<1>1. CASE EndOfInput
  <2>1. /\ stack' = stack /\ seen' = seen
        /\ phase' = (IF stack = <<>> THEN "done" ELSE "failed") /\ code' = -1
    BY <1>1 DEF EndOfInput, Raise
  <2> QED BY <1>0, <2>1, FailsInPlace
<1>2. CASE Unsupported
  <2>1. /\ stack' = stack /\ \E t \in Token : Wants(t.type, t)
        /\ phase' = "failed"
    BY <1>2 DEF Unsupported, Raise
  <2> QED BY <1>0, <2>1, FailsInPlace
<1>3. CASE \/ unpack_cfl_variant_string("str", "string")
           \/ unpack_cfl_variant_string("bin", "bytes")
  BY <1>0, <1>3, StringReads
<1>4. CASE \/ unpack_cfl_variant_scalar("bool", "bool", Same)
           \/ unpack_cfl_variant_scalar("uint", "int", AsInt64)
           \/ unpack_cfl_variant_scalar("int", "int", Same)
           \/ unpack_cfl_variant_scalar("double", "double", Same)
  BY <1>0, <1>4, ScalarKinds, ScalarReads
<1>5. CASE unpack_cfl_array
  BY <1>0, <1>5, ArrayReads
<1>6. CASE unpack_cfl_kvlist
  BY <1>0, <1>6, KvlistReads
<1>7. CASE ReadKey
  BY <1>0, <1>7, ReadKeyReads
<1>8. CASE NextElement
  BY <1>0, <1>8, ElementReads
<1>9. CASE Add
  BY <1>0, <1>9, AddReads
<1>10. CASE AppendFails \/ InsertFails
  <2>1. stack' = stack /\ seen' = seen /\ phase' = "broken"
    BY <1>10 DEF AppendFails, InsertFails, Raise
  <2> QED BY <1>0, <2>1, FailsInPlace
<1>12. CASE CloseList
  BY <1>0, <1>12, CloseReads
<1>13. CASE GiveUp
  <2>1. /\ stack' = Below /\ seen' = seen /\ stack # <<>>
        /\ phase' \in {"done", "failed"} /\ code' # 0
    <3>1. stack' = Below /\ seen' = seen /\ phase' \in {"done", "failed"}
      BY <1>13 DEF GiveUp
    <3>2. code # 0 /\ stack # <<>> /\ phase \in {"failed", "broken"}
      BY <1>13 DEF GiveUp, RInv, IInv, Course
    <3>3. Answer # 0
      BY <3>2 DEF Answer
    <3> QED BY <1>13, <3>1, <3>2, <3>3 DEF GiveUp
  <2>2. /\ Len(stack) \in Nat \ {0} /\ Len(stack') = Len(stack) - 1
        /\ \A i \in 1..(Len(stack) - 1) : stack'[i] = stack[i]
    BY <2>1, BelowFacts DEF RInv, IInv
  <2>3. /\ Len(stack') \in Nat /\ Len(stack') <= Len(stack)
        /\ \A i \in 1..Len(stack') : stack'[i] = stack[i]
    BY <2>2
  <2> QED BY <1>0, <2>1, <2>3, FailReads
<1>14. CASE UNCHANGED vars
  BY <1>0, <1>14 DEF vars, RInv, Shape, Unfinished, ReadSoFar, Read, Top
<1> QED
  BY <1>1, <1>2, <1>3, <1>4, <1>5, <1>6, <1>7, <1>8, <1>9, <1>10, <1>12, <1>13, <1>14 DEF Next

\* A map of attributes of any depth that was read, whoever wrote it, packs to the
\* tokens that it was read from, but for the integers of 2^63 and more: no entry
\* is lost, moved to another list or put under another key (unpack_cfl_kvlist and
\* unpack_cfl_array against pack_cfl_variant).
THEOREM ReadingLosesNothing == Spec => []RepacksAlike
<1>1. Init => RInv
  BY InitRInv
<1>2. RInv /\ [Next]_vars => RInv'
  BY StepRInv
<1>3. RInv => RepacksAlike
  BY DEF RInv, ReadSoFar, RepacksAlike, Done, Read
<1> QED BY <1>1, <1>2, <1>3, PTL DEF Spec

-----------------------------------------------------------------------------
(* Beginnings of messages.                                                 *)

LEMMA PrefixIs ==
    ASSUME NEW s \in Seq(TokenKind), NEW t \in Seq(TokenKind)
    PROVE  IsPrefix(s, t) <=> Len(s) <= Len(t) /\ \A i \in 1..Len(s) : s[i] = t[i]
<1>1. Len(s) \in Nat /\ Len(t) \in Nat
  BY LenProperties
<1>2. SubSeq(s, 1, Len(s)) = s
  BY SubSeqFull
<1>3. ASSUME Len(s) <= Len(t)
      PROVE  SubSeq(t, 1, Len(s)) = s <=> \A i \in 1..Len(s) : s[i] = t[i]
  <2>1. PICK n \in Nat : n = Len(s)
    BY <1>1
  <2>2. \A i \in 1..n : t[i] \in TokenKind
    BY <1>1, <1>3, <2>1, ElementOfSeq
  <2>3. /\ SubSeq(t, 1, n) \in Seq(TokenKind)
        /\ Len(SubSeq(t, 1, n)) = IF 1 <= n THEN n - 1 + 1 ELSE 0
        /\ \A i \in 1..(n - 1 + 1) : SubSeq(t, 1, n)[i] = t[1 + i - 1]
    BY <2>2, SubSeqProperties
  <2>4. Len(SubSeq(t, 1, n)) = n
    BY <2>3
  <2>5. \A i \in 1..n : SubSeq(t, 1, n)[i] = t[i]
    BY <2>3
  <2>6. (\A i \in 1..n : SubSeq(t, 1, n)[i] = s[i]) => SubSeq(t, 1, n) = s
    BY <2>1, <2>3, <2>4, SeqEqual
  <2> QED BY <2>1, <2>5, <2>6
<1> QED BY <1>2, <1>3 DEF IsPrefix

LEMMA PrefixOfPrefix ==
    ASSUME NEW a \in Seq(TokenKind), NEW b \in Seq(TokenKind), NEW c \in Seq(TokenKind),
           IsPrefix(a, b), IsPrefix(b, c)
    PROVE  IsPrefix(a, c)
<1>1. Len(a) \in Nat /\ Len(b) \in Nat /\ Len(c) \in Nat
  BY LenProperties
<1>2. /\ Len(a) <= Len(b) /\ \A i \in 1..Len(a) : a[i] = b[i]
      /\ Len(b) <= Len(c) /\ \A i \in 1..Len(b) : b[i] = c[i]
  BY PrefixIs
<1>3. Len(a) <= Len(c) /\ \A i \in 1..Len(a) : a[i] = c[i]
  BY <1>1, <1>2
<1> QED BY <1>3, PrefixIs

LEMMA ConcatParts ==
    ASSUME NEW a \in Seq(TokenKind), NEW b \in Seq(TokenKind)
    PROVE  /\ a \o b \in Seq(TokenKind) /\ Len(a) \in Nat /\ Len(b) \in Nat
           /\ Len(a \o b) = Len(a) + Len(b)
           /\ \A i \in 1..Len(a) : (a \o b)[i] = a[i]
           /\ \A i \in 1..Len(b) : (a \o b)[Len(a) + i] = b[i]
<1>1. /\ a \o b \in Seq(TokenKind) /\ Len(a) \in Nat /\ Len(b) \in Nat
      /\ Len(a \o b) = Len(a) + Len(b)
      /\ \A i \in 1..(Len(a) + Len(b)) :
            (a \o b)[i] = IF i <= Len(a) THEN a[i] ELSE b[i - Len(a)]
  BY ConcatProperties, LenProperties
<1>2. \A i \in 1..Len(a) : (a \o b)[i] = a[i]
  BY <1>1
<1>3. ASSUME NEW i \in 1..Len(b) PROVE (a \o b)[Len(a) + i] = b[i]
  <2>1. /\ Len(a) + i \in 1..(Len(a) + Len(b)) /\ ~(Len(a) + i <= Len(a))
        /\ (Len(a) + i) - Len(a) = i
    BY <1>1
  <2> QED BY <1>1, <2>1
<1> QED BY <1>1, <1>2, <1>3

LEMMA PrefixOfConcat ==
    ASSUME NEW a \in Seq(TokenKind), NEW b \in Seq(TokenKind)
    PROVE  IsPrefix(a, a \o b)
<1>1. Len(a) <= Len(a \o b) /\ \A i \in 1..Len(a) : a[i] = (a \o b)[i]
  BY ConcatParts
<1> QED BY <1>1, ConcatParts, PrefixIs

LEMMA PrefixAfter ==
    ASSUME NEW a \in Seq(TokenKind), NEW b \in Seq(TokenKind), NEW c \in Seq(TokenKind),
           IsPrefix(b, c)
    PROVE  IsPrefix(a \o b, a \o c)
<1>1. Len(b) <= Len(c) /\ \A i \in 1..Len(b) : b[i] = c[i]
  BY PrefixIs
<1>2. /\ a \o b \in Seq(TokenKind) /\ a \o c \in Seq(TokenKind)
      /\ Len(a) \in Nat /\ Len(b) \in Nat /\ Len(c) \in Nat
      /\ Len(a \o b) = Len(a) + Len(b) /\ Len(a \o c) = Len(a) + Len(c)
  BY ConcatParts
<1>3. /\ \A i \in 1..Len(a) : (a \o b)[i] = a[i]
      /\ \A i \in 1..Len(b) : (a \o b)[Len(a) + i] = b[i]
  BY ConcatParts
<1>4. /\ \A i \in 1..Len(a) : (a \o c)[i] = a[i]
      /\ \A i \in 1..Len(c) : (a \o c)[Len(a) + i] = c[i]
  BY ConcatParts
<1>5. ASSUME NEW i \in 1..Len(a \o b) PROVE (a \o b)[i] = (a \o c)[i]
  <2>1. CASE i \in 1..Len(a)
    BY <1>3, <1>4, <2>1
  <2>2. CASE i \notin 1..Len(a)
    <3>1. PICK j \in 1..Len(b) : i = Len(a) + j
      <4>1. i - Len(a) \in 1..Len(b) /\ i = Len(a) + (i - Len(a))
        BY <1>2, <2>2
      <4> QED BY <4>1
    <3>2. j \in 1..Len(c)
      BY <1>1, <1>2
    <3> QED BY <1>1, <1>3, <1>4, <3>1, <3>2
  <2> QED BY <2>1, <2>2
<1>6. Len(a \o b) <= Len(a \o c)
  BY <1>1, <1>2
<1> QED BY <1>2, <1>5, <1>6, PrefixIs

LEMMA EntriesPrefix ==
    ASSUME NEW v, Listed(v), NEW k \in Nat, NEW n \in Nat, k <= n, n <= Len(v.kids)
    PROVE  IsPrefix(Entries(v, k), Entries(v, n))
<1> DEFINE S == {j \in Nat : k + j <= Len(v.kids) => IsPrefix(Entries(v, k), Entries(v, k + j))}
<1>0. Len(v.kids) \in Nat
  BY LenProperties DEF Listed
<1>1. 0 \in S
  <2>1. k + 0 = k /\ k <= Len(v.kids)
    BY <1>0
  <2>2. Entries(v, k) \in Seq(TokenKind)
    BY <2>1, EntriesType
  <2>3. Len(Entries(v, k)) <= Len(Entries(v, k))
    BY <2>2, LenProperties
  <2> QED BY <2>1, <2>2, <2>3, PrefixIs
<1>2. ASSUME NEW j \in Nat, j \in S PROVE j + 1 \in S
  <2>1. SUFFICES ASSUME k + (j + 1) <= Len(v.kids)
                 PROVE  IsPrefix(Entries(v, k), Entries(v, k + (j + 1)))
    OBVIOUS
  <2>2. PICK i \in Nat : i = k + j /\ k + (j + 1) = i + 1
    <3>1. k + j \in Nat /\ k + (j + 1) = (k + j) + 1
      OBVIOUS
    <3> QED BY <3>1
  <2>3. i < Len(v.kids) /\ i <= Len(v.kids) /\ i + 1 \in 1..Len(v.kids) /\ k <= Len(v.kids)
    BY <1>0, <2>1, <2>2
  <2>4. Entries(v, i + 1) = Entries(v, i) \o Entry(v, i + 1)
    BY <2>3, OneEntryMore
  <2>5. /\ Entries(v, k) \in Seq(TokenKind) /\ Entries(v, i) \in Seq(TokenKind)
        /\ Entry(v, i + 1) \in Seq(TokenKind)
    BY <2>3, EntriesType, EntryType
  <2>6. IsPrefix(Entries(v, k), Entries(v, i))
    BY <1>2, <2>2, <2>3
  <2>7. IsPrefix(Entries(v, i), Entries(v, i + 1)) /\ Entries(v, i + 1) \in Seq(TokenKind)
    BY <2>4, <2>5, PrefixOfConcat, ConcatProperties
  <2> QED BY <2>2, <2>5, <2>6, <2>7, PrefixOfPrefix
<1> HIDE DEF S
<1>3. Nat \subseteq S
  BY <1>1, <1>2, Induction
<1>4. n - k \in Nat /\ k + (n - k) = n
  OBVIOUS
<1> QED BY <1>3, <1>4 DEF S

\* The token after those that were seen, in a message that begins with them.
LEMMA TokenAfter ==
    ASSUME NEW s \in Seq(TokenKind), NEW t \in TokenKind, NEW m \in Seq(TokenKind),
           IsPrefix(Append(s, t), m),
           NEW a \in Seq(TokenKind), NEW b \in Seq(TokenKind), Len(a) = Len(s), b # <<>>,
           IsPrefix(a \o b, m)
    PROVE  t = b[1]
<1>1. /\ Append(s, t) \in Seq(TokenKind) /\ Len(Append(s, t)) = Len(s) + 1
      /\ Append(s, t)[Len(s) + 1] = t /\ Len(s) \in Nat
  BY AppendProperties, LenProperties
<1>2. Len(s) + 1 \in 1..Len(Append(s, t))
  BY <1>1
<1>3. m[Len(s) + 1] = t
  BY <1>1, <1>2, PrefixIs
<1>4. /\ a \o b \in Seq(TokenKind) /\ Len(b) \in Nat \ {0}
      /\ Len(a \o b) = Len(s) + Len(b)
      /\ \A i \in 1..Len(b) : (a \o b)[Len(s) + i] = b[i]
  <2>1. /\ a \o b \in Seq(TokenKind) /\ Len(b) \in Nat
        /\ Len(a \o b) = Len(a) + Len(b)
        /\ \A i \in 1..Len(b) : (a \o b)[Len(a) + i] = b[i]
    BY ConcatParts
  <2>2. Len(b) # 0
    BY EmptySeq
  <2> QED BY <2>1, <2>2
<1>5. Len(s) + 1 \in 1..Len(a \o b) /\ 1 \in 1..Len(b)
  BY <1>1, <1>4
<1>6. (a \o b)[Len(s) + 1] = b[1]
  BY <1>4, <1>5
<1>7. m[Len(s) + 1] = b[1]
  BY <1>4, <1>5, <1>6, PrefixIs
<1> QED BY <1>3, <1>7

LEMMA PrefixShorter ==
    ASSUME NEW s \in Seq(TokenKind), NEW t \in TokenKind, NEW m \in Seq(TokenKind),
           IsPrefix(Append(s, t), m)
    PROVE  IsPrefix(s, m)
<1>1. <<t>> \in Seq(TokenKind) /\ Append(s, t) = s \o <<t>> /\ Append(s, t) \in Seq(TokenKind)
  BY AppendIsConcat, AppendProperties
<1> QED BY <1>1, PrefixOfConcat, PrefixOfPrefix

LEMMA PrefixItself ==
    ASSUME NEW s \in Seq(TokenKind)
    PROVE  IsPrefix(s, s)
<1>1. Len(s) <= Len(s)
  BY LenProperties
<1> QED BY <1>1, PrefixIs

-----------------------------------------------------------------------------
(* What a message of this library promises of its next token.              *)

LEMMA FirstToken ==
    ASSUME NEW v \in Values
    PROVE  /\ Pack(v) \in Seq(TokenKind) /\ Pack(v) # <<>> /\ Pack(v)[1] = Tag(v)
           /\ v \in Leaves => Pack(v) = <<Tag(v)>>
<1>1. Pack(v) \in Seq(TokenKind)
  BY PackValue
<1>2. CASE v \in Leaves
  <2>1. 0 \in Nat
    OBVIOUS
  <2>2. Pack(v) = <<Tag(v)>>
    BY <1>2, <2>1, LeafPack
  <2> QED BY <1>1, <2>2
<1>3. CASE v \notin Leaves
  <2>1. /\ v \in Lists(Values) /\ Listed(v)
        /\ Pack(v) = <<Tag(v)>> \o Entries(v, Len(v.kids))
    BY <1>3, ValueParts
  <2>2. Len(v.kids) \in Nat /\ Len(v.kids) <= Len(v.kids)
    BY <2>1, LenProperties DEF Listed
  <2>3. <<Tag(v)>> \in Seq(TokenKind) /\ Entries(v, Len(v.kids)) \in Seq(TokenKind)
    BY <2>1, <2>2, EntriesType, TagType
  <2>4. /\ Len(Pack(v)) = Len(<<Tag(v)>>) + Len(Entries(v, Len(v.kids)))
        /\ Len(Entries(v, Len(v.kids))) \in Nat
        /\ \A i \in 1..Len(<<Tag(v)>>) : Pack(v)[i] = <<Tag(v)>>[i]
    BY <2>1, <2>3, ConcatParts
  <2>5. Len(<<Tag(v)>>) = 1 /\ <<Tag(v)>>[1] = Tag(v)
    OBVIOUS
  <2>6. Len(Pack(v)) # 0 /\ Pack(v)[1] = Tag(v)
    BY <2>4, <2>5
  <2> QED BY <1>1, <1>3, <2>6, EmptySeq
<1> QED BY <1>2, <1>3

\* The type of the tag tells what follows, and an own tag is canonical.
LEMMA TagTells ==
    ASSUME NEW v \in Values
    PROVE  /\ Tag(v).type \notin {"nil", "float"}
           /\ Tag(v).type \in {"array", "map"} => v \in Lists(Values) /\ Listed(v)
           /\ Tag(v).type = "array" => v.type = "array" /\ Tag(v).n = Len(v.kids)
                                       /\ Tag(v).n \in Nat /\ Tag(v).n < SizeLimit
           /\ Tag(v).type = "map" => v.type = "kvlist" /\ Tag(v).n = Len(v.kids)
           /\ v.type = "kvlist" => Tag(v).type = "map"
           /\ Tag(v).type \notin {"array", "map"} => v \in Leaves /\ Canonical(Tag(v)) = Tag(v)
<1>1. CASE v \in Leaves
  <2>1. /\ v.type \in {"string", "bytes", "bool", "double", "int"}
        /\ v.type = "int" => v.n \in (-Half)..(Half - 1)
    BY <1>1, LeafFacts
  <2>2. CASE v.type = "int"
    <3>1. Tag(v) = [type |-> IF v.n >= 0 THEN "uint" ELSE "int", n |-> v.n, whole |-> TRUE]
      BY <2>2 DEF Tag
    <3>2. Tag(v).type = (IF v.n >= 0 THEN "uint" ELSE "int") /\ Tag(v).n = v.n
      BY <3>1
    <3>3. ~(v.n >= Half) /\ v.n \in Int
      BY <2>1, <2>2, RoomAssumption
    <3>4. Canonical(Tag(v)) = Tag(v)
      BY <3>2, <3>3 DEF Canonical
    <3> QED BY <1>1, <2>2, <3>2, <3>4
  <2>3. CASE v.type = "string"
    <3>1. Tag(v).type = "str"
      BY <2>3 DEF Tag
    <3> QED BY <1>1, <2>3, <3>1 DEF Canonical
  <2>4. CASE v.type = "bytes"
    <3>1. Tag(v).type = "bin"
      BY <2>4 DEF Tag
    <3> QED BY <1>1, <2>4, <3>1 DEF Canonical
  <2>5. CASE v.type = "bool"
    <3>1. Tag(v).type = "bool"
      BY <2>5 DEF Tag
    <3> QED BY <1>1, <2>5, <3>1 DEF Canonical
  <2>6. CASE v.type = "double"
    <3>1. Tag(v).type = "double"
      BY <2>6 DEF Tag
    <3> QED BY <1>1, <2>6, <3>1 DEF Canonical
  <2> QED BY <2>1, <2>2, <2>3, <2>4, <2>5, <2>6
<1>2. CASE v \notin Leaves
  <2>1. v \in Lists(Values) /\ Listed(v)
    BY <1>2, ValueParts
  <2>2. /\ v.type \in {"array", "kvlist"} /\ v.n \in Nat /\ v.n = Len(v.kids)
        /\ v.type = "array" => v.n < SizeLimit
    BY <2>1, ListFacts
  <2>3. Tag(v).n = Len(v.kids)
    BY <2>2 DEF Tag
  <2>4. CASE v.type = "array"
    <3>1. Tag(v).type = "array"
      BY <2>4 DEF Tag
    <3> QED BY <2>1, <2>2, <2>3, <2>4, <3>1
  <2>5. CASE v.type = "kvlist"
    <3>1. Tag(v).type = "map"
      BY <2>5 DEF Tag
    <3> QED BY <2>1, <2>2, <2>3, <2>5, <3>1
  <2> QED BY <2>2, <2>4, <2>5
<1> QED BY <1>1, <1>2

-----------------------------------------------------------------------------
(* A message of this library, and the way that the reader goes through it. *)

NextKid(f, w) == w.kids[Len(f.kids) + 1]

\* The list w is the one that f is being read from.
Follows(f, w) ==
    /\ w \in Values /\ w \in Lists(Values) /\ Listed(w)
    /\ w.type = f.type /\ Len(w.kids) = f.count
    /\ Entries(w, Len(f.kids)) = Entries(f, Len(f.kids))

KeyMatches(f, w) == f.type = "kvlist" => f.key = w.keys[Len(f.kids) + 1]

Along(m, path) ==
    /\ \A i \in 1..Len(stack) : /\ Follows(stack[i], path[i])
                                /\ IsPrefix(Before(stack, i) \o Pack(path[i]), m)
    /\ \A i \in 1..Len(stack) :
          i < Len(stack) \/ phase \in {"value", "got"} => KeyMatches(stack[i], path[i])
    /\ \A i \in 1..Len(stack) : i < Len(stack) => path[i + 1] = NextKid(stack[i], path[i])
    /\ phase = "got" => Pack(got) = Pack(NextKid(Top, path[Len(stack)]))

OnPath(v) ==
    phase \in {"value", "list", "got"} /\ IsPrefix(seen, Pack(v)) =>
        \E path : Along(Pack(v), path)

Refused(v) ==
    /\ phase \in {"failed", "broken"} \/ (phase = "done" /\ code # 0)
    /\ starved = {} /\ ~err
    => ~IsPrefix(seen, Pack(v))

PInv ==
    /\ RInv
    /\ phase = "value" /\ stack = <<>> => seen = <<>>
    /\ \A v \in OwnValues : OnPath(v) /\ Refused(v)

\* The list at the top, and what its original goes on with.
LEMMA Ahead ==
    ASSUME RInv, stack # <<>>, Top.left > 0, NEW w, Follows(Top, w)
    PROVE  /\ Len(Top.kids) + 1 \in 1..Len(w.kids) /\ Len(Top.kids) < Len(w.kids)
           /\ NextKid(Top, w) \in Values
           /\ Entry(w, Len(Top.kids) + 1) = Key(w, Len(Top.kids) + 1) \o Pack(NextKid(Top, w))
           /\ Key(w, Len(Top.kids) + 1) \in Seq(TokenKind)
           /\ Begun(Top) \o Entry(w, Len(Top.kids) + 1) \in Seq(TokenKind)
           /\ IsPrefix(Begun(Top) \o Entry(w, Len(Top.kids) + 1), Pack(w))
<1>1. PICK d \in Nat : d = Len(seen) - Len(stack) /\ d <= MaxTokens
  BY TopOK
<1>2. FrameOK(Top, d)
  BY <1>1, TopOK
<1>3. PICK k \in Nat : k = Len(Top.kids)
  BY <1>2, LenProperties DEF FrameOK
<1>4. Listed(w) /\ w \in Values /\ w \in Lists(Values) /\ Len(w.kids) = Top.count
      /\ w.type = Top.type /\ Entries(w, k) = Entries(Top, k)
  BY <1>3 DEF Follows
<1>5. PICK n \in Nat : n = Len(w.kids)
  BY <1>4, LenProperties DEF Listed
<1>6. n = Top.left + k /\ Top.left \in Nat
  BY <1>2, <1>3, <1>4, <1>5 DEF FrameOK
<1>7. k + 1 \in 1..n /\ k < n /\ k + 1 <= n /\ k <= n
  BY <1>6
<1>8. NextKid(Top, w) \in Values
  BY <1>3, <1>4, <1>5, <1>7, ElementOfSeq DEF NextKid, Listed
<1>9. Entry(w, k + 1) = Key(w, k + 1) \o Pack(NextKid(Top, w))
  BY <1>3 DEF Entry, NextKid
<1>10. Key(w, k + 1) \in Seq(TokenKind)
  <2>1. w.type = "kvlist" => k + 1 \in 1..Len(w.keys) /\ w.keys \in Seq(0..(KeyRoom - 1))
    BY <1>4, <1>5, <1>7 DEF Listed
  <2> QED BY <2>1, KeyType
<1>11. /\ Entry(w, k + 1) \in Seq(TokenKind) /\ Entries(w, k) \in Seq(TokenKind)
       /\ Entries(w, k + 1) \in Seq(TokenKind) /\ Entries(w, n) \in Seq(TokenKind)
  <2>1. n <= n
    BY <1>5
  <2> QED BY <1>4, <1>5, <1>7, <2>1, EntryType, EntriesType
<1>12. <<FrameTag(Top)>> \in Seq(TokenKind) /\ Begun(Top) \in Seq(TokenKind)
  BY <1>1, <1>2, FrameFacts
<1>13. Begun(Top) \o Entry(w, k + 1) = <<FrameTag(Top)>> \o Entries(w, k + 1)
  <2>1. Begun(Top) = <<FrameTag(Top)>> \o Entries(w, k)
    BY <1>3, <1>4 DEF Begun
  <2>2. Entries(w, k + 1) = Entries(w, k) \o Entry(w, k + 1)
    BY <1>4, <1>5, <1>7, OneEntryMore
  <2>3. (<<FrameTag(Top)>> \o Entries(w, k)) \o Entry(w, k + 1)
          = <<FrameTag(Top)>> \o (Entries(w, k) \o Entry(w, k + 1))
    BY <1>11, <1>12, Joined
  <2> QED BY <2>1, <2>2, <2>3
<1>14. Tag(w) = FrameTag(Top)
  <2>1. w.type \in {"array", "kvlist"} /\ Len(w.kids) = Top.count /\ w.type = Top.type
    BY <1>4, ListFacts
  <2>2. Tag(w).type = IF Top.type = "array" THEN "array" ELSE "map"
    BY <2>1 DEF Tag
  <2>3. Tag(w).n = Top.count /\ Tag(w).whole = TRUE
    BY <2>1 DEF Tag
  <2>4. Tag(w) = [type |-> Tag(w).type, n |-> Tag(w).n, whole |-> Tag(w).whole]
    BY DEF Tag
  <2> QED BY <2>2, <2>3, <2>4 DEF FrameTag
<1>15. Pack(w) = <<FrameTag(Top)>> \o Entries(w, n)
  <2>1. CASE w \in Leaves
    BY <1>4, <2>1, LeafFacts, ListFacts
  <2>2. CASE w \notin Leaves
    BY <1>4, <1>5, <1>14, <2>2, ValueParts
  <2> QED BY <2>1, <2>2
<1>16. IsPrefix(Entries(w, k + 1), Entries(w, n))
  <2>1. k + 1 \in Nat /\ n <= n
    BY <1>5
  <2> QED BY <1>4, <1>5, <1>7, <2>1, EntriesPrefix
<1>17. IsPrefix(Begun(Top) \o Entry(w, k + 1), Pack(w))
  BY <1>11, <1>12, <1>13, <1>15, <1>16, PrefixAfter
<1>18. Begun(Top) \o Entry(w, k + 1) \in Seq(TokenKind)
  BY <1>11, <1>12, ConcatProperties
<1> QED BY <1>3, <1>5, <1>7, <1>8, <1>9, <1>10, <1>17, <1>18

\* What was read is followed by the next entry of the innermost list.
LEMMA EntryAhead ==
    ASSUME RInv, stack # <<>>, Top.left > 0, NEW m \in Seq(TokenKind), NEW path, Along(m, path),
           NEW w, w = path[Len(stack)]
    PROVE  /\ Follows(Top, w)
           /\ Before(stack, Len(stack)) \in Seq(TokenKind)
           /\ Before(stack, Len(stack)) \o Begun(Top) \in Seq(TokenKind)
           /\ IsPrefix((Before(stack, Len(stack)) \o Begun(Top)) \o Entry(w, Len(Top.kids) + 1), m)
           /\ (Before(stack, Len(stack)) \o Begun(Top)) \o Entry(w, Len(Top.kids) + 1)
                 \in Seq(TokenKind)
           /\ Entry(w, Len(Top.kids) + 1) \in Seq(TokenKind)
<1>1. PICK n \in Nat \ {0} : n = Len(stack) /\ Top = stack[n]
  BY TopOK
<1>2. n \in 1..Len(stack)
  BY <1>1
<1>3. Follows(Top, w) /\ IsPrefix(Before(stack, n) \o Pack(w), m)
  BY <1>1, <1>2 DEF Along
<1>4. PICK e : e = Entry(w, Len(Top.kids) + 1)
  OBVIOUS
<1>5. /\ Begun(Top) \o e \in Seq(TokenKind)
      /\ IsPrefix(Begun(Top) \o e, Pack(w))
  BY <1>3, <1>4, Ahead
<1>6. e \in Seq(TokenKind)
  <2>1. Len(Top.kids) + 1 \in 1..Len(w.kids) /\ Listed(w)
    BY <1>3, Ahead DEF Follows
  <2> QED BY <1>4, <2>1, EntryType
<1>7. Before(stack, n) \in Seq(TokenKind)
  <2>1. \A j \in 1..n : Waiting(stack[j]) \in Seq(TokenKind)
    BY <1>1, SizeFacts
  <2> QED BY <2>1, BeforeNext
<1>8. Pack(w) \in Seq(TokenKind) /\ Begun(Top) \in Seq(TokenKind)
  <2>1. PICK d \in Nat : d = Len(seen) - Len(stack) /\ d <= MaxTokens
    BY TopOK
  <2>2. FrameOK(Top, d)
    BY <2>1, TopOK
  <2>3. Begun(Top) \in Seq(TokenKind)
    BY <2>1, <2>2, FrameFacts
  <2> QED BY <1>3, <2>3, PackValue DEF Follows
<1>9. IsPrefix(Before(stack, n) \o (Begun(Top) \o e), Before(stack, n) \o Pack(w))
  BY <1>5, <1>7, <1>8, PrefixAfter
<1>10. /\ Before(stack, n) \o (Begun(Top) \o e) \in Seq(TokenKind)
       /\ Before(stack, n) \o Pack(w) \in Seq(TokenKind)
       /\ Before(stack, n) \o Begun(Top) \in Seq(TokenKind)
  BY <1>5, <1>7, <1>8, ConcatProperties
<1>11. IsPrefix(Before(stack, n) \o (Begun(Top) \o e), m)
  BY <1>3, <1>9, <1>10, PrefixOfPrefix
<1>12. (Before(stack, n) \o Begun(Top)) \o e = Before(stack, n) \o (Begun(Top) \o e)
  BY <1>6, <1>7, <1>8, Joined
<1> QED BY <1>1, <1>3, <1>4, <1>6, <1>7, <1>10, <1>11, <1>12

\* The same where a value is wanted: what was read is followed by that value.
LEMMA ValueAhead ==
    ASSUME RInv, stack # <<>>, phase = "value", NEW m \in Seq(TokenKind), NEW path,
           Along(m, path), NEW w, w = path[Len(stack)], NEW kid, kid = NextKid(Top, w)
    PROVE  /\ Follows(Top, w) /\ kid \in Values
           /\ Before(stack, Len(stack) + 1) \in Seq(TokenKind)
           /\ Before(stack, Len(stack) + 1) \o Pack(kid) \in Seq(TokenKind)
           /\ IsPrefix(Before(stack, Len(stack) + 1) \o Pack(kid), m)
<1>1. PICK n \in Nat \ {0} : n = Len(stack) /\ Top = stack[n]
  BY TopOK
<1>2. n \in 1..Len(stack)
  BY <1>1
<1>3. Top.left > 0
  BY <1>1, <1>2 DEF RInv, Shape, Unfinished
<1>4. PICK e : e = Entry(w, Len(Top.kids) + 1)
  OBVIOUS
<1>5. /\ Follows(Top, w)
      /\ Before(stack, n) \in Seq(TokenKind)
      /\ Before(stack, n) \o Begun(Top) \in Seq(TokenKind)
      /\ IsPrefix((Before(stack, n) \o Begun(Top)) \o e, m)
      /\ (Before(stack, n) \o Begun(Top)) \o e \in Seq(TokenKind)
  BY <1>1, <1>3, <1>4, EntryAhead
<1>6. kid \in Values /\ e = Key(w, Len(Top.kids) + 1) \o Pack(kid)
  BY <1>3, <1>4, <1>5, Ahead
<1>7. Key(w, Len(Top.kids) + 1) = Pending(Top)
  <2>1. KeyMatches(Top, w) /\ w.type = Top.type
    BY <1>1, <1>2, <1>5 DEF Along, Follows
  <2> QED BY <2>1 DEF KeyMatches, Key, Pending
<1>8. /\ Begun(Top) \in Seq(TokenKind) /\ Pending(Top) \in Seq(TokenKind)
      /\ Waiting(Top) \in Seq(TokenKind)
  <2>1. PICK d \in Nat : d = Len(seen) - Len(stack) /\ d <= MaxTokens
    BY TopOK
  <2>2. FrameOK(Top, d)
    BY <2>1, TopOK
  <2> QED BY <2>1, <2>2, FrameFacts
<1>9. Pack(kid) \in Seq(TokenKind)
  BY <1>6, PackValue
<1>10. (Before(stack, n) \o Begun(Top)) \o e
          = ((Before(stack, n) \o Begun(Top)) \o Pending(Top)) \o Pack(kid)
  <2>1. PICK a \in Seq(TokenKind) : a = Before(stack, n) \o Begun(Top)
    BY <1>5
  <2>2. e = Pending(Top) \o Pack(kid)
    BY <1>6, <1>7
  <2>3. a \o (Pending(Top) \o Pack(kid)) = (a \o Pending(Top)) \o Pack(kid)
    BY <1>8, <1>9, Joined
  <2> QED BY <2>1, <2>2, <2>3
<1>11. (Before(stack, n) \o Begun(Top)) \o Pending(Top) = Before(stack, n) \o Waiting(Top)
  <2>1. (Before(stack, n) \o Begun(Top)) \o Pending(Top)
          = Before(stack, n) \o (Begun(Top) \o Pending(Top))
    <3>1. PICK a \in Seq(TokenKind) : a = Before(stack, n)
      BY <1>5
    <3>2. PICK b \in Seq(TokenKind) : b = Begun(Top)
      BY <1>8
    <3>3. PICK c \in Seq(TokenKind) : c = Pending(Top)
      BY <1>8
    <3>4. (a \o b) \o c = a \o (b \o c)
      BY Joined
    <3> QED BY <3>1, <3>2, <3>3, <3>4
  <2> QED BY <2>1 DEF Waiting
<1>12. Before(stack, n + 1) = Before(stack, n) \o Waiting(Top)
  <2>1. \A j \in 1..n : Waiting(stack[j]) \in Seq(TokenKind)
    BY <1>1, SizeFacts
  <2> QED BY <1>1, <2>1, BeforeNext
<1>13. Before(stack, n + 1) \in Seq(TokenKind)
  <2>1. Before(stack, n) \in Seq(TokenKind) /\ Waiting(Top) \in Seq(TokenKind)
    BY <1>5, <1>8
  <2>2. Before(stack, n) \o Waiting(Top) \in Seq(TokenKind)
    BY <2>1, ConcatProperties
  <2> QED BY <1>12, <2>2
<1>14. (Before(stack, n) \o Begun(Top)) \o e = Before(stack, n + 1) \o Pack(kid)
  BY <1>10, <1>11, <1>12
<1> QED BY <1>1, <1>5, <1>6, <1>13, <1>14

\* The token that comes is the one that the message has there.
LEMMA ValueToken ==
    ASSUME PInv, phase = "value", stack # <<>>, NEW t \in Token, Wants(t.type, t),
           NEW m \in Seq(TokenKind), NEW path, Along(m, path), IsPrefix(seen', m)
    PROVE  /\ NextKid(Top, path[Len(stack)]) \in Values
           /\ t = Tag(NextKid(Top, path[Len(stack)]))
<1>1. PICK kid : kid = NextKid(Top, path[Len(stack)])
  OBVIOUS
<1>2. RInv
  BY DEF PInv
<1>3. /\ kid \in Values
      /\ Before(stack, Len(stack) + 1) \in Seq(TokenKind)
      /\ IsPrefix(Before(stack, Len(stack) + 1) \o Pack(kid), m)
  BY <1>1, <1>2, ValueAhead
<1>4. Pack(kid) \in Seq(TokenKind) /\ Pack(kid) # <<>> /\ Pack(kid)[1] = Tag(kid)
  BY <1>3, FirstToken
<1>5. /\ seen \in Seq(TokenKind) /\ t \in TokenKind /\ seen' = Append(seen, t)
      /\ Len(Before(stack, Len(stack) + 1)) = Len(seen)
  <2>1. seen \in Seq(Token) /\ Token \subseteq TokenKind
    BY <1>2, CanonicalType DEF RInv, Shape
  <2>2. seen \in Seq(TokenKind)
    BY <2>1, SeqMonotonic
  <2>3. Before(stack, Len(stack) + 1) = Read
    BY <1>2 DEF RInv, ReadSoFar
  <2> QED BY <1>2, <2>1, <2>2, <2>3, SizeFacts DEF Wants
<1>6. IsPrefix(Append(seen, t), m)
  BY <1>5
<1>7. t = Pack(kid)[1]
  BY <1>3, <1>4, <1>5, <1>6, TokenAfter
<1> QED BY <1>1, <1>3, <1>4, <1>7

LEMMA KeyToken ==
    ASSUME PInv, phase = "list", stack # <<>>, Top.type = "kvlist", Top.left > 0,
           NEW t \in Token, Wants(t.type, t),
           NEW m \in Seq(TokenKind), NEW path, Along(m, path), IsPrefix(seen', m)
    PROVE  /\ t = String(path[Len(stack)].keys[Len(Top.kids) + 1])
           /\ path[Len(stack)].keys[Len(Top.kids) + 1] \in 0..(KeyRoom - 1)
<1>1. PICK w : w = path[Len(stack)]
  OBVIOUS
<1>2. RInv
  BY DEF PInv
<1>3. PICK e : e = Entry(w, Len(Top.kids) + 1)
  OBVIOUS
<1>4. PICK a : a = Before(stack, Len(stack)) \o Begun(Top)
  OBVIOUS
<1>5. Follows(Top, w) /\ a \in Seq(TokenKind) /\ IsPrefix(a \o e, m) /\ e \in Seq(TokenKind)
  BY <1>1, <1>2, <1>3, <1>4, EntryAhead
<1>6. PICK key : key = w.keys[Len(Top.kids) + 1]
  OBVIOUS
<1>7. /\ NextKid(Top, w) \in Values /\ Len(Top.kids) + 1 \in 1..Len(w.kids)
      /\ e = Key(w, Len(Top.kids) + 1) \o Pack(NextKid(Top, w))
  BY <1>2, <1>3, <1>5, Ahead
<1>8. Key(w, Len(Top.kids) + 1) = <<String(key)>>
  BY <1>5, <1>6 DEF Key, Follows
<1>9. key \in 0..(KeyRoom - 1)
  <2>1. Len(Top.kids) + 1 \in 1..Len(w.keys) /\ w.keys \in Seq(0..(KeyRoom - 1))
    BY <1>5, <1>7 DEF Follows, Listed
  <2> QED BY <1>6, <2>1, ElementOfSeq
<1>10. e # <<>> /\ e[1] = String(key)
  <2>1. <<String(key)>> \in Seq(TokenKind) /\ Pack(NextKid(Top, w)) \in Seq(TokenKind)
    BY <1>7, <1>9, StringType, PackValue, RoomAssumption
  <2>2. /\ Len(e) = Len(<<String(key)>>) + Len(Pack(NextKid(Top, w)))
        /\ Len(Pack(NextKid(Top, w))) \in Nat
        /\ \A i \in 1..Len(<<String(key)>>) : e[i] = <<String(key)>>[i]
    BY <1>7, <1>8, <2>1, ConcatParts
  <2>3. Len(<<String(key)>>) = 1 /\ <<String(key)>>[1] = String(key)
    OBVIOUS
  <2>4. Len(e) # 0 /\ e[1] = String(key)
    BY <2>2, <2>3
  <2> QED BY <2>4, EmptySeq
<1>11. /\ seen \in Seq(TokenKind) /\ t \in TokenKind /\ seen' = Append(seen, t)
       /\ Len(a) = Len(seen)
  <2>1. seen \in Seq(Token) /\ Token \subseteq TokenKind
    BY <1>2, CanonicalType DEF RInv, Shape
  <2>2. seen \in Seq(TokenKind)
    BY <2>1, SeqMonotonic
  <2>3. a = Read
    BY <1>2, <1>4 DEF RInv, ReadSoFar
  <2> QED BY <1>2, <2>1, <2>2, <2>3, SizeFacts DEF Wants
<1>12. IsPrefix(Append(seen, t), m)
  BY <1>11
<1>13. t = e[1]
  BY <1>5, <1>10, <1>11, <1>12, TokenAfter
<1> QED BY <1>1, <1>6, <1>9, <1>10, <1>13

LEMMA FirstOfAll ==
    ASSUME PInv, phase = "value", stack = <<>>, NEW t \in Token, Wants(t.type, t),
           NEW v \in Values, IsPrefix(seen', Pack(v))
    PROVE  t = Tag(v)
<1>1. seen = <<>> /\ seen' = Append(seen, t) /\ t \in TokenKind
  BY CanonicalType DEF PInv, Wants
<1>2. Pack(v) \in Seq(TokenKind) /\ Pack(v) # <<>> /\ Pack(v)[1] = Tag(v)
  BY FirstToken
<1>3. <<>> \in Seq(TokenKind) /\ <<>> \o Pack(v) = Pack(v) /\ IsPrefix(Pack(v), Pack(v))
  BY <1>2, ConcatEmptySeq, PrefixItself
<1>4. IsPrefix(<<>> \o Pack(v), Pack(v)) /\ IsPrefix(Append(<<>>, t), Pack(v))
      /\ Len(<<>>) = Len(<<>>)
  BY <1>1, <1>3
<1>5. t = Pack(v)[1]
  BY <1>1, <1>2, <1>3, <1>4, TokenAfter
<1> QED BY <1>2, <1>5

\* Whoever begins with more begins with less.
LEMMA SeenBefore ==
    ASSUME RInv, NEW v \in Values, IsPrefix(seen', Pack(v)),
           seen' = seen \/ \E t \in Token : Wants(t.type, t)
    PROVE  IsPrefix(seen, Pack(v))
<1>1. CASE seen' = seen
  BY <1>1
<1>2. CASE \E t \in Token : Wants(t.type, t)
  <2>1. PICK t \in Token : seen' = Append(seen, t) /\ t \in TokenKind
    BY <1>2, CanonicalType DEF Wants
  <2>2. seen \in Seq(Token) /\ Token \subseteq TokenKind
    BY CanonicalType DEF RInv, Shape
  <2>3. seen \in Seq(TokenKind)
    BY <2>2, SeqMonotonic
  <2> QED BY <2>1, <2>3, PackValue, PrefixShorter
<1> QED BY <1>1, <1>2

-----------------------------------------------------------------------------
(* The steps on the way.                                                   *)

\* A step that fails, or stays failed: what was seen begins no own message,
\* unless memory or the input ended.
LEMMA FailKeepsPath ==
    ASSUME PInv, RInv',
           phase' \in {"failed", "broken"} \/ phase' = "done",
           \A v \in OwnValues : starved' = {} /\ ~err' /\ code' # 0 => ~IsPrefix(seen', Pack(v))
    PROVE  PInv'
<1>1. RInv' /\ ~(phase' \in {"value", "list", "got"}) /\ phase' # "value"
  OBVIOUS
<1>2. code' # 0 \/ phase' = "done"
  BY DEF RInv, IInv, Course
<1>3. ASSUME NEW v \in OwnValues PROVE OnPath(v)' /\ Refused(v)'
  <2>1. OnPath(v)'
    BY <1>1 DEF OnPath
  <2>2. Refused(v)'
    BY <1>2 DEF Refused
  <2> QED BY <2>1, <2>2
<1> QED BY <1>1, <1>3 DEF PInv

\* A step that goes on: every own message that still fits has its path.
LEMMA GoOnKeepsPath ==
    ASSUME PInv, RInv', phase' \in {"value", "list", "got"},
           phase' = "value" => stack' # <<>>,
           \A v \in OwnValues : IsPrefix(seen', Pack(v)) => \E path : Along(Pack(v), path)'
    PROVE  PInv'
<1>1. ASSUME NEW v \in OwnValues PROVE OnPath(v)' /\ Refused(v)'
  <2>1. OnPath(v)'
    BY DEF OnPath
  <2>2. Refused(v)'
    BY DEF Refused
  <2> QED BY <2>1, <2>2
<1> QED BY <1>1 DEF PInv

\* The path of an own message, before the step.
LEMMA PathBefore ==
    ASSUME PInv, phase \in {"value", "list", "got"}, NEW v \in OwnValues, IsPrefix(seen', Pack(v)),
           seen' = seen \/ \E t \in Token : Wants(t.type, t)
    PROVE  /\ v \in Values /\ v.type = "kvlist" /\ Pack(v) \in Seq(TokenKind)
           /\ \E path : Along(Pack(v), path)
<1>1. v \in Values /\ v.type = "kvlist" /\ Pack(v) \in Seq(TokenKind)
  BY OwnAssumption, PackValue
<1>2. IsPrefix(seen, Pack(v))
  BY <1>1, SeenBefore DEF PInv
<1>3. OnPath(v)
  BY DEF PInv
<1> QED BY <1>1, <1>2, <1>3 DEF OnPath

LEMMA LeafOnPath ==
    ASSUME PInv, RInv', phase = "value", stack # <<>>, NEW v \in Leaves, NEW own, Deliver(v, own),
           NEW t \in Token, Wants(t.type, t), Tag(v) = Canonical(t),
           t.type \notin {"array", "map"}
    PROVE  PInv'
<1>1. /\ phase' = "got" /\ got' = v /\ stack' = stack
  BY DEF Deliver
<1>2. Pack(v) = <<Canonical(t)>>
  <2>1. 0 \in Nat
    OBVIOUS
  <2> QED BY <2>1, LeafPack
<1>3. ASSUME NEW o \in OwnValues, IsPrefix(seen', Pack(o)) PROVE \E path : Along(Pack(o), path)'
  <2>1. Pack(o) \in Seq(TokenKind) /\ \E path : Along(Pack(o), path)
    BY <1>3, PathBefore
  <2>2. PICK path : Along(Pack(o), path)
    BY <2>1
  <2>3. PICK kid : kid = NextKid(Top, path[Len(stack)])
    OBVIOUS
  <2>4. kid \in Values /\ t = Tag(kid)
    BY <1>3, <2>1, <2>2, <2>3, ValueToken
  <2>5. kid \in Leaves /\ Canonical(t) = t
    BY <2>4, TagTells
  <2>6. Pack(kid) = <<t>>
    <3>1. 0 \in Nat
      OBVIOUS
    <3> QED BY <2>4, <2>5, <3>1, LeafPack
  <2>7. Pack(got') = Pack(kid)
    BY <1>1, <1>2, <2>5, <2>6
  <2>8. Top' = Top
    BY <1>1 DEF Top
  <2>9. Pack(got') = Pack(NextKid(Top', path[Len(stack')]))
    BY <1>1, <2>3, <2>7, <2>8
  <2>10. Along(Pack(o), path)'
    BY <1>1, <2>2, <2>9 DEF Along
  <2> QED BY <2>10
<1> QED BY <1>1, <1>3, GoOnKeepsPath

LEMMA OpenOnPath ==
    ASSUME PInv, RInv', phase = "value",
           NEW tag \in {"array", "map"}, NEW type, type = IF tag = "map" THEN "kvlist" ELSE "array",
           NEW t \in Token, Wants(tag, t), OpenList(type, t)
    PROVE  PInv'
<1>1. PICK f : f = Frame(type, t.n, next)
  OBVIOUS
<1>2. phase' = "list" /\ stack' = Append(stack, f)
  BY <1>1 DEF OpenList
<1>3. /\ f.type = type /\ f.count = t.n /\ f.kids = <<>>
  BY <1>1 DEF Frame
<1>4. t.type = tag /\ Wants(t.type, t) /\ RInv
  BY DEF Wants, PInv
<1>5. PICK n \in Nat : n = Len(stack)
  BY <1>4, SizeFacts
<1>6. /\ Len(stack') = n + 1 /\ stack'[n + 1] = f
      /\ \A i \in 1..n : stack'[i] = stack[i]
  <2>1. PICK S : stack \in Seq(S)
    BY <1>4, SizeFacts
  <2>2. /\ Len(Append(stack, f)) = Len(stack) + 1 /\ Append(stack, f)[Len(stack) + 1] = f
        /\ \A i \in 1..Len(stack) : Append(stack, f)[i] = stack[i]
    BY <2>1, PushFacts
  <2> QED BY <1>2, <1>5, <2>2
<1>7. \A i \in 1..(n + 1) : Before(stack', i) = Before(stack, i)
  <2>1. SUFFICES ASSUME NEW i \in 1..(n + 1) PROVE Before(stack', i) = Before(stack, i)
    OBVIOUS
  <2>2. \A j \in 1..(i - 1) : stack'[j] = stack[j]
    BY <1>6
  <2> QED BY <2>2, BeforeSame
<1>8. ASSUME NEW o \in OwnValues, IsPrefix(seen', Pack(o)) PROVE \E path : Along(Pack(o), path)'
  <2>1. o \in Values /\ Pack(o) \in Seq(TokenKind) /\ \E path : Along(Pack(o), path)
    BY <1>4, <1>8, PathBefore
  <2>2. PICK path : Along(Pack(o), path)
    BY <2>1
  <2>3. PICK w : w = IF stack = <<>> THEN o ELSE NextKid(Top, path[n])
    OBVIOUS
  <2>4. w \in Values /\ t = Tag(w) /\ IsPrefix(Before(stack, n + 1) \o Pack(w), Pack(o))
    <3>1. CASE stack = <<>>
      <4>1. w = o /\ t = Tag(w)
        BY <1>4, <1>8, <2>1, <2>3, <3>1, FirstOfAll
      <4>2. n = 0 /\ Before(stack, 1) = <<>>
        BY <1>5, <3>1, BeforeFirst, EmptySeq
      <4>3. n + 1 = 1
        BY <4>2
      <4> QED BY <2>1, <4>1, <4>2, <4>3, ConcatEmptySeq, PrefixItself
    <3>2. CASE stack # <<>>
      <4>1. w = NextKid(Top, path[Len(stack)])
        BY <1>5, <2>3, <3>2
      <4>2. w \in Values /\ t = Tag(w)
        BY <1>4, <1>8, <2>1, <2>2, <3>2, <4>1, ValueToken
      <4>3. IsPrefix(Before(stack, Len(stack) + 1) \o Pack(w), Pack(o))
        BY <1>4, <2>1, <2>2, <3>2, <4>1, ValueAhead
      <4> QED BY <1>5, <4>2, <4>3
    <3> QED BY <3>1, <3>2
  <2>5. Follows(f, w)
    <3>1. w \in Lists(Values) /\ Listed(w) /\ t.n = Len(w.kids)
      BY <1>4, <2>4, TagTells
    <3>2. w.type = type
      BY <1>4, <2>4, TagTells
    <3>3. Len(f.kids) = 0
      BY <1>3
    <3> QED BY <1>3, <2>4, <3>1, <3>2, <3>3, NoEntries DEF Follows
  <2> DEFINE q == [i \in 1..(n + 1) |-> IF i = n + 1 THEN w ELSE path[i]]
  <2>6. q[n + 1] = w /\ \A i \in 1..n : q[i] = path[i] /\ i \in 1..(n + 1)
    BY <1>5
  <2> HIDE DEF q
  <2>7. \A i \in 1..(n + 1) : i \in 1..n \/ i = n + 1
    BY <1>5
  <2>8. \A i \in 1..n : /\ Follows(stack[i], path[i])
                        /\ IsPrefix(Before(stack, i) \o Pack(path[i]), Pack(o))
                        /\ KeyMatches(stack[i], path[i])
                        /\ i < n => path[i + 1] = NextKid(stack[i], path[i])
    BY <1>5, <2>2 DEF Along
  <2>9. \A i \in 1..(n + 1) : /\ Follows(stack'[i], q[i])
                              /\ IsPrefix(Before(stack', i) \o Pack(q[i]), Pack(o))
    BY <1>6, <1>7, <2>4, <2>5, <2>6, <2>7, <2>8
  <2>10. ASSUME NEW i \in 1..(n + 1), i < n + 1
         PROVE  KeyMatches(stack'[i], q[i]) /\ q[i + 1] = NextKid(stack'[i], q[i])
    <3>1. i \in 1..n
      BY <1>5, <2>10
    <3>2. KeyMatches(stack'[i], q[i])
      BY <1>6, <2>6, <2>8, <3>1
    <3>3. CASE i < n
      <4>1. i + 1 \in 1..n
        BY <1>5, <3>1, <3>3
      <4> QED BY <1>6, <2>6, <2>8, <3>1, <3>2, <3>3, <4>1
    <3>4. CASE i = n
      <4>1. stack # <<>> /\ Top = stack[n]
        <5>1. Len(stack) # 0
          BY <1>5, <3>1
        <5>2. stack # <<>>
          BY <5>1, EmptySeq
        <5> QED BY <1>4, <1>5, <5>2, TopOK
      <4>2. w = NextKid(stack[n], path[n])
        BY <2>3, <4>1
      <4>3. q[i + 1] = w /\ stack'[i] = stack[n] /\ q[i] = path[n]
        BY <1>6, <2>6, <3>1, <3>4
      <4> QED BY <3>2, <4>2, <4>3
    <3> QED BY <1>5, <3>1, <3>3, <3>4
  <2>11. Along(Pack(o), q)'
    BY <1>2, <1>6, <2>9, <2>10 DEF Along
  <2> QED BY <2>11
<1> QED BY <1>2, <1>8, GoOnKeepsPath

\* The innermost list is replaced by one that is read from the same original.
LEMMA SwapOnPath ==
    ASSUME RInv, stack # <<>>, NEW f, stack' = Append(Below, f),
           phase' \in {"value", "list"},
           NEW m, NEW path, Along(m, path),
           Follows(f, path[Len(stack)]),
           phase' = "value" => KeyMatches(f, path[Len(stack)])
    PROVE  Along(m, path)'
<1>1. PICK n \in Nat \ {0} : n = Len(stack) /\ Top = stack[n]
  BY TopOK
<1>3. Len(stack') = n /\ stack'[n] = f /\ \A i \in 1..(n - 1) : stack'[i] = stack[i]
  BY <1>1, TopSwapped
<1>4. \A i \in 1..n : Before(stack', i) = Before(stack, i)
  <2>1. SUFFICES ASSUME NEW i \in 1..n PROVE Before(stack', i) = Before(stack, i)
    OBVIOUS
  <2>2. i \in Nat /\ \A j \in 1..(i - 1) : stack'[j] = stack[j]
    BY <1>3
  <2> QED BY ONLY <2>2, BeforeSame
<1>5. \A i \in 1..n : /\ Follows(stack[i], path[i])
                      /\ IsPrefix(Before(stack, i) \o Pack(path[i]), m)
                      /\ i < n => KeyMatches(stack[i], path[i])
                      /\ i < n => path[i + 1] = NextKid(stack[i], path[i])
  BY <1>1 DEF Along
<1>6. \A i \in 1..n : i = n \/ (i \in 1..(n - 1) /\ i < n)
  OBVIOUS
<1>7. \A i \in 1..n : /\ Follows(stack'[i], path[i])
                      /\ IsPrefix(Before(stack', i) \o Pack(path[i]), m)
  BY <1>1, <1>3, <1>4, <1>5, <1>6
<1>8. \A i \in 1..n : i < n => /\ KeyMatches(stack'[i], path[i])
                               /\ path[i + 1] = NextKid(stack'[i], path[i])
  BY <1>3, <1>5, <1>6
<1>9. phase' = "value" => KeyMatches(stack'[n], path[n])
  BY <1>1, <1>3
<1>10. \A i \in 1..n : i < n \/ phase' \in {"value", "got"} => KeyMatches(stack'[i], path[i])
  BY <1>6, <1>8, <1>9
<1> QED BY <1>3, <1>7, <1>8, <1>10 DEF Along

LEMMA KeyOnPath ==
    ASSUME PInv, RInv', phase = "list", phase' = "value", stack # <<>>, Top.type = "kvlist",
           Top.left > 0, NEW t \in Token, Wants("str", t),
           stack' = Append(Below, [Top EXCEPT !.key = t.n])
    PROVE  PInv'
<1>1. PICK f : f = [Top EXCEPT !.key = t.n]
  OBVIOUS
<1>2. RInv /\ IsFrame(Top) /\ Wants(t.type, t) /\ t.type = "str"
  BY TopOK DEF PInv, Wants
<1>3. f.type = Top.type /\ f.count = Top.count /\ f.key = t.n /\ f.kids = Top.kids
      /\ f.keys = Top.keys
  BY <1>1, <1>2 DEF IsFrame
<1>4. ASSUME NEW o \in OwnValues, IsPrefix(seen', Pack(o)) PROVE \E path : Along(Pack(o), path)'
  <2>1. Pack(o) \in Seq(TokenKind) /\ \E path : Along(Pack(o), path)
    BY <1>2, <1>4, PathBefore
  <2>2. PICK path : Along(Pack(o), path)
    BY <2>1
  <2>3. PICK w : w = path[Len(stack)]
    OBVIOUS
  <2>4. t = String(w.keys[Len(Top.kids) + 1])
    BY <1>2, <1>4, <2>1, <2>2, <2>3, KeyToken
  <2>5. t.n = w.keys[Len(Top.kids) + 1]
    BY <2>4 DEF String
  <2>6. KeyMatches(f, w)
    BY <1>3, <2>5 DEF KeyMatches
  <2>7. Follows(Top, w)
    BY <1>2, <2>1, <2>2, <2>3, EntryAhead
  <2>8. Follows(f, w)
    BY <1>3, <2>7 DEF Follows, Entries, Entry, Key
  <2>9. stack' = Append(Below, f) /\ phase' \in {"value", "list"}
    BY <1>1
  <2>10. Along(Pack(o), path)'
    BY <1>2, <2>2, <2>3, <2>6, <2>8, <2>9, SwapOnPath
  <2> QED BY <2>10
<1>5. stack' # <<>>
  BY <1>1, <1>2, TopSwapped
<1> QED BY <1>4, <1>5, GoOnKeepsPath

LEMMA ElementOnPath ==
    ASSUME PInv, RInv', NextElement
    PROVE  PInv'
<1>1. /\ phase = "list" /\ Top.type = "array" /\ phase' = "value" /\ UNCHANGED <<seen, stack, got>>
      /\ RInv /\ stack # <<>>
  BY DEF NextElement, PInv, RInv, IInv, Course
<1>2. Len(stack) \in Nat \ {0} /\ Top = stack[Len(stack)]
  BY <1>1, TopOK
<1>3. ASSUME NEW o \in OwnValues, IsPrefix(seen', Pack(o)) PROVE \E path : Along(Pack(o), path)'
  <2>1. PICK path : Along(Pack(o), path)
    BY <1>1, <1>3, PathBefore
  <2>2. KeyMatches(Top, path[Len(stack)])
    BY <1>1 DEF KeyMatches
  <2>3. \A i \in 1..Len(stack) : i < Len(stack) \/ i = Len(stack)
    BY <1>2
  <2>4. \A i \in 1..Len(stack) : KeyMatches(stack[i], path[i])
    BY <1>2, <2>1, <2>2, <2>3 DEF Along
  <2>5. Along(Pack(o), path)'
    BY <1>1, <2>1, <2>4 DEF Along
  <2> QED BY <2>5
<1> QED BY <1>1, <1>3, GoOnKeepsPath

LEMMA AddOnPath ==
    ASSUME PInv, RInv', Add
    PROVE  PInv'
<1>1. PICK f : f = [Top EXCEPT !.left = @ - 1,
                               !.keys = Append(@, Top.key),
                               !.kids = Append(@, got),
                               !.blocks = @ \cup blocks]
  OBVIOUS
<1>2. /\ phase = "got" /\ stack # <<>> /\ stack' = Append(Below, f) /\ phase' = "list"
      /\ seen' = seen /\ RInv
  BY <1>1 DEF Add, PInv, RInv, IInv, Course
<1>3. PICK d \in Nat : d = Len(seen) - Len(stack) /\ d <= MaxTokens
  BY <1>2, TopOK
<1>4. FrameOK(Top, d) /\ IsFrame(Top)
  BY <1>2, <1>3, TopOK
<1>5. /\ f.type = Top.type /\ f.count = Top.count
      /\ f.keys = Append(Top.keys, Top.key) /\ f.kids = Append(Top.kids, got)
  BY <1>1, <1>4 DEF IsFrame
<1>6. PICK n \in Nat \ {0} : n = Len(stack) /\ Top = stack[n]
  BY <1>2, TopOK
<1>7. Top.left > 0
  <2>1. n \in 1..Len(stack)
    BY <1>6
  <2> QED BY <1>2, <1>6, <2>1 DEF RInv, Shape, Unfinished
<1>8. PICK k \in Nat : k = Len(Top.kids)
  BY <1>4, LenProperties DEF FrameOK
<1>9. /\ Len(f.kids) = k + 1 /\ f.kids[k + 1] = got /\ \A i \in 1..k : f.kids[i] = Top.kids[i]
      /\ f.keys[k + 1] = Top.key /\ \A i \in 1..k : f.keys[i] = Top.keys[i]
  <2>1. got \in Upto(d)
    BY <1>2, <1>3 DEF RInv, Shape
  <2> QED BY <1>4, <1>5, <1>8, <2>1, AppendProperties DEF FrameOK
<1>10. ASSUME NEW o \in OwnValues, IsPrefix(seen', Pack(o)) PROVE \E path : Along(Pack(o), path)'
  <2>1. Pack(o) \in Seq(TokenKind) /\ \E path : Along(Pack(o), path)
    BY <1>2, <1>10, PathBefore
  <2>2. PICK path : Along(Pack(o), path)
    BY <2>1
  <2>3. PICK w : w = path[n]
    OBVIOUS
  <2>4. PICK kid : kid = NextKid(Top, w)
    OBVIOUS
  <2>5. Follows(Top, w) /\ KeyMatches(Top, w) /\ Pack(got) = Pack(kid)
    <3>1. n \in 1..Len(stack)
      BY <1>6
    <3> QED BY <1>2, <1>6, <2>2, <2>3, <2>4, <3>1 DEF Along
  <2>6. /\ k + 1 \in 1..Len(w.kids) /\ k < Len(w.kids)
        /\ Entry(w, k + 1) = Key(w, k + 1) \o Pack(kid)
    BY <1>2, <1>7, <1>8, <2>4, <2>5, Ahead
  <2>7. Entries(w, k + 1) = Entries(w, k) \o Entry(w, k + 1)
    BY <2>5, <2>6, OneEntryMore DEF Follows
  <2>8. Entries(w, k) = Entries(f, k)
    <3>1. Entries(w, k) = Entries(Top, k)
      BY <1>8, <2>5 DEF Follows
    <3>2. Entries(f, k) = Entries(Top, k)
      BY <1>5, <1>9, SameEntries
    <3> QED BY <3>1, <3>2
  <2>9. Entry(w, k + 1) = Entry(f, k + 1)
    <3>1. Key(w, k + 1) = Key(f, k + 1)
      BY <1>5, <1>8, <1>9, <2>5 DEF Key, KeyMatches, Follows
    <3> QED BY <1>9, <2>5, <2>6, <3>1 DEF Entry
  <2>10. Entries(f, k + 1) = Entries(f, k) \o Entry(f, k + 1)
    <3>1. Listed(f)
      <4>1. Len(stack') = n /\ stack'[n] = f /\ n \in 1..n
        BY <1>2, <1>6, TopSwapped
      <4>2. FrameOK(f, Len(seen) - n)
        BY <1>2, <4>1 DEF RInv, Shape
      <4>3. FrameOK(f, d)
        BY <1>3, <1>6, <4>2
      <4> QED BY <1>3, <4>3, FrameFacts
    <3>2. k < Len(f.kids)
      BY <1>9
    <3> QED BY <3>1, <3>2, OneEntryMore
  <2>11. Follows(f, w)
    <3>1. Entries(w, Len(f.kids)) = Entries(f, Len(f.kids))
      BY <1>9, <2>7, <2>8, <2>9, <2>10
    <3> QED BY <1>5, <2>5, <3>1 DEF Follows
  <2>12. Follows(f, path[Len(stack)]) /\ phase' \in {"value", "list"} /\ phase' # "value"
    BY <1>2, <1>6, <2>3, <2>11
  <2>13. Along(Pack(o), path)'
    BY <1>2, <2>2, <2>12, SwapOnPath
  <2> QED BY <2>13
<1> QED BY <1>2, <1>10, GoOnKeepsPath

\* A list that is complete is the value that its place in the original has.
LEMMA ClosedAsOriginal ==
    ASSUME RInv, stack # <<>>, Top.left = 0, NEW w, Follows(Top, w)
    PROVE  Pack(ClosedList) = Pack(w)
<1>1. PICK d \in Nat : d = Len(seen) - Len(stack) /\ d <= MaxTokens
  BY TopOK
<1>2. FrameOK(Top, d)
  BY <1>1, TopOK
<1>3. PICK k \in Nat : k = Len(Top.kids)
  BY <1>2, LenProperties DEF FrameOK
<1>4. /\ w \in Values /\ w \in Lists(Values) /\ w.type = Top.type
      /\ Len(w.kids) = Top.count /\ Entries(w, k) = Entries(Top, k)
  BY <1>3 DEF Follows
<1>5. Top.count = k
  <2>1. Top.count = 0 + k
    BY <1>2, <1>3 DEF FrameOK
  <2> QED BY <2>1
<1>6. w \notin Leaves /\ w.type \in {"array", "kvlist"}
  BY <1>4, LeafFacts, ListFacts
<1>7. Pack(w) = <<Tag(w)>> \o Entries(w, Len(w.kids))
  BY <1>4, <1>6, ValueParts
<1>8. Tag(w) = FrameTag(Top)
  <2>1. Tag(w).type = IF Top.type = "array" THEN "array" ELSE "map"
    BY <1>4, <1>6 DEF Tag
  <2>2. Tag(w).n = Top.count /\ Tag(w).whole = TRUE
    BY <1>4, <1>6 DEF Tag
  <2>3. Tag(w) = [type |-> Tag(w).type, n |-> Tag(w).n, whole |-> Tag(w).whole]
    BY DEF Tag
  <2> QED BY <2>1, <2>2, <2>3 DEF FrameTag
<1>9. Pack(w) = Begun(Top)
  BY <1>3, <1>4, <1>5, <1>7, <1>8 DEF Begun
<1> QED BY <1>9, ClosedFacts

LEMMA CloseOnPath ==
    ASSUME PInv, RInv', CloseList
    PROVE  PInv'
<1>1. /\ phase = "list" /\ stack # <<>> /\ Top.left = 0 /\ stack' = Below /\ seen' = seen
      /\ code = 0 /\ RInv
  BY DEF CloseList, PInv, RInv, IInv, Course
<1>2. \/ phase' = "done" /\ code' = code
      \/ phase' = "got" /\ got' = ClosedList /\ Len(stack) # 1
      \/ phase' = "failed" /\ starved' # {}
  BY <1>1 DEF CloseList, ClosedList, Raise, Hungry
<1>3. CASE phase' = "done" /\ code' = code
  BY <1>1, <1>3, FailKeepsPath
<1>4. CASE phase' = "failed" /\ starved' # {}
  BY <1>4, FailKeepsPath
<1>5. CASE phase' = "got" /\ got' = ClosedList /\ Len(stack) # 1
  <2>1. PICK n \in Nat : /\ n + 1 = Len(stack) /\ n # 0 /\ Len(stack') = n
                         /\ \A i \in 1..n : stack'[i] = stack[i]
                         /\ Top = stack[n + 1]
    <3>1. /\ Len(stack) \in Nat \ {0} /\ Len(stack') = Len(stack) - 1
          /\ \A i \in 1..(Len(stack) - 1) : stack'[i] = stack[i]
          /\ Top = stack[Len(stack)]
      BY <1>1, BelowFacts DEF RInv, IInv
    <3>2. PICK n : n = Len(stack) - 1
      OBVIOUS
    <3>3. n \in Nat /\ n + 1 = Len(stack) /\ n # 0
      BY <1>5, <3>1, <3>2
    <3>4. /\ n + 1 = Len(stack) /\ n # 0 /\ Len(stack') = n
          /\ \A i \in 1..n : stack'[i] = stack[i]
          /\ Top = stack[n + 1]
      BY <3>1, <3>2, <3>3
    <3> QED BY <3>3, <3>4
  <2>2. Top' = stack[n]
    <3>1. n \in 1..n
      BY <2>1
    <3> QED BY <2>1, <3>1 DEF Top, Last
  <2>3. \A i \in 1..n : Before(stack', i) = Before(stack, i)
    <3>1. SUFFICES ASSUME NEW i \in 1..n PROVE Before(stack', i) = Before(stack, i)
      OBVIOUS
    <3>2. \A j \in 1..(i - 1) : stack'[j] = stack[j]
      BY <2>1
    <3> QED BY <3>2, BeforeSame
  <2>4. ASSUME NEW o \in OwnValues, IsPrefix(seen', Pack(o)) PROVE \E path : Along(Pack(o), path)'
    <3>1. PICK path : Along(Pack(o), path)
      BY <1>1, <2>4, PathBefore
    <3>2. \A i \in 1..n : i \in 1..Len(stack) /\ i < Len(stack)
      BY <2>1
    <3>3. \A i \in 1..n : /\ Follows(stack[i], path[i])
                          /\ IsPrefix(Before(stack, i) \o Pack(path[i]), Pack(o))
                          /\ KeyMatches(stack[i], path[i])
                          /\ path[i + 1] = NextKid(stack[i], path[i])
      BY <3>1, <3>2 DEF Along
    <3>4. n \in 1..n /\ n + 1 \in 1..Len(stack)
      BY <2>1
    <3>5. Follows(Top, path[n + 1])
      BY <2>1, <3>1, <3>4 DEF Along
    <3>6. Pack(got') = Pack(path[n + 1])
      BY <1>1, <1>5, <3>5, ClosedAsOriginal
    <3>7. Pack(got') = Pack(NextKid(Top', path[Len(stack')]))
      BY <2>1, <2>2, <3>3, <3>4, <3>6
    <3>8. \A i \in 1..n : /\ Follows(stack'[i], path[i])
                          /\ IsPrefix(Before(stack', i) \o Pack(path[i]), Pack(o))
                          /\ KeyMatches(stack'[i], path[i])
                          /\ path[i + 1] = NextKid(stack'[i], path[i])
      BY <2>1, <2>3, <3>3
    <3>9. Along(Pack(o), path)'
      BY <1>5, <2>1, <3>7, <3>8 DEF Along
    <3> QED BY <3>9
  <2> QED BY <1>5, <2>4, GoOnKeepsPath
<1> QED BY <1>2, <1>3, <1>4, <1>5

-----------------------------------------------------------------------------
(* The steps that end the way.                                             *)

\* Memory or the input ended.
LEMMA ExcusedFailure ==
    ASSUME PInv, RInv', phase' \in {"failed", "broken", "done"},
           starved' # {} \/ err'
    PROVE  PInv'
BY FailKeepsPath

\* A token that the reader refuses where it wants a value is not of a message
\* of this library.
LEMMA ForeignToken ==
    ASSUME PInv, RInv', phase = "value", phase' \in {"failed", "broken", "done"},
           NEW t \in Token, Wants(t.type, t),
           \/ stack # <<>> /\ t.type \in {"nil", "float"}
           \/ stack # <<>> /\ t.type = "array" /\ t.n >= SizeLimit
           \/ stack = <<>> /\ t.type # "map"
    PROVE  PInv'
<1>1. ASSUME NEW o \in OwnValues, IsPrefix(seen', Pack(o)) PROVE FALSE
  <2>1. o \in Values /\ o.type = "kvlist" /\ Pack(o) \in Seq(TokenKind)
        /\ \E path : Along(Pack(o), path)
    BY <1>1, PathBefore
  <2>2. CASE stack = <<>>
    <3>1. t = Tag(o)
      BY <1>1, <2>1, <2>2, FirstOfAll
    <3> QED BY <2>1, <2>2, <3>1, TagTells
  <2>3. CASE stack # <<>>
    <3>1. PICK path : Along(Pack(o), path)
      BY <2>1
    <3>2. PICK kid : kid = NextKid(Top, path[Len(stack)])
      OBVIOUS
    <3>3. kid \in Values /\ t = Tag(kid)
      BY <1>1, <2>1, <2>3, <3>1, <3>2, ValueToken
    <3>4. t.type \notin {"nil", "float"} /\ (t.type = "array" => t.n \in Nat /\ t.n < SizeLimit)
      BY <3>3, TagTells
    <3> QED BY <2>3, <3>4, RoomAssumption
  <2> QED BY <2>2, <2>3
<1> QED BY <1>1, FailKeepsPath

\* Nor is a key that is refused.
LEMMA ForeignKey ==
    ASSUME PInv, RInv', phase = "list", phase' = "broken", stack # <<>>, Top.type = "kvlist",
           Top.left > 0, NEW t \in Token, Wants(t.type, t), t.type # "str" \/ ~KeyFits(t.n)
    PROVE  PInv'
<1>1. ASSUME NEW o \in OwnValues, IsPrefix(seen', Pack(o)) PROVE FALSE
  <2>1. Pack(o) \in Seq(TokenKind) /\ \E path : Along(Pack(o), path)
    BY <1>1, PathBefore
  <2>2. PICK path : Along(Pack(o), path)
    BY <2>1
  <2>3. PICK key : key = path[Len(stack)].keys[Len(Top.kids) + 1]
    OBVIOUS
  <2>4. t = String(key) /\ key \in 0..(KeyRoom - 1)
    BY <1>1, <2>1, <2>2, <2>3, KeyToken
  <2>5. t.type = "str" /\ t.n = key
    BY <2>4 DEF String
  <2> QED BY <2>4, <2>5, RoomAssumption DEF KeyFits
<1> QED BY <1>1, FailKeepsPath

LEMMA EndOnPath ==
    ASSUME PInv, RInv', EndOfInput \/ Unsupported
    PROVE  PInv'
<1>1. CASE EndOfInput
  <2>1. phase' \in {"failed", "done"} /\ err'
    BY <1>1 DEF EndOfInput, Raise
  <2> QED BY <2>1, ExcusedFailure
<1>2. CASE Unsupported
  <2>1. PICK t \in Token : t.type \in {"nil", "float"} /\ Wants(t.type, t)
    BY <1>2 DEF Unsupported
  <2>2. phase = "value" /\ stack # <<>> /\ phase' = "failed"
    BY <1>2 DEF Unsupported, WantsValue, Raise
  <2> QED BY <2>1, <2>2, ForeignToken
<1> QED BY <1>1, <1>2

LEMMA StringOnPath ==
    ASSUME PInv, RInv', NEW tag, NEW type, unpack_cfl_variant_string(tag, type),
           \/ tag = "str" /\ type = "string"
           \/ tag = "bin" /\ type = "bytes"
    PROVE  PInv'
<1>1. PICK t \in Token :
        /\ Wants(tag, t)
        /\ \/ phase' = "failed" /\ (starved' # {} \/ err')
           \/ t.whole /\ Deliver(Scalar(type, t.n), {next, next + 1})
  BY DEF unpack_cfl_variant_string, Raise, Hungry
<1>2. phase = "value" /\ stack # <<>> /\ t.type = tag /\ Wants(t.type, t)
  BY <1>1 DEF unpack_cfl_variant_string, WantsValue, Wants
<1>3. CASE phase' = "failed" /\ (starved' # {} \/ err')
  BY <1>3, ExcusedFailure
<1>4. CASE t.whole /\ Deliver(Scalar(type, t.n), {next, next + 1})
  <2>1. Scalar(type, t.n) \in Leaves /\ Tag(Scalar(type, t.n)) = Canonical(t)
    BY <1>2, <1>4, LeafOfToken
  <2>2. t.type \notin {"array", "map"}
    BY <1>2
  <2> QED BY <1>2, <1>4, <2>1, <2>2, LeafOnPath
<1> QED BY <1>1, <1>3, <1>4

LEMMA ScalarOnPath ==
    ASSUME PInv, RInv',
           \/ unpack_cfl_variant_scalar("bool", "bool", Same)
           \/ unpack_cfl_variant_scalar("uint", "int", AsInt64)
           \/ unpack_cfl_variant_scalar("int", "int", Same)
           \/ unpack_cfl_variant_scalar("double", "double", Same)
    PROVE  PInv'
<1>1. phase = "value" /\ stack # <<>>
  BY ScalarKinds
<1>2. PICK t \in Token : \E tag, type, n :
        /\ Wants(tag, t)
        /\ \/ phase' = "failed" /\ stack' = stack /\ Hungry("scalar") /\ err' = err
           \/ Deliver(Scalar(type, n), {next})
        /\ \/ tag = "bool" /\ type = "bool" /\ n = t.n
           \/ tag = "double" /\ type = "double" /\ n = t.n
           \/ tag = "int" /\ type = "int" /\ n = t.n
           \/ tag = "uint" /\ type = "int" /\ n = AsInt64(t.n)
  BY ScalarKinds
<1>3. PICK tag, type, n :
        /\ Wants(tag, t)
        /\ \/ phase' = "failed" /\ stack' = stack /\ Hungry("scalar") /\ err' = err
           \/ Deliver(Scalar(type, n), {next})
        /\ \/ tag = "bool" /\ type = "bool" /\ n = t.n
           \/ tag = "double" /\ type = "double" /\ n = t.n
           \/ tag = "int" /\ type = "int" /\ n = t.n
           \/ tag = "uint" /\ type = "int" /\ n = AsInt64(t.n)
  BY <1>2
<1>4. t.type = tag /\ Wants(t.type, t) /\ tag \notin {"array", "map"}
  BY <1>3 DEF Wants
<1>5. CASE phase' = "failed" /\ Hungry("scalar")
  <2>1. starved' # {}
    BY <1>5 DEF Hungry
  <2> QED BY <1>5, <2>1, ExcusedFailure
<1>6. CASE Deliver(Scalar(type, n), {next})
  <2>1. Scalar(type, n) \in Leaves /\ Tag(Scalar(type, n)) = Canonical(t)
    BY <1>3, <1>4, LeafOfToken
  <2> QED BY <1>1, <1>4, <1>6, <2>1, LeafOnPath
<1> QED BY <1>3, <1>5, <1>6

LEMMA ArrayOnPath ==
    ASSUME PInv, RInv', unpack_cfl_array
    PROVE  PInv'
<1>1. PICK t \in Token :
        /\ Wants("array", t)
        /\ \/ t.n >= SizeLimit /\ phase' = "failed"
           \/ phase' = "failed" /\ starved' # {}
           \/ OpenList("array", t)
  BY DEF unpack_cfl_array, Raise, Hungry
<1>2. phase = "value" /\ stack # <<>> /\ Wants(t.type, t) /\ t.type = "array"
  BY <1>1 DEF unpack_cfl_array, WantsValue, Wants
<1>3. CASE t.n >= SizeLimit /\ phase' = "failed"
  BY <1>2, <1>3, ForeignToken
<1>4. CASE phase' = "failed" /\ starved' # {}
  BY <1>4, ExcusedFailure
<1>5. CASE OpenList("array", t)
  <2>1. "array" \in {"array", "map"} /\ "array" = IF "array" = "map" THEN "kvlist" ELSE "array"
    OBVIOUS
  <2> QED BY <1>1, <1>2, <1>5, <2>1, OpenOnPath
<1> QED BY <1>1, <1>3, <1>4, <1>5

LEMMA KvlistOnPath ==
    ASSUME PInv, RInv', unpack_cfl_kvlist
    PROVE  PInv'
<1>1. PICK t \in Token :
        \/ Wants("map", t) /\ phase' \in {"done", "failed"} /\ starved' # {}
        \/ Wants("map", t) /\ OpenList("kvlist", t)
        \/ stack = <<>> /\ t.type # "map" /\ Wants(t.type, t) /\ phase' = "done"
  BY DEF unpack_cfl_kvlist, Raise, Hungry
<1>2. phase = "value"
  BY DEF unpack_cfl_kvlist
<1>3. CASE phase' \in {"done", "failed"} /\ starved' # {}
  BY <1>3, ExcusedFailure
<1>4. CASE Wants("map", t) /\ OpenList("kvlist", t)
  <2>1. "map" \in {"array", "map"} /\ "kvlist" = IF "map" = "map" THEN "kvlist" ELSE "array"
    OBVIOUS
  <2> QED BY <1>2, <1>4, <2>1, OpenOnPath
<1>5. CASE stack = <<>> /\ t.type # "map" /\ Wants(t.type, t) /\ phase' = "done"
  BY <1>2, <1>5, ForeignToken
<1> QED BY <1>1, <1>3, <1>4, <1>5

LEMMA ReadKeyOnPath ==
    ASSUME PInv, RInv', ReadKey
    PROVE  PInv'
<1>1. phase = "list" /\ Top.type = "kvlist" /\ Top.left > 0 /\ stack # <<>>
  BY DEF ReadKey, PInv, RInv, IInv, Course
<1>2. \/ phase' = "broken" /\ err'
      \/ \E t \in Token : /\ Wants(t.type, t) /\ (t.type # "str" \/ ~KeyFits(t.n))
                          /\ phase' = "broken"
      \/ \E t \in Token : /\ Wants("str", t) /\ phase' = "value"
                          /\ stack' = Append(Below, [Top EXCEPT !.key = t.n])
  BY DEF ReadKey, Raise, Wants
<1>3. CASE phase' = "broken" /\ err'
  BY <1>3, ExcusedFailure
<1>4. CASE \E t \in Token : /\ Wants(t.type, t) /\ (t.type # "str" \/ ~KeyFits(t.n))
                            /\ phase' = "broken"
  BY <1>1, <1>4, ForeignKey
<1>5. CASE \E t \in Token : /\ Wants("str", t) /\ phase' = "value"
                            /\ stack' = Append(Below, [Top EXCEPT !.key = t.n])
  BY <1>1, <1>5, KeyOnPath
<1> QED BY <1>2, <1>3, <1>4, <1>5

LEMMA GiveUpOnPath ==
    ASSUME PInv, RInv', GiveUp
    PROVE  PInv'
<1>1. /\ phase \in {"failed", "broken"} /\ seen' = seen /\ starved' = starved /\ err' = err
      /\ phase' \in {"done", "failed"}
  BY DEF GiveUp
<1>2. \A v \in OwnValues : starved' = {} /\ ~err' => ~IsPrefix(seen', Pack(v))
  BY <1>1 DEF PInv, Refused
<1> QED BY <1>1, <1>2, FailKeepsPath

LEMMA InitPInv == Init => PInv
<1> SUFFICES ASSUME Init PROVE PInv
  OBVIOUS
<1>1. /\ RInv /\ seen = <<>> /\ stack = <<>> /\ Len(stack) = 0 /\ phase = "value"
  BY InitRInv, EmptySeq DEF Init
<1>2. \A m : Along(m, <<>>)
  BY <1>1 DEF Along
<1>3. \A v \in OwnValues : OnPath(v) /\ Refused(v)
  BY <1>1, <1>2 DEF OnPath, Refused
<1> QED BY <1>1, <1>3 DEF PInv

LEMMA StepPInv == PInv /\ [Next]_vars => PInv'
<1> SUFFICES ASSUME PInv, [Next]_vars PROVE PInv'
  OBVIOUS
<1>0. RInv'
  BY StepRInv DEF PInv
<1>1. CASE EndOfInput \/ Unsupported
  BY <1>0, <1>1, EndOnPath
<1>3. CASE \/ unpack_cfl_variant_string("str", "string")
           \/ unpack_cfl_variant_string("bin", "bytes")
  BY <1>0, <1>3, StringOnPath
<1>4. CASE \/ unpack_cfl_variant_scalar("bool", "bool", Same)
           \/ unpack_cfl_variant_scalar("uint", "int", AsInt64)
           \/ unpack_cfl_variant_scalar("int", "int", Same)
           \/ unpack_cfl_variant_scalar("double", "double", Same)
  BY <1>0, <1>4, ScalarOnPath
<1>5. CASE unpack_cfl_array
  BY <1>0, <1>5, ArrayOnPath
<1>6. CASE unpack_cfl_kvlist
  BY <1>0, <1>6, KvlistOnPath
<1>7. CASE ReadKey
  BY <1>0, <1>7, ReadKeyOnPath
<1>8. CASE NextElement
  BY <1>0, <1>8, ElementOnPath
<1>9. CASE Add
  BY <1>0, <1>9, AddOnPath
<1>10. CASE AppendFails \/ InsertFails
  <2>1. phase' = "broken" /\ starved' # {}
    BY <1>10 DEF AppendFails, InsertFails, Raise, Hungry
  <2> QED BY <1>0, <2>1, ExcusedFailure
<1>12. CASE CloseList
  BY <1>0, <1>12, CloseOnPath
<1>13. CASE GiveUp
  BY <1>0, <1>13, GiveUpOnPath
<1>14. CASE UNCHANGED vars
  <2>1. \A m, path : Along(m, path)' <=> Along(m, path)
    BY <1>14 DEF vars, Along, Top
  <2>2. \A v : (OnPath(v)' <=> OnPath(v)) /\ (Refused(v)' <=> Refused(v))
    BY <1>14, <2>1 DEF vars, OnPath, Refused
  <2> QED BY <1>0, <1>14, <2>2 DEF vars, PInv
<1> QED
  BY <1>1, <1>3, <1>4, <1>5, <1>6, <1>7, <1>8, <1>9, <1>10, <1>12, <1>13, <1>14 DEF Next

\* A list of attributes that this library packed, within the limits, is read back
\* by its own reader: it is refused only where memory ran out or the input ended
\* before the message did.
THEOREM OwnListsAreTaken == Spec => []OwnIsTaken
<1>1. Init => PInv
  BY InitPInv
<1>2. PInv /\ [Next]_vars => PInv'
  BY StepPInv
<1>3. PInv => OwnIsTaken
  BY DEF PInv, Refused, OwnIsTaken, OwnMessages, Done
<1> QED BY <1>1, <1>2, <1>3, PTL DEF Spec
=============================================================================
