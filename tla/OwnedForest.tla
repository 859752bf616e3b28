----------------------------- MODULE OwnedForest -----------------------------
(***************************************************************************)
(* What the object tree of ctraces promises, whatever its lists look like: *)
(* a forest in which every object has one owner, which it keeps, and in    *)
(* which an object is destroyed with all that it owns.                     *)
(***************************************************************************)
EXTENDS Naturals

CONSTANTS
    Node,   \* the objects
    Root    \* the owner of the topmost ones, which is no object

VARIABLE
    parent  \* the owner of each object that exists

Extant == DOMAIN parent

\* In a forest exactly one set of objects is n and what n owns, n's included.
IsSubtree(D, n) == D = {m \in Extant : m = n \/ parent[m] \in D}

Init == parent = [n \in {} |-> Root]

\* A new object, owned by one that exists.
Add(n, p) ==
    /\ n \notin Extant
    /\ p \in Extant \cup {Root}
    /\ parent' = [m \in Extant \cup {n} |-> IF m = n THEN p ELSE parent[m]]

\* An object goes, and all it owns.
Remove(n) ==
    \E D \in SUBSET Extant :
        /\ IsSubtree(D, n)
        /\ parent' = [m \in Extant \ D |-> parent[m]]

\* Everything goes.
Clear == Extant # {} /\ parent' = [n \in {} |-> Root]

Next ==
    \/ \E n \in Node, p \in Node \cup {Root} : Add(n, p)
    \/ \E n \in Extant : Remove(n)
    \/ Clear

Spec == Init /\ [][Next]_parent

==============================================================================
