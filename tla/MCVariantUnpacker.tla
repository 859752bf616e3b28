-------------------------- MODULE MCVariantUnpacker --------------------------
(* Tokens and values for model checking VariantUnpacker.                   *)
EXTENDS VariantRoundTrip

T(type, n) == [type |-> type, n |-> n, whole |-> TRUE]
Torn(type) == [type |-> type, n |-> 1, whole |-> FALSE]

\* A number below and one above half of the range.
MCToken ==
    {T("str", 1), T("str", KeyRoom), Torn("str"), T("bin", 1), Torn("bin"),
     T("bool", 1), T("uint", 1), T("uint", Half + 1), T("int", -1), T("int", 1), T("double", 1),
     T("nil", 0)} \cup
    {T("array", n) : n \in 0..SizeLimit} \cup {T("map", n) : n \in 0..2}

Leaf == {Scalar("string", 1), Scalar("bytes", 1), Scalar("int", -1), Scalar("int", 1)}

Arrays(V) == {Value("array", Len(kids), <<>>, kids) : kids \in {<<>>} \cup (V \X V)}
Maps(V) == {Value("kvlist", 0, <<>>, <<>>)}
            \cup {Value("kvlist", 1, <<1>>, <<v>>) : v \in V}
            \cup {Value("kvlist", 2, <<1, 1>>, <<v, w>>) : v, w \in V}

MCOwnValues == Maps(Leaf \cup Arrays(Leaf) \cup Maps({Scalar("int", 1)}))

=============================================================================
