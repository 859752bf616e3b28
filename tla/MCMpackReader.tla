--------------------------- MODULE MCMpackReader ---------------------------
(***************************************************************************)
(* MpackReader on values at every boundary of every width, each of them    *)
(* alone in memory or behind a buffer, and on a few longer sources.        *)
(***************************************************************************)
EXTENDS MpackReader

Value(type, v) == [tag |-> Tag(type, v, 0), body |-> <<>>, time |-> <<>>]

\* Bytes that tell their places.
Body(type, x, n) ==
    [tag |-> Tag(type, n, x), body |-> [i \in 1..n |-> i % Base], time |-> <<>>]

Time(seconds, nanoseconds) ==
    LET bytes == mpack_write_timestamp(seconds, nanoseconds)
    IN [tag |-> Tag("ext", Len(bytes), TimestampType), body |-> bytes,
        time |-> <<seconds, nanoseconds>>]

Around(S) == UNION {{n - 1, n} : n \in S}

Unsigneds == {0} \cup Around({Base \div 2, Base, Word, LongWord})

Negatives == {-n : n \in {FixInt, FixInt + 1} \cup
                       UNION {{n, n + 1} : n \in {Limit(k) \div 2 : k \in {1, 2, 4}}}}

Lengths == {0} \cup Around({FixCount, Base, Word})

Values ==
    {Value("nil", 0), Value("bool", 0), Value("float", 5), Value("double", 5)}
    \cup {Value("uint", n) : n \in Unsigneds}
    \cup {Value("int", n) : n \in {0, LongWord} \cup Negatives}
    \cup {Value(type, n) : type \in {"array", "map", "str", "bin"}, n \in Lengths}
    \cup {[Value("ext", n) EXCEPT !.tag.x = TimestampType] :
              n \in FixExts \cup {0, 15, Base - 1, Base, Word}}

Times == {Time(0, 0), Time(UMax(4), 0), Time(UMax(4) + 1, 0), Time(3, NanoMax),
          Time(4 * LongWord - 1, NanoMax), Time(4 * LongWord, 7), Time(-1, NanoMax)}

Long ==
    {<<Value("map", 1), Value("uint", Base), Body("str", 0, 3), Value("array", 2),
       Value("nil", 0), Value("int", -FixInt - 1)>>,
     <<Body("bin", 0, 12), Value("bool", 1)>>,
     <<Value("double", 300), Body("str", 0, FixStr)>>}

Reserved == <<1, Code(1), 2>>

TooManyNanos == <<Code(20 + 3), Base - 1>> \o Digits(4 * (NanoMax + 1), 4) \o Digits(0, 4)

Everywhere == {"data", "buffer", "file"}

MCInputs ==
    {Written(<<v>>, 9, {"data"}) : v \in Values}
    \cup {Written(<<t, Value("nil", 0)>>, 20, {"data"}) : t \in Times}
    \cup {Written(items, 64, Everywhere) : items \in Long}
    \cup {Written(items, Len(Concat(items)) - 1, {"data", "file"}) : items \in Long}
    \cup {[src |-> s, starts |-> {}, ways |-> {"data"}] : s \in {Reserved, TooManyNanos}}

=============================================================================
