---------------------------- MODULE MCOtlpEncoder ----------------------------
(* Requests for model checking OtlpEncoder: every kind of block, lists of  *)
(* no, one and two elements at every level.                                *)
EXTENDS OtlpEncoder

Plain == Attributes(<<KeyValue(StringValue)>>)
Mixed == Attributes(<<KeyValue(ListValue("array", <<ScalarValue, BytesValue>>)),
                      KeyValue(ScalarValue)>>)
Deep  == Attributes(<<KeyValue(ListValue("kvlist", <<KeyValue(StringValue),
                                                     KeyValue(ListValue("array", <<>>))>>))>>)
Empty == Attributes(<<>>)

Bare == SpanBlock(Empty, <<>>, <<>>)
Rich == SpanBlock(Plain, <<EventBlock(Empty), EventBlock(Plain)>>, <<LinkBlock(<<>>), LinkBlock(Plain)>>)

Of(scope_spans) == ResourceSpanBlock(Empty, scope_spans)

SmallRequests ==
    {Call(<<>>),
     Call(<<ResourceSpanBlock(Mixed, <<>>), ResourceSpanBlock(Deep, <<>>)>>),
     Call(<<ResourceSpanBlock(Plain, <<>>), Of(<<>>)>>),
     Call(<<Of(<<ScopeSpanBlock(ScopeBlock(Plain), <<Bare>>),
                 ScopeSpanBlock(<<>>, <<>>), ScopeSpanBlock(ScopeBlock(<<>>), <<>>)>>)>>),
     Call(<<Of(<<ScopeSpanBlock(<<>>, <<Bare, Bare>>), ScopeSpanBlock(<<>>, <<>>)>>)>>),
     Call(<<Of(<<ScopeSpanBlock(<<>>, <<Rich>>)>>)>>)}

=============================================================================
