------------------------- MODULE MCStreamConverter -------------------------
(***************************************************************************)
(* StreamConverter for TLC: two tool calls, and the pieces of content that *)
(* cut the tags in every place.                                            *)
(***************************************************************************)
EXTENDS StreamConverter

MCTools == <<"tool0", "tool1">>

Content == {<<"x">>, <<"_">>, <<"o1">>, <<"o2">>, <<"c1">>, <<"c2">>, <<"o1", "o2">>,
            <<"o1", "o2", "x">>, <<"x", "c1", "c2">>, <<"c2", "_", "x">>}

Chunk(reasoning, content, tools) ==
  [reasoning |-> reasoning, content |-> content, tools |-> tools]
ToolOf(tool, id, name, args) == [tool |-> tool, id |-> id, name |-> name, args |-> args]

MCChunks ==
  {Chunk(<<>>, s, <<>>) : s \in Content}
  \union {Chunk(<<"x">>, <<>>, <<>>), Chunk(<<"x">>, <<"x">>, <<>>)}
  \union {Chunk(<<>>, <<>>, <<ToolOf("tool0", "i", "function", <<"x">>)>>),
          Chunk(<<>>, <<"x">>, <<ToolOf("tool0", "i", "function", <<"_", "{", "}">>)>>)}
  \union {Chunk(<<>>, <<>>, ts) : ts \in {
            <<ToolOf("tool0", NoId, "", <<"x">>)>>, <<ToolOf("tool0", "", "function", <<>>)>>,
            <<ToolOf("tool1", "j", "custom", <<"x">>), ToolOf("tool0", "i", "function", <<>>)>>,
            <<ToolOf("tool1", NoId, "", <<"x">>)>> }}
=============================================================================
