-------------------------- MODULE StreamConverter --------------------------
(***************************************************************************)
(* The gateway turns the stream of a Chat Completions upstream into the    *)
(* stream of a Responses API (ChatSseToResponsesConverter), chunk by chunk *)
(* as it arrives: it opens an output item with its first delta, numbers it, *)
(* closes it, and repeats all items in response.completed.  Reasoning may  *)
(* come in a field of its own or between <think> and </think> at the start *)
(* of the content, cut anywhere by the upstream's chunks.  An upstream that *)
(* answers in one piece is converted as a whole, which puts the arguments  *)
(* of its calls in a normal form, and replayed as a stream.                *)
(*                                                                         *)
(* Content is a sequence of characters of which only the tags matter: "o1" *)
(* and "o2" are the two halves of <think>, "c1" and "c2" those of          *)
(* </think>, "_" is white space; of arguments, that "{" and "}" are around *)
(* a JSON object (without an "input").  The converter is one record and its *)
(* methods are operators on it; `out' is all it has written.               *)
(***************************************************************************)
EXTENDS Naturals, Sequences, FiniteSets, SequencesExt

CONSTANTS
  Tools,        \* the indices of tool calls, in order
  Chunks,       \* what a chunk may carry: reasoning, content, tool calls
  NoId,         \* a tool delta without an id
  MaxBlocks     \* bound: blocks the upstream sends

ASSUME ToolsAssumption == Tools \in Seq(STRING) /\ Range(Tools) \cap {"reasoning", "text"} = {}
ASSUME ChunkAssumption == \A k \in Chunks :
  /\ k.reasoning \in Seq(STRING) /\ k.content \in Seq(STRING)
  /\ k.tools \in Seq([tool : Range(Tools), id : STRING, name : STRING, args : Seq(STRING)])

VARIABLES
  c,       \* the converter
  buffer,  \* complete blocks that a failed converter has not taken yet
  link,    \* the upstream connection: "open", "closed", or "dropped" with the client's
  heard,   \* history: content before and after the first tool call, and the habits of
           \* the upstream that the properties ask for
  blocks

streamVars == <<c, buffer, link, heard, blocks>>

-----------------------------------------------------------------------------
(* <think> at the start of the content.                                      *)

TrimStart(s) == LET k == SelectInSeq(s, LAMBDA x : x # "_")
                IN  IF k = 0 THEN <<>> ELSE SubSeq(s, k, Len(s))
Trim(s) == Reverse(TrimStart(Reverse(TrimStart(s))))

Opens(s) == Len(s) >= 2 /\ s[1] = "o1" /\ s[2] = "o2"

PrefixDecisionEager(s) ==   \* wrong: half a tag is text already
  IF Opens(TrimStart(s)) THEN "reasoning" ELSE IF TrimStart(s) = <<>> THEN "more" ELSE "text"

PrefixDecision(s) ==
  LET t == TrimStart(s)
  IN  IF Opens(t) THEN "reasoning" ELSE IF t \in {<<>>, <<"o1">>} THEN "more" ELSE "text"

Body(s) == LET t == TrimStart(s) IN SubSeq(t, 3, Len(t))

\* Where </think> begins in the body of a think block, or 0.
CloseAt(s) ==
  LET b == Body(s)
  IN  SelectInSeq([i \in DOMAIN b |-> <<b[i], IF i < Len(b) THEN b[i + 1] ELSE "">>],
                  LAMBDA p : p = <<"c1", "c2">>)

\* split_leading_think_block of a buffer whose tag is closed.
SplitReasoning(s) == Trim(SubSeq(Body(s), 1, CloseAt(s) - 1))
SplitAnswer(s)    == TrimStart(SubSeq(Body(s), CloseAt(s) + 2, Len(Body(s))))

-----------------------------------------------------------------------------
(* Output items.  A slot is "reasoning", "text" or the index of a tool call. *)

Blank == [index |-> 0, id |-> "", name |-> "", content |-> <<>>, done |-> FALSE]

New == [started |-> FALSE, completed |-> FALSE, failed |-> FALSE, next |-> 0,
        mode |-> "detecting", think |-> <<>>,
        items |-> [s \in {"reasoning", "text"} |-> Blank], output |-> <<>>, out |-> <<>>]

Emit(v, event) == [v EXCEPT !.out = Append(@, event)]

\* The index 0 of the code is the 1 here, 0 is an item not yet added.
Added(v, s) == v.items[s].index # 0

Open(v, s) ==
  IF Added(v, s) THEN v
  ELSE Emit([v EXCEPT !.next = @ + 1, !.items[s].index = v.next + 1],
            [type |-> "added", slot |-> s, id |-> v.items[s].id, index |-> v.next + 1])

Delta(v, s, d) == Emit(v, [type |-> "delta", slot |-> s, text |-> d])

Push(v, s, d) == Delta([Open(v, s) EXCEPT !.items[s].content = @ \o d], s, d)

Close(v, s) ==
  IF ~Added(v, s) \/ v.items[s].done THEN v
  ELSE LET i == v.items[s]
           item == [slot |-> s, index |-> i.index, id |-> i.id, content |-> i.content]
       IN  Emit([v EXCEPT !.items[s].done = TRUE, !.output = Append(@, item)],
                [type |-> "done", slot |-> s])

PushReasoning(v, d) == Push(v, "reasoning", d)
PushText(v, d)      == Push(v, "text", d)
CloseReasoning(v)   == Close(v, "reasoning")

\* The reasoning of a think block is closed with it; an empty part opens no item.
PushThink(v, reasoning, answer) ==
  LET r == IF reasoning = <<>> THEN v ELSE CloseReasoning(PushReasoning(v, reasoning))
  IN  IF answer = <<>> THEN r ELSE PushText(r, answer)

InText(v) == [v EXCEPT !.mode = "text", !.think = <<>>]

Drain(v) ==
  IF CloseAt(v.think) = 0 THEN v
  ELSE PushThink(InText(v), SplitReasoning(v.think), SplitAnswer(v.think))

PushContent(v, d) ==
  LET w == [v EXCEPT !.think = @ \o d]
  IN  CASE v.mode = "text"      -> PushText(CloseReasoning(v), d)
        [] v.mode = "reasoning" -> Drain(w)
        [] OTHER -> LET decision == PrefixDecision(w.think)
                    IN  CASE decision = "more"      -> w
                          [] decision = "reasoning" -> Drain([w EXCEPT !.mode = "reasoning"])
                          [] OTHER -> PushText(CloseReasoning(InText(w)), w.think)

\* A tool call or the end decides what a half-seen think block was.
FlushThink(v) ==
  CASE v.mode = "text" -> v
    [] v.mode = "detecting" ->
         IF v.think = <<>> THEN InText(v) ELSE PushText(CloseReasoning(InText(v)), v.think)
    [] OTHER -> IF CloseAt(v.think) # 0 THEN Drain(v)
                ELSE PushThink(InText(v), Trim(Body(v.think)), <<>>)

-----------------------------------------------------------------------------
(* Tool calls: the deltas of one index make one call; an item is added when  *)
(* its id or its name is known.  The input of a custom tool is sent at its   *)
(* end only.                                                                 *)

OrElse(x, default) == IF x = "" THEN default ELSE x

Announce(v, t) ==
  Open([v EXCEPT !.items[t].id = OrElse(@, "generated"), !.items[t].name = OrElse(@, "unknown")], t)

ToolDelta(v, t, d) ==
  IF d = <<>> \/ v.items[t].name = "custom" THEN v ELSE Delta(v, t, d)

PushTool(v, t) ==
  LET old == IF t.tool \in DOMAIN v.items THEN v.items[t.tool] ELSE Blank
      new == [old EXCEPT !.id = IF t.id = NoId THEN @ ELSE t.id,
                         !.name = OrElse(t.name, @),
                         !.content = @ \o t.args]
      w   == [v EXCEPT !.items = [s \in DOMAIN @ \union {t.tool} |-> IF s = t.tool THEN new ELSE @[s]]]
  IN  CASE new.index # 0 -> ToolDelta(w, t.tool, t.args)
        [] new.index = 0 /\ (new.id # "" \/ new.name # "") ->
             ToolDelta(Announce(w, t.tool), t.tool, new.content)
        [] OTHER -> w

CloseTool(v, t) ==
  IF t \notin DOMAIN v.items \/ v.items[t].done THEN v
  ELSE LET w == IF Added(v, t) THEN v ELSE Announce(v, t)
       IN  Close(IF w.items[t].name = "custom" THEN Delta(w, t, w.items[t].content) ELSE w, t)

-----------------------------------------------------------------------------
(* The response.                                                             *)

Start(v) == IF v.started THEN v ELSE Emit([v EXCEPT !.started = TRUE], [type |-> "created"])

CompletedItemsUnsorted(v) == v.output   \* wrong: in the order they were closed

\* Sorted by index; of the same index in the order they were closed.
Earlier(v, i, k) ==
  \/ v.output[i].index < v.output[k].index
  \/ v.output[i].index = v.output[k].index /\ i < k

CompletedItems(v) ==
  [n \in DOMAIN v.output |->
     v.output[CHOOSE k \in DOMAIN v.output :
                Cardinality({i \in DOMAIN v.output : Earlier(v, i, k)}) = n - 1]]

Finalize(v) ==
  IF v.completed THEN v
  ELSE LET w == FoldLeft(CloseTool, Close(CloseReasoning(FlushThink(Start(v))), "text"), Tools)
       IN  Emit([w EXCEPT !.completed = TRUE], [type |-> "completed", items |-> CompletedItems(w)])

FailOpen(v) == Emit([v EXCEPT !.failed = TRUE], [type |-> "failed"])   \* wrong: not completed

Fail(v) == Emit([v EXCEPT !.completed = TRUE, !.failed = TRUE], [type |-> "failed"])

HandleChunk(v, k) ==
  LET a == Start(v)
      b == IF k.reasoning = <<>> THEN a ELSE PushReasoning(a, k.reasoning)
      d == IF k.content = <<>> THEN b ELSE PushContent(b, k.content)
  IN  IF k.tools = <<>> THEN d
      ELSE FoldLeft(PushTool, CloseReasoning(FlushThink(d)), k.tools)

Block == [type : {"chunk"}, chunk : Chunks] \union {[type |-> "DONE"], [type |-> "error"]}

Handle(v, b) ==
  CASE b.type = "DONE"  -> Finalize(v)
    [] b.type = "error" -> Fail(v)
    [] OTHER            -> HandleChunk(v, b.chunk)

-----------------------------------------------------------------------------
(* An answer in one piece.                                                   *)

Thinks(s) == Opens(TrimStart(s)) /\ CloseAt(s) # 0

ReasoningText(m) ==
  IF m.reasoning # <<>> THEN m.reasoning
  ELSE IF Thinks(m.content) THEN SplitReasoning(m.content) ELSE <<>>

MessageText(m) == IF Thinks(m.content) THEN SplitAnswer(m.content) ELSE m.content

\* normalize_chat_tool_arguments_string; a custom tool gets the text back out of "input".
Wrapped(s) == <<"{", "input">> \o s \o <<"}">>
IsObject(t) == Len(t) >= 2 /\ t[1] = "{" /\ t[Len(t)] = "}"

WholeArguments(custom, s) ==
  CASE Trim(s) = <<>> -> <<"{", "}">>
    [] IsObject(Trim(s)) -> Trim(s)
    [] OTHER -> IF custom THEN s ELSE Wrapped(s)

\* chat_completion_to_response: reasoning, message and tool calls, the empty ones left out.
WholeItems(m) ==
  LET Item(s, id, text) == [slot |-> s, id |-> id, content |-> text]
      Said(s, text) == IF text = <<>> THEN <<>> ELSE <<Item(s, "", text)>>
      calls == [k \in DOMAIN m.tools |->
                 Item(m.tools[k].tool, IF m.tools[k].id \in {NoId, ""} THEN "generated" ELSE m.tools[k].id,
                      WholeArguments(m.tools[k].name = "custom", m.tools[k].args))]
      all   == Said("reasoning", ReasoningText(m)) \o Said("text", MessageText(m)) \o calls
  IN  [k \in DOMAIN all |-> [slot |-> all[k].slot, index |-> k, id |-> all[k].id,
                              content |-> all[k].content]]

\* completed_response_to_sse.
Shown(v, i) ==
  LET a == Emit(v, [type |-> "added", slot |-> i.slot, id |-> i.id, index |-> i.index])
  IN  Emit(IF i.content = <<>> THEN a ELSE Delta(a, i.slot, i.content),
           [type |-> "done", slot |-> i.slot])

Replay(items) ==
  Emit(FoldLeft(Shown, Start(New), items), [type |-> "completed", items |-> items])

-----------------------------------------------------------------------------
Silence == [before |-> <<>>, after |-> <<>>, args |-> [t \in {} |-> <<>>], custom |-> {},
            field |-> FALSE, proper |-> TRUE]

StreamInit ==
  /\ c = New /\ buffer = <<>> /\ link = "open" /\ blocks = 0
  /\ heard = Silence

\* An upstream is proper when the first delta of a call names it and gives its id and no
\* later one does.
ProperDelta(t, known) ==
  IF t.tool \in known THEN t.id = NoId /\ t.name = ""
  ELSE t.id \notin {NoId, ""} /\ t.name # ""

Hear(k) ==
  LET known     == DOMAIN heard.args
      Calls(n)  == {k.tools[i].tool : i \in 1..n}
      called    == known \union Calls(Len(k.tools))
      Args(t)   == FoldLeft(LAMBDA text, d : IF d.tool = t THEN text \o d.args ELSE text,
                            IF t \in known THEN heard.args[t] ELSE <<>>, k.tools)
  IN  [heard EXCEPT
        !.before = IF known = {} THEN @ \o k.content ELSE @,
        !.after  = IF known = {} THEN @ ELSE @ \o k.content,
        !.args   = [t \in called |-> Args(t)],
        !.custom = @ \union {k.tools[i].tool : i \in {j \in DOMAIN k.tools : k.tools[j].name = "custom"}},
        !.field  = @ \/ k.reasoning # <<>>,
        !.proper = @ /\ \A i \in DOMAIN k.tools : ProperDelta(k.tools[i], known \union Calls(i - 1))]

\* A block arrives.  A converter that has failed leaves the rest of the packet in its
\* buffer, but takes one more block with every later packet.
Arrive(b, samePacket) ==
  /\ link = "open" /\ blocks < MaxBlocks /\ blocks' = blocks + 1
  /\ LET waiting == Append(buffer, b)
         stays   == c.failed /\ samePacket
     IN  /\ c' = IF stays THEN c ELSE Handle(c, Head(waiting))
         /\ buffer' = IF stays THEN waiting ELSE Tail(waiting)
  /\ heard' = IF c.completed \/ b.type # "chunk" THEN heard ELSE Hear(b.chunk)
  /\ UNCHANGED link

\* The upstream's stream ends, with or without [DONE]; a block without its blank line is lost.
End ==
  /\ link = "open" /\ link' = "closed"
  /\ c' = IF c.failed THEN c ELSE Finalize(c)
  /\ UNCHANGED <<buffer, heard, blocks>>

\* The upstream's stream breaks.
Break ==
  /\ link = "open" /\ link' = "closed"
  /\ c' = Fail(c)
  /\ UNCHANGED <<buffer, heard, blocks>>

\* The upstream answers the whole message in one piece, with a list of whole calls.
AnswerWhole(m) ==
  /\ link = "open" /\ blocks = 0 /\ link' = "closed"
  /\ \A i, j \in DOMAIN m.tools : m.tools[i].tool = m.tools[j].tool => i = j
  /\ c' = Replay(WholeItems(m))
  /\ heard' = Hear(m)
  /\ UNCHANGED <<buffer, blocks>>

\* That answer cannot be read to its end, or is not what it should be: the client's
\* connection is dropped without a word of the response.
AnswerBreaks ==
  /\ link = "open" /\ blocks = 0 /\ link' = "dropped"
  /\ UNCHANGED <<c, buffer, heard, blocks>>

StreamNext ==
  \/ \E b \in Block, samePacket \in BOOLEAN : Arrive(b, samePacket)
  \/ End
  \/ Break
  \/ AnswerBreaks
  \/ \E m \in Chunks : AnswerWhole(m)

StreamSpec == StreamInit /\ [][StreamNext]_streamVars

-----------------------------------------------------------------------------
(* Properties.                                                               *)

Positions(type) == {i \in DOMAIN c.out : c.out[i].type = type}

\* What the deltas of a slot before position n of the output add up to.
Streamed(s, n) ==
  FoldLeft(LAMBDA text, e : IF e.type = "delta" /\ e.slot = s THEN text \o e.text ELSE text,
           <<>>, SubSeq(c.out, 1, n - 1))

\* What response.completed says is what was streamed: its items are those that were
\* added, in the order of their indices without a gap, each with the text that its deltas
\* brought before it was closed and, as far as the upstream is proper, under the id it
\* was added with.
CompletedIsStreamed ==
  \A n \in Positions("completed") :
    LET items == c.out[n].items
        added == {i \in Positions("added") : i < n}
    IN  /\ Len(items) = Cardinality(added)
        /\ \A i \in DOMAIN items :
             /\ items[i].index = i
             /\ \E k \in added : /\ c.out[k].slot = items[i].slot /\ c.out[k].index = i
                                 /\ heard.proper => c.out[k].id = items[i].id
             /\ \E k \in Positions("done") :
                  /\ c.out[k].slot = items[i].slot
                  /\ heard.proper => items[i].content = Streamed(items[i].slot, k)

\* A response completes at most once and never after it has failed, and a stream that is
\* over has told the client one or the other, however blocks, errors and the end of the
\* connection follow each other.  An answer in one piece that cannot be read or converted
\* tells it nothing: its connection is dropped (launcher.rs).
OneVerdict ==
  /\ Cardinality(Positions("completed")) <= 1
  /\ \A i \in Positions("completed"), k \in Positions("failed") : i < k
  /\ link = "closed" => Positions("completed") \union Positions("failed") # {}

ContentOf(items, s) ==
  LET k == SelectInSeq(items, LAMBDA i : i.slot = s) IN IF k = 0 THEN <<>> ELSE items[k].content

\* However the upstream cuts its answer, the completed response says what the answer in
\* one piece says: the same text up to white space before it, the same reasoning where
\* it comes in the content, the arguments of every call in full and in order.  Two things
\* differ: a think block that is still open at the first call or at the end counts as
\* reasoning in a stream only, and arguments are put in normal form in one piece only - a
\* stream leaves them as they came, also when they are empty or no object.
ChunksDoNotMatter ==
  \A n \in Positions("completed") :
    LET items == c.out[n].items
        said  == [reasoning |-> <<>>, content |-> heard.before, tools |-> <<>>]
        cut   == Opens(TrimStart(heard.before)) /\ ~Thinks(heard.before) /\ blocks > 0
    IN  /\ TrimStart(ContentOf(items, "text")) =
             TrimStart((IF cut THEN <<>> ELSE MessageText(said)) \o heard.after)
        /\ ~heard.field => ContentOf(items, "reasoning") =
                             IF cut THEN Trim(Body(heard.before)) ELSE ReasoningText(said)
        /\ \A t \in DOMAIN heard.args :
             ContentOf(items, t) = IF blocks > 0 THEN heard.args[t]
                                   ELSE WholeArguments(t \in heard.custom, heard.args[t])
=============================================================================
