------------------------------ MODULE ModelTurn ------------------------------
(* A conversation with a model API.  An assistant node has its source produce *)
(* the next message: the session is turned into the provider's items, the     *)
(* tools the model asks for are run and answered until it has nothing more to *)
(* ask, and the last message is added to the session                          *)
(* (packages/core/src/generate.ts, source.ts, anthropic_messages.ts,          *)
(* openai_responses.ts, google_gemini.ts, provider_stream.ts, stream.ts,      *)
(* conversation.ts).                                                          *)
(*                                                                            *)
(* Three loops do this: the streaming one (a runtime, a native provider and   *)
(* tools), the batch one of each native provider, and the one request of the  *)
(* AI SDK.  A node with a schema has a loop of its own, which ends with an    *)
(* output that fits the schema or throws.  What anybody says is the number of *)
(* the turn; a tool is its name, the one that takes the structured output is  *)
(* called "form"; the arguments of a call are the pieces they are streamed in. *)
EXTENDS Integers, Sequences, FiniteSets, SequencesExt, FiniteSetsExt

CONSTANTS
    Setups,      \* provider, options and budgets of a conversation; chosen once
    Responses    \* what a model may answer: sequences of blocks

Providers == {"openai", "anthropic", "google", "sdk"}

SetupType ==
    [provider: Providers,
     modes: SUBSET {"stream", "batch", "schema"},  \* the nodes of the agent
     auto: BOOLEAN,       \* conversationBinding: auto
     cache: {"off", "message", "capability"},  \* where a cache hint was put
     native: BOOLEAN,     \* the schema mode of a structured node
     prompt: BOOLEAN,     \* the session starts with a system message
     systems: Nat,        \* how many may come later
     retries: Nat,        \* provider.retry.maxRetries, which only Google has
     limit: Nat,          \* maxCallLimit
     asks: Nat,           \* how many times a turn the model asks for tools
     attempts: Nat \ {0}, \* maxAttempts
     turns: Nat, rewrites: Nat, faults: Nat]

ASSUME ModelAssumption == Setups \subseteq SetupType

VARIABLES
    setup,
    session,     \* the messages of the session
    turn,        \* how many turns were begun
    mode,        \* the loop this turn runs: "stream", "batch" or "schema"
    phase,       \* "idle", "ask", "answer", "stream", "got"
    rounds,      \* the assistant and tool messages of this loop so far
    asked,       \* how many rounds of tools it has run
    attempt,
    bound,       \* the provider's handle this loop uses
    remote,      \* what the provider holds, by handle
    request,     \* the items of the last request, those it holds included
    response,    \* the blocks the model answers with
    sent,        \* how many events of each block were streamed
    acc,         \* PromptTrailStreamState
    answer,      \* the assistant message read from the response
    cut,         \* the stream ended with an error event
    systems, rewrites, faults

vars == <<setup, session, turn, mode, phase, rounds, asked, attempt, bound, remote,
          request, response, sent, acc, answer, cut, systems, rewrites, faults>>

chat   == <<session, turn, mode, attempt, systems, rewrites>>
loop   == <<rounds, asked, bound, remote, request>>
stream == <<sent, acc, cut>>

-----------------------------------------------------------------------------
(* Messages, and the items a provider is sent for them *)

NoHandle == [ref |-> 0, upto |-> 0]

Message(type, blank, calls, round) ==
    [type |-> type, say |-> turn, blank |-> blank, edited |-> FALSE, calls |-> calls,
     round |-> round, handle |-> NoHandle, print |-> <<>>]

Item(kind, m, id) ==
    [kind |-> kind, say |-> m.say, edited |-> m.edited, id |-> id, round |-> m.round]

Form == "form"

\* A message says its text and then makes its calls; a result answers one.  The
\* calls beside a form are kept with it, none with a result.
ItemsOf(m) ==
    CASE m.type \in {"user", "system"} -> <<Item(m.type, m, <<>>)>>
      [] m.type = "tool_result" -> <<Item("result", m, m.calls[1].id)>>
      [] m.type = "assistant" ->
            <<Item(IF m.blank THEN "blank" ELSE "text", m, <<>>)>>
               \o [i \in DOMAIN m.calls |->
                     Item(IF \E call \in ToSet(m.calls) : call.name = Form
                          THEN Form ELSE "call", m, m.calls[i].id)]

Items(msgs) == FlattenSeq([i \in DOMAIN msgs |-> ItemsOf(msgs[i])])

\* System messages are sent as instructions, apart from the rest.
Instructions(msgs) == SelectSeq(Items(msgs), LAMBDA it : it.kind = "system")

Contents(msgs) == SelectSeq(Items(msgs), LAMBDA it : it.kind # "system")

\* The AI SDK has them in place, and each result right after its call.
SdkMessages(msgs) ==
    LET ResultsOf(call) == {j \in DOMAIN msgs : /\ msgs[j].type = "tool_result"
                                                /\ msgs[j].calls[1].id = call.id}
        Answers(m) == FlattenSeq([i \in DOMAIN m.calls |->
                         IF ResultsOf(m.calls[i]) = {} THEN <<>>
                         ELSE ItemsOf(msgs[Max(ResultsOf(m.calls[i]))])])
    IN FlattenSeq([i \in DOMAIN msgs |->
           CASE msgs[i].type = "tool_result" -> <<>>
             [] msgs[i].type = "assistant" -> ItemsOf(msgs[i]) \o Answers(msgs[i])
             [] OTHER -> ItemsOf(msgs[i])])

\* createConversationHistoryFingerprint: a digest of every message so far.
Canonical(m) ==
    <<m.type, m.say, m.blank, m.edited, IF m.type = "assistant" THEN m.calls ELSE <<>>>>
Fingerprint(msgs) == [i \in DOMAIN msgs |-> Canonical(msgs[i])]

\* The handle in a message is trusted whatever became of the history.
Trusted(msgs, i) == msgs[i].handle # NoHandle

\* conversationBindingMatchesSessionPrefix: a handle stored with a fingerprint
\* is of use while the history up to it is the one it was taken of.
Matches(msgs, i) ==
    /\ msgs[i].handle # NoHandle
    /\ msgs[i].print \in {<<>>, Fingerprint(SubSeq(msgs, 1, i))}

\* deriveConversationBinding: the latest message whose handle still holds.
Binding(msgs) ==
    LET usable == {i \in DOMAIN msgs : Matches(msgs, i)}
    IN IF usable = {} THEN NoHandle
       ELSE IF setup.provider = "openai"
            THEN [ref |-> msgs[Max(usable)].handle.ref, upto |-> Max(usable)]
            ELSE msgs[Max(usable)].handle

\* getGeminiCacheablePrefixSession: up to the last message with a cache hint,
\* or all of them when a capability carries it.
Prefix(msgs) ==
    CASE setup.cache = "message" -> Max({0} \union {i \in DOMAIN msgs :
                                            msgs[i].type = "user" /\ msgs[i].say = 1})
      [] setup.cache = "capability" -> Len(msgs)
      [] OTHER -> 0

\* shouldCreateGeminiCachedContent: the provider counts the tokens of a prefix,
\* and a model wants so many of them.
LongEnough == BOOLEAN

\* resolveGeminiCachedContent: without a handle, a prefix is cached with its
\* instructions, if it is long enough.
Caches(msgs) ==
    setup.provider = "google" /\ Binding(msgs) = NoHandle /\ Prefix(msgs) > 0

CachedContent(msgs) ==
    LET prefix == SubSeq(msgs, 1, Prefix(msgs))
    IN Instructions(prefix) \o Contents(prefix)

\* generateText and generateWithSchema: who makes the request.  The tool mode of
\* a schema is the AI SDK's for OpenAI.
Sdk ==
    \/ setup.provider = "sdk"
    \/ mode = "schema" /\ setup.provider = "openai" /\ ~setup.native

Resolved(msgs) ==
    IF Sdk \/ (setup.provider = "openai" /\ ~setup.auto) THEN NoHandle ELSE Binding(msgs)

\* A cache made now of all there is to send is for the next turn.
OfUse(handle, msgs) ==
    handle.upto < Len(msgs) \/ \E i \in DOMAIN session : session[i].handle = handle

\* The requests of the providers: what a handle stands for comes first.
Held(handle, stored) == IF handle = NoHandle THEN <<>> ELSE stored[handle.ref]

After(handle, msgs) == Contents(SubSeq(msgs, handle.upto + 1, Len(msgs)))

\* The instructions do not outlive a response and are sent again.
OpenAIRequest(handle, stored, msgs) ==
    Instructions(msgs) \o Held(handle, stored) \o After(handle, msgs)

AnthropicRequest(msgs) == Instructions(msgs) \o Contents(msgs)

\* A cache has its own; what the session has is not sent with it.
GeminiRequest(handle, stored, msgs) ==
    (IF handle = NoHandle THEN Instructions(msgs) ELSE Held(handle, stored))
        \o After(handle, msgs)

RequestFor(handle, stored, msgs) ==
    CASE Sdk -> SdkMessages(msgs)
      [] ~Sdk /\ setup.provider = "openai" -> OpenAIRequest(handle, stored, msgs)
      [] setup.provider = "anthropic" -> AnthropicRequest(msgs)
      [] setup.provider = "google" -> GeminiRequest(handle, stored, msgs)

-----------------------------------------------------------------------------
(* Schemas *)

\* The output is the input of a tool, or the text itself.
OffersForm == mode = "schema" /\ ~setup.native /\ (Sdk \/ setup.provider = "anthropic")

\* A native schema has no tools with Anthropic and the AI SDK.
OffersTools == mode = "schema" /\ setup.native => ~Sdk /\ setup.provider # "anthropic"

\* tool_choice of generateAnthropicMessagesWithSchema: the form, when there are
\* no other tools and once they have been used.
Forced == OffersForm /\ ~Sdk /\ (setup.asks = 0 \/ asked > 0)

\* getGeminiToolLoopContinuationOptions: no more calls after the first round,
\* which a cache does not hear of.
Silenced ==
    mode = "schema" /\ setup.provider = "google" /\ asked > 0 /\ bound = NoHandle

-----------------------------------------------------------------------------
(* Reading a streamed response *)

Pieces == 2
ArgsOf(b) == [p \in 1..Pieces |-> <<b, p>>]

IsCall(block) == block.kind = "call"
IsForm(block) == IsCall(block) /\ block.name = Form

\* The provider's id of a call.
CallId(b) == <<turn, attempt, asked, b>>

NoStream == [text |-> <<>>, tools |-> <<>>]

\* reducePromptTrailStreamEvent: the entry of a call is made or changed.
Entry(tools, id, index) ==
    LET at == {i \in DOMAIN tools : tools[i].id = id}
    IN IF at = {} THEN [id |-> id, index |-> index, name |-> "", text |-> <<>>, args |-> <<>>]
       ELSE [tools[Max(at)] EXCEPT !.index = index]

Upsert(tools, entry) ==
    IF \E i \in DOMAIN tools : tools[i].id = entry.id
    THEN [i \in DOMAIN tools |-> IF tools[i].id = entry.id THEN entry ELSE tools[i]]
    ELSE Append(tools, entry)

Said(st, piece) == [st EXCEPT !.text = Append(@, piece)]

Started(st, id, index, name) ==
    [st EXCEPT !.tools = Upsert(@, [Entry(@, id, index) EXCEPT !.name = name])]

Argued(st, id, index, piece) ==
    [st EXCEPT !.tools = Upsert(@, [Entry(@, id, index) EXCEPT !.text = Append(@, piece)])]

ArgsDone(st, id, index, args) ==
    [st EXCEPT !.tools = Upsert(@, [Entry(@, id, index) EXCEPT !.args = args])]

\* The events of a block: a text is its pieces, a call is its start, the pieces
\* of its arguments and their end.
EventsOf(b) == IF IsCall(response[b]) THEN Pieces + 2 ELSE Pieces

\* The delta names the item, and the item is taken for the call.
ItemId(b) == <<"item", b>>

\* The normalizers remember, by item or by index, the call an item started.
StreamedId(b) == IF sent[b] > 0 THEN CallId(b) ELSE ItemId(b)

\* Event number k of block b, normalized and reduced.
Reduced(st, b, k) ==
    LET id == IF k = 1 THEN CallId(b) ELSE StreamedId(b)
    IN CASE ~IsCall(response[b]) -> Said(st, <<b, k>>)
         [] IsCall(response[b]) /\ k = 1 -> Started(st, id, b, response[b].name)
         [] IsCall(response[b]) /\ k = Pieces + 2 -> ArgsDone(st, id, b, ArgsOf(b))
         [] OTHER -> Argued(st, id, b, <<b, k - 1>>)

\* A part of a Gemini chunk: a piece of text, or a call as a whole, under its
\* place in the chunk.
Part(st, b, k, place) ==
    IF IsCall(response[b])
    THEN ArgsDone(Started(st, CallId(b), place, response[b].name),
                  CallId(b), place, ArgsOf(b))
    ELSE Said(st, <<b, k>>)

PartsOf(b) == IF IsCall(response[b]) THEN 1 ELSE Pieces

\* normalizeToolArguments: what was ended, or what there is.
Arguments(tool) == IF tool.args # <<>> THEN tool.args ELSE tool.text

\* streamStateToAssistantMessage: the named calls, by index.
Assembled(st) ==
    LET named == {i \in DOMAIN st.tools : st.tools[i].name # ""}
        order == SetToSortSeq(named, LAMBDA i, j :
                    \/ st.tools[i].index < st.tools[j].index
                    \/ st.tools[i].index = st.tools[j].index /\ i < j)
    IN [text  |-> st.text,
        calls |-> [n \in DOMAIN order |->
                     [id |-> st.tools[order[n]].id, name |-> st.tools[order[n]].name,
                      args |-> Arguments(st.tools[order[n]])]]]

\* The response as the model wrote it, which is what a batch response holds.
Written ==
    LET texts == {b \in DOMAIN response : ~IsCall(response[b])}
        calls == SetToSortSeq(DOMAIN response \ texts, <)
    IN [text  |-> FlattenSeq([n \in 1..Cardinality(texts) |->
                     ArgsOf(SetToSortSeq(texts, <)[n])]),
        calls |-> [n \in DOMAIN calls |->
                     [id |-> CallId(calls[n]), name |-> response[calls[n]].name,
                      args |-> ArgsOf(calls[n])]]]

NoAnswer == [text |-> <<>>, calls |-> <<>>]
-----------------------------------------------------------------------------

Init ==
    /\ setup \in Setups
    /\ turn = 0 /\ mode = "batch" /\ phase = "idle"
    /\ session = IF setup.prompt
                 THEN <<[Message("system", FALSE, <<>>, FALSE) EXCEPT !.say = 0]>>
                 ELSE <<>>
    /\ rounds = <<>> /\ asked = 0 /\ attempt = 1
    /\ bound = NoHandle /\ remote = <<>> /\ request = <<>>
    /\ response = <<>> /\ sent = <<>> /\ acc = NoStream /\ answer = NoAnswer
    /\ cut = FALSE
    /\ systems = setup.systems /\ rewrites = setup.rewrites /\ faults = setup.faults

\* A system node.
Instruct ==
    /\ phase = "idle" /\ systems > 0
    /\ systems' = systems - 1
    /\ session' = Append(session, Message("system", FALSE, <<>>, FALSE))
    /\ UNCHANGED <<setup, turn, mode, attempt, rewrites, phase, loop, response, stream,
                   answer, faults>>

\* A user speaks, or the agent goes on by itself, and an assistant node begins.
\* With tools and a runtime the loop is the streaming one; a node without tools
\* has the batch loop of its provider, a structured node that of its schema.
BeginTurn(speaks, m) ==
    /\ phase = "idle" /\ turn < setup.turns
    /\ speaks \/ session # <<>>
    /\ m \in setup.modes
    /\ turn' = turn + 1 /\ mode' = m /\ phase' = "ask"
    /\ session' = IF speaks
                  THEN Append(session, [Message("user", FALSE, <<>>, FALSE)
                                          EXCEPT !.say = turn + 1])
                  ELSE session
    /\ attempt' = 1 /\ rounds' = <<>> /\ asked' = 0 /\ bound' = NoHandle
    /\ UNCHANGED <<setup, remote, request, response, stream, answer, systems, rewrites, faults>>

\* A request: what the handle stands for, the messages after it, and the rounds
\* of this loop.  The batch loops take one handle for all their requests, the
\* streaming loop looks for one each time, in the session with its rounds.
\* A cache whose creation is retried may be there twice.
Ask ==
    /\ phase = "ask" /\ phase' = "answer"
    /\ OffersForm /\ ~Sdk => asked < setup.limit
    /\ \E longEnough \in LongEnough, lost \in 0..Min({setup.retries, faults}) :
        LET msgs == IF mode = "stream" THEN session \o rounds ELSE session
            fresh == mode = "stream" \/ rounds = <<>>
            caching == longEnough /\ fresh /\ Caches(msgs)
            stored == IF caching
                      THEN remote \o [i \in 1..(lost + 1) |-> CachedContent(msgs)]
                      ELSE remote
            handle == CASE caching -> [ref |-> Len(stored), upto |-> Prefix(msgs)]
                        [] fresh /\ ~caching -> Resolved(msgs)
                        [] OTHER -> bound
            used == IF OfUse(handle, msgs) THEN handle ELSE NoHandle
        IN /\ lost > 0 => caching
           /\ faults' = faults - lost
           /\ remote' = stored
           /\ bound' = handle
           /\ request' = RequestFor(used, stored, msgs)
                            \o (IF mode = "stream" THEN <<>> ELSE Items(rounds))
    /\ UNCHANGED <<setup, chat, rounds, asked, response, stream, answer>>

\* withGoogleProviderRetry: the same request again.
ProviderRetries ==
    /\ phase = "answer" /\ setup.provider = "google"
    /\ setup.retries > 0 /\ faults > 0 /\ faults' = faults - 1
    /\ UNCHANGED <<setup, chat, phase, loop, response, stream, answer>>

\* The provider answers; it asks for tools as often as its budget says.
Respond(r) ==
    /\ phase = "answer" /\ phase' = "stream"
    /\ LET calls == {b \in DOMAIN r : IsCall(r[b])}
           forms == {b \in DOMAIN r : IsForm(r[b])}
       IN /\ calls # forms => asked < setup.asks /\ OffersTools /\ ~Forced /\ ~Silenced
          /\ forms # {} => OffersForm
          /\ Forced => forms # {}
    /\ response' = r
    /\ sent' = [b \in DOMAIN r |-> 0] /\ acc' = NoStream /\ cut' = FALSE
    /\ answer' = NoAnswer
    /\ UNCHANGED <<setup, chat, loop, faults>>

\* A batch response is read as a whole.
Whole ==
    /\ phase = "stream" /\ mode # "stream"
    /\ phase' = "got" /\ answer' = Written
    /\ UNCHANGED <<setup, chat, loop, response, stream, faults>>

\* The next event of a block whose predecessors have begun: the events of two
\* items may be mixed, which is why they carry an index.
StreamEvent(b) ==
    /\ phase = "stream" /\ mode = "stream" /\ setup.provider # "google"
    /\ sent[b] < EventsOf(b)
    /\ \A a \in 1..(b - 1) : sent[a] > 0
    /\ acc' = Reduced(acc, b, sent[b] + 1)
    /\ sent' = [sent EXCEPT ![b] = @ + 1]
    /\ UNCHANGED <<setup, chat, phase, loop, response, answer, cut, faults>>

\* The parts of a Gemini response, in order, so many to a chunk.
Parts == FlattenSeq([b \in DOMAIN response |-> [k \in 1..PartsOf(b) |-> <<b, k>>]])

Streamed == FoldFunction(+, 0, sent)

StreamChunk(n) ==
    /\ phase = "stream" /\ mode = "stream" /\ setup.provider = "google"
    /\ Streamed + n <= Len(Parts)
    /\ LET chunk == SubSeq(Parts, Streamed + 1, Streamed + n)
       IN /\ acc' = FoldLeftDomain(LAMBDA st, i : Part(st, chunk[i][1], chunk[i][2], i), acc, chunk)
          /\ sent' = [b \in DOMAIN sent |->
                        sent[b] + Cardinality({i \in 1..n : chunk[i][1] = b})]
    /\ UNCHANGED <<setup, chat, phase, loop, response, answer, cut, faults>>

AllStreamed ==
    \A b \in DOMAIN response :
        sent[b] = IF setup.provider = "google" THEN PartsOf(b) ELSE EventsOf(b)

\* message.done, or an error event after which nothing comes: either way the
\* message is made of what was streamed.
StreamEnds ==
    /\ phase = "stream" /\ mode = "stream"
    /\ \/ AllStreamed /\ UNCHANGED <<cut, faults>>
       \/ /\ ~AllStreamed /\ faults > 0
          /\ faults' = faults - 1 /\ cut' = TRUE
    /\ phase' = "got" /\ answer' = Assembled(acc)
    /\ UNCHANGED <<setup, chat, loop, response, sent, acc>>

\* LlmSource begins the loop anew after an error.  In the end the node fails, or
\* says nothing when it was told not to raise the error.
StartOver ==
    /\ \/ /\ attempt < setup.attempts
          /\ attempt' = attempt + 1 /\ phase' = "ask" /\ UNCHANGED session
       \/ /\ attempt = setup.attempts /\ phase' = "idle" /\ UNCHANGED attempt
          /\ session' \in {session, Append(session, Message("assistant", TRUE, <<>>, FALSE))}
    /\ rounds' = <<>> /\ asked' = 0 /\ bound' = NoHandle
    /\ UNCHANGED <<setup, turn, mode, remote, request, response, stream, answer,
                   systems, rewrites>>

\* A request that throws.
RequestFails ==
    /\ phase \in {"answer", "stream"} /\ faults > 0 /\ faults' = faults - 1
    /\ StartOver

HasOutput ==
    IF OffersForm THEN \E call \in ToSet(answer.calls) : call.name = Form
                  ELSE answer.text # <<>>

\* The loop goes on.
MoreTools ==
    /\ ~Sdk /\ answer.calls # <<>> /\ asked < setup.limit
    /\ ~(OffersForm /\ HasOutput)

\* There is no output, or it does not fit the schema.
SchemaRejects ==
    /\ phase = "got" /\ mode = "schema" /\ ~MoreTools
    /\ IF HasOutput THEN faults > 0 /\ faults' = faults - 1 ELSE UNCHANGED faults
    /\ StartOver

\* The validator of the source does not like what was said.  If it is not to
\* raise an error, the last answer is taken all the same, which is Finish.
ValidatorRejects ==
    /\ phase = "got" /\ mode # "schema" /\ ~MoreTools
    /\ faults > 0 /\ faults' = faults - 1
    /\ StartOver

\* The form was not filled in within the limit.
FormNotCalled ==
    /\ phase = "ask" /\ OffersForm /\ ~Sdk /\ asked >= setup.limit
    /\ UNCHANGED faults
    /\ StartOver

\* finalizeOpenAIStructuredOutputMessage passes a refusal on.
Refused == setup.provider = "openai" /\ ~Sdk /\ answer.text = <<>>

-----------------------------------------------------------------------------

\* A result under the name of its tool.
ResultsByName(calls) ==
    [i \in DOMAIN calls |->
        Message("tool_result", FALSE, <<[calls[i] EXCEPT !.id = <<calls[i].name>>]>>, ~Sdk)]

\* Every call has a result, if only to say that there is no such tool, that it
\* was denied, or that it threw.
Results(calls) ==
    [i \in DOMAIN calls |-> Message("tool_result", FALSE, <<calls[i]>>, ~Sdk)]

RunTools ==
    /\ phase = "got" /\ phase' = "ask"
    /\ MoreTools
    /\ rounds' = rounds \o <<Message("assistant", answer.text = <<>>, answer.calls, TRUE)>>
                        \o Results(answer.calls)
    /\ asked' = asked + 1
    /\ UNCHANGED <<setup, chat, bound, remote, request, response, stream, answer, faults>>

\* What the loop gives the node: the last message.  Calls past the limit stay in
\* a streamed message and are dropped from a batch one, which has the handle of
\* the response, or of the cache, instead; the form stays in what the AI SDK
\* returns.
LastMessage ==
    LET m == Message("assistant", answer.text = <<>>, <<>>, FALSE)
    IN CASE mode = "stream" \/ (Sdk /\ OffersTools) -> [m EXCEPT !.calls = answer.calls]
         [] Sdk /\ ~OffersTools -> m
         [] mode # "stream" /\ ~Sdk /\ setup.provider = "openai" ->
               [m EXCEPT !.handle = [ref |-> Len(remote) + 1, upto |-> 0],
                         !.print = Fingerprint(Append(session, m))]
         [] OTHER -> [m EXCEPT !.handle = bound, !.blank = @ /\ ~OffersForm]

\* A structured output is written down anew, and may look different.
Reformats == mode = "schema" /\ ~OffersForm /\ ~Refused

\* The node adds the message to the session, an assistant also the results the
\* AI SDK has come to.
AssistantAdds(m) == Append(session, m) \o (IF Sdk THEN Results(answer.calls) ELSE <<>>)

StructuredAdds(m) == Append(session, m)

\* The message is added after middleware had its say.  OpenAI stores the response.
Finish(edited) ==
    /\ phase = "got" /\ phase' = "idle"
    /\ ~MoreTools /\ (mode = "schema" => HasOutput \/ Refused)
    /\ edited => rewrites > 0 \/ Reformats
    /\ rewrites' = IF edited /\ ~Reformats THEN rewrites - 1 ELSE rewrites
    /\ LET m == [LastMessage EXCEPT !.edited = edited]
       IN session' = IF mode = "schema" THEN StructuredAdds(m) ELSE AssistantAdds(m)
    /\ remote' = IF mode # "stream" /\ ~Sdk /\ setup.provider = "openai"
                 THEN Append(remote,
                        SelectSeq(request, LAMBDA it : it.kind # "system")
                          \o ItemsOf([Message("assistant", answer.text = <<>>, <<>>, FALSE)
                                         EXCEPT !.calls = answer.calls]))
                 ELSE remote
    /\ UNCHANGED <<setup, turn, mode, attempt, rounds, asked, bound, request, response,
                   stream, answer, systems, faults>>

\* A transform or a middleware edits a message, or drops the oldest one.
Rewrite ==
    /\ phase = "idle" /\ session # <<>>
    /\ rewrites > 0 /\ rewrites' = rewrites - 1
    /\ \/ \E i \in DOMAIN session :
             session[i].type # "tool_result" /\ session' = [session EXCEPT ![i].edited = TRUE]
       \/ session' = Tail(session)
    /\ UNCHANGED <<setup, turn, mode, attempt, phase, loop, response, stream, answer,
                   systems, faults>>

-----------------------------------------------------------------------------

Streaming == (\E b \in DOMAIN response : StreamEvent(b)) \/ (\E n \in 1..2 : StreamChunk(n))
               \/ StreamEnds

Next ==
    \/ Instruct
    \/ \E speaks \in BOOLEAN, m \in {"stream", "batch", "schema"} : BeginTurn(speaks, m)
    \/ Ask \/ ProviderRetries
    \/ \E r \in Responses : Respond(r)
    \/ Whole \/ Streaming \/ RequestFails
    \/ SchemaRejects \/ ValidatorRejects \/ FormNotCalled \/ RunTools \/ Rewrite
    \/ \E edited \in BOOLEAN : Finish(edited)

Spec == Init /\ [][Next]_vars

-----------------------------------------------------------------------------

\* The shape of the state.
TypeOK ==
    /\ setup \in Setups
    /\ turn \in 0..setup.turns /\ attempt \in 1..setup.attempts
    /\ mode \in {"stream", "batch", "schema"}
    /\ phase \in {"idle", "ask", "answer", "stream", "got"}
    /\ asked \in 0..setup.limit /\ cut \in BOOLEAN
    /\ bound.ref \in 0..Len(remote)
    /\ DOMAIN sent \subseteq DOMAIN response
    /\ systems \in 0..setup.systems
    /\ rewrites \in 0..setup.rewrites /\ faults \in 0..setup.faults

\* What the parties said to each other, without the rounds of the loops.
Conversation(items) ==
    SelectSeq(items, LAMBDA it : ~it.round /\ it.kind \notin {"blank", "system"})

System(items) == SelectSeq(items, LAMBDA it : it.kind = "system")

\* "PromptTrail history wins": whatever the provider remembers under a handle,
\* and however the history was edited since, a request amounts to the session,
\* every message once and as it is now, and its instructions are those of the
\* session.
ProviderSeesSession ==
    phase = "answer" =>
        /\ Conversation(request) = Conversation(Items(session))
        /\ System(request) = System(Items(session))

\* In a request every call is answered, once, before anyone says anything else,
\* and every result answers a call; the message with a form is left out, whose
\* calls the AI SDK's tool mode keeps without their results.
AnsweredCalls ==
    phase = "answer" =>
        \A i \in DOMAIN request :
            LET it == request[i]
                others == {j \in DOMAIN request \ {i} :
                             /\ request[j].id = it.id
                             /\ request[j].kind \in {"call", "result"}}
            IN it.kind \in {"call", "result"} =>
                 /\ Cardinality(others) = 1
                 /\ \A j \in others :
                      /\ request[j].kind # it.kind
                      /\ (it.kind = "call") = (i < j)
                      /\ \A k \in Min({i, j})..Max({i, j}) :
                            request[k].kind \in {"call", "result"}

\* A streamed message is the one the model wrote: its text whole and in order,
\* its calls with their names, ids and arguments, however the events of the
\* items were mixed.  The parts of Gemini have no place in the whole response,
\* so there the order of the calls is not claimed.
StreamAsWritten ==
    (phase = "got" /\ ~cut) =>
        /\ answer.text = Written.text
        /\ IF setup.provider = "google"
           THEN ToSet(answer.calls) = ToSet(Written.calls)
           ELSE answer.calls = Written.calls
=============================================================================
