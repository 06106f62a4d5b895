----------------------------- MODULE MCModelTurn -----------------------------
(* Conversations of up to three turns.  A model says something, asks for one  *)
(* or two tools, or both, or fills in the form of a schema.                   *)
EXTENDS ModelTurn

Text == [kind |-> "text", name |-> ""]
Use(tool) == [kind |-> "call", name |-> tool]

MCResponses ==
    {<<Text>>, <<Use("search")>>, <<Text, Use("search"), Use("search")>>,
     <<Use(Form)>>, <<Use("search"), Use(Form)>>}

Base == [provider |-> "openai", modes |-> {"stream", "batch"}, native |-> TRUE,
         auto |-> TRUE, cache |-> "off", prompt |-> FALSE, systems |-> 0,
         retries |-> 0, limit |-> 1, asks |-> 1, attempts |-> 1, turns |-> 3,
         rewrites |-> 1, faults |-> 0]

\* The model asks for no more rounds than the limit, but in the batch loop of
\* Anthropic, which forgets the calls it did not run.  A system message that
\* comes after a prefix was cached is not sent to Google, so there it is the
\* first message.
MCSetups ==
    { [Base EXCEPT !.rewrites = 2],
      [Base EXCEPT !.turns = 2, !.asks = 2, !.limit = 2, !.faults = 1],
      [Base EXCEPT !.modes = {"batch", "schema"}, !.systems = 1, !.faults = 1],
      [Base EXCEPT !.modes = {"batch", "schema"}, !.native = FALSE, !.turns = 2],
      [Base EXCEPT !.provider = "anthropic", !.attempts = 2, !.faults = 1],
      [Base EXCEPT !.provider = "anthropic", !.modes = {"batch", "schema"}, !.prompt = TRUE,
                   !.native = FALSE, !.turns = 2, !.asks = 2, !.limit = 2],
      [Base EXCEPT !.provider = "anthropic", !.modes = {"schema"}, !.turns = 2],
      [Base EXCEPT !.provider = "anthropic", !.modes = {"schema"}, !.native = FALSE,
                   !.turns = 2, !.rewrites = 0],
      [Base EXCEPT !.provider = "sdk", !.modes = {"batch"}, !.systems = 1, !.turns = 2],
      [Base EXCEPT !.provider = "sdk", !.modes = {"batch", "schema"}, !.turns = 2],
      [Base EXCEPT !.provider = "google", !.cache = "message", !.prompt = TRUE,
                   !.rewrites = 0, !.retries = 1, !.faults = 1],
      [Base EXCEPT !.provider = "google", !.modes = {"batch", "schema"},
                   !.cache = "capability", !.rewrites = 0, !.asks = 2] }
=============================================================================
