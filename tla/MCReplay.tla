------------------------------ MODULE MCReplay ------------------------------
(* Four agents, each with changed ones it is replayed with: a chat that waits *)
(* for its user, a router that asks a validated classifier and delegates to a *)
(* subroutine, a goal that needs the user's word, and a fan-out that sleeps   *)
(* before it answers with a tool.  Their middleware notes the time in the     *)
(* session, cuts what the model is shown, corrects an answer and guards a     *)
(* call; the app tries a call again that threw.                               *)
EXTENDS Replay

Chat(source) ==
  << Template(<< >>,
       Sequence(<< System(<< >>, "be brief"),
                   ConditionalTemplate("yes", << System(<< >>, "again"), User(<< >>, "hello") >>) >>)),
     Loop(<< >>, << AwaitInput(<< >>, TRUE), Says(<< >>, source), Tools(<< >>, AgentTools) >>,
          "calling", 3) >>

Router(source) ==
  << User(<< >>, Unset),
     Assistant(<< >>, "classify", {"hm"}, 2, TRUE),
     Conditional(<< >>, "yes",
       << Subroutine(<< >>, << AwaitInput(<< >>, TRUE), Says(<< >>, source) >>, "copy", Unset) >>,
       << Template(<< >>,
            LoopTemplate(<< SubroutineTemplate(<< Structured(<< >>, "extract", Unset) >>, "copy", Unset),
                            Transform(<< >>, "last") >>, "calling", 2)) >>) >>

Pursue(word) ==
  << Goal(<< >>, "help", [model |-> "solve", tools |-> AgentTools, isSatisfied |-> "yes",
                          interaction |-> word, maxAttempts |-> 2,
                          onUnsatisfied |-> "retry"]) >>

FanOut(strategy) ==
  << Inbox(<< >>), Parallel(<< >>, <<"first", "second">>, strategy),
     Sleep(<< >>), Says(<< >>, "sum up"), Transform(<< >>, "last") >>

MCAgent(p) ==
  CASE p = "chat"      -> Use(Agent(Chat("answer"), {"search"}), <<"note", "trim">>)
    [] p = "chat2"     -> Agent(Chat("answer well"), {"search"})
    [] p = "router"    -> Agent(Router("advise"), {})
    [] p = "router2"   -> Hook(Agent(Router("advise well"), {}), <<"stop">>)
    [] p = "goal"      -> Observe(Hook(Agent(Pursue("required"), {"search"}), <<"sign">>))
    [] p = "goal2"     -> Agent(Pursue("none"), {})
    [] p = "fan-out"   -> Use(Agent(FanOut("best"), {"search"}), <<"polish", "guard">>)
    [] p = "fan-out2"  -> Agent(FanOut("keep"), {"search"})

MCGraph(p) == ToGraph(MCAgent(p))

Said(session) == IF session = << >> THEN Unset ELSE Last(session).text

MCHolds(condition, session) ==
  CASE condition = "yes"     -> Said(session) = "yes"
    [] condition = "calling" -> Said(session) # "yes"

MCRewrite(handler, session) == SubSeq(session, Len(session), Len(session))
MCOpened(init, parent) == parent
MCSquashed(squash, parent, child) == child
MCScore(session) == IF Said(session) = "yes" THEN 1 ELSE 0

Reply(text, calls) == [ok |-> TRUE, text |-> text, calls |-> calls]

Searched(session) == \E i \in DOMAIN session : session[i].role = "tool_result"

\* A model with a tool calls it once, unless it knows; the others say yes or no.
\* The goal's knows only then.
MCAnswers(leaf) ==
  CASE leaf.kind = "tool" -> { Reply("found", << >>) }
    [] leaf.ask = "solve" ->
         IF Searched(leaf.session) THEN { Reply("yes", << >>) }
         ELSE { Reply("hm", << >>), Reply("wait", <<"search">>) }
    [] leaf.ask \in {"answer", "sum up"} /\ ~ Searched(leaf.session) ->
         { Reply("yes", << >>), Reply("wait", <<"search">>) }
    [] OTHER -> { Reply("yes", << >>), Reply("hm", << >>) }

NoteMessage == Message("system", "noted", << >>)

MCHandler(name, at, session, subject) ==
  CASE name = "note" /\ at = "beforeModel" /\ NoteMessage \notin Range(session) ->
         [NoPatch EXCEPT !.op = "append", !.messages = << NoteMessage >>]
    [] name = "trim" /\ at = "prepareModelInput" ->
         [NoPatch EXCEPT !.subject = << SubSeq(subject, Len(subject), Len(subject)) >>]
    [] name = "polish" /\ at = "afterModel" /\ subject.text = "hm" ->
         [NoPatch EXCEPT !.subject = << [subject EXCEPT !.text = "perhaps"] >>]
    [] name = "sign" /\ at = "afterTemplate" /\ NoteMessage \notin Range(session) ->
         [NoPatch EXCEPT !.op = "append", !.messages = << NoteMessage >>]
    [] name = "stop" /\ at = "beforeTemplate" /\ Said(session) = "yes" ->
         [NoPatch EXCEPT !.command = "halt"]
    [] OTHER -> NoPatch

\* The app's middleware tries a call twice, a guard does a tool's call once.
MCAppMiddleware == <<"retry">>
MCWrapper(name, kind) ==
  [wraps |-> name = "retry" \/ (name = "guard" /\ kind = "tool"),
   tries |-> IF name = "retry" THEN 2 ELSE 1, keyed |-> name = "guard"]
MCAccepts(name, answer) == TRUE
MCReturned(name, answer) == [NoPatch EXCEPT !.subject = << answer >>]

MCRecorded == { "chat", "router", "goal", "fan-out" }
Changed == [p \in MCRecorded |-> p \o "2"]
MCPrograms == MCRecorded \cup { Changed[p] : p \in MCRecorded }
MCMaxInputs(p) == IF p \in {"fan-out", "fan-out2"} THEN 1 ELSE 2
MCInputs == { [kind |-> "user", text |-> "hi"] }

Strongest == <<"request-hash", "node-path", "positional">>
Hash == <<"request-hash">>
Position == <<"positional">>

\* The changed agents meet the miss policies in turn, the router all of them.
MCReplays(p) ==
  LET How(c, k, m) == [candidate |-> c, keying |-> k, miss |-> m]
      green == Changed[p]
      strict == How(green, Hash, "error")
      lenient == How(green, Strongest, "flag")
      acceptance == How(green, Hash, "live")
  IN { How(p, Strongest, "error"), How(p, Position, "flag") } \cup
     CASE p = "chat"   -> { acceptance }
       [] p = "router" -> { strict, lenient, acceptance }
       [] p = "goal"   -> { lenient }
       [] OTHER        -> { strict }
=============================================================================
