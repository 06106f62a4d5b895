----------------------------- MODULE AgentGraph -----------------------------
(***************************************************************************)
(* Agents and the graphs they become: the builder methods of an agent, the *)
(* ids it derives, the loops it adds around assistants and goals that have *)
(* tools, and the graph a tree of templates is compiled to                 *)
(* (packages/core/src/templates/agent.ts, graph.ts and templates/).        *)
(*                                                                         *)
(* An id is the sequence of its words, <<"user", "1">> for user-1, and <<>> *)
(* while it has none; a path is a sequence of ids.  A callback is a name.  *)
(***************************************************************************)
EXTENDS Naturals, Sequences, FiniteSets, SequencesExt, FiniteSetsExt, TLC

(* The next word of an id that is derived from another one.                 *)
Sub(id, word) == Append(id, word)

(* Whether hooks are told of a node is decided when the graph is made.       *)
Draft(id, type, data, children) ==
  [id |-> id, type |-> type, data |-> data, children |-> children,
   lifecycle |-> FALSE]

Leaf(id, type, data) == Draft(id, type, data, << >>)

-----------------------------------------------------------------------------
(* The leaves an author writes.                                             *)

\* A data field that is left out.
Unset == ""

System(id, text) == Leaf(id, "system", [text |-> text])
User(id, text)   == Leaf(id, "user", [text |-> text])
Inbox(id)        == Leaf(id, "inbox", [on |-> TRUE])
AwaitInput(id, required) == Leaf(id, "awaitInput", [required |-> required])
Sleep(id)        == Leaf(id, "sleep", [on |-> TRUE])

(* A validator makes an answer it rejects fail; without one nothing does.   *)
Assistant(id, source, rejects, maxAttempts, raiseError) ==
  Leaf(id, "assistant", [source |-> source, rejects |-> rejects,
                         maxAttempts |-> maxAttempts, raiseError |-> raiseError])

Says(id, source) == Assistant(id, source, {}, 1, TRUE)

(* The tools a node names, or those of the agent.                           *)
AgentTools == {"*"}
Tools(id, allowed) == Leaf(id, "tools", [allowed |-> allowed])

Transform(id, handler) ==
  Leaf(id, "transform", [kind |-> "handler", handler |-> handler])

Structured(id, source, fold) ==
  Leaf(id, "structured", [source |-> source, fold |-> fold])

(* An old template is added as it is.                                       *)
Template(id, template) ==
  Leaf(id, "transform", [kind |-> "template", template |-> template])

(* One source per repetition.                                               *)
Parallel(id, sources, strategy) ==
  Leaf(id, "parallel", [sources |-> sources, strategy |-> strategy])

-----------------------------------------------------------------------------
(* Ids                                                                      *)

DeriveType(node) == IF node.type = "scope" THEN "subroutine" ELSE node.type

(* A node without an id gets its type and its number among the nodes of     *)
(* that type, or the next number no sibling has.                            *)
FinalizeIds(nodes) ==
  LET authored == { nodes[i].id : i \in DOMAIN nodes } \ {<< >>}
      Named(type, k) == << type, ToString(k) >>
      WithId(done, node) ==
        LET type == DeriveType(node)
            occurrence == 1 + Len(SelectSeq(SubSeq(nodes, 1, Len(done)),
                                            LAMBDA n : DeriveType(n) = type))
            used == authored \cup { done[i].id : i \in DOMAIN done }
            free == { k \in occurrence .. occurrence + Len(nodes) :
                        Named(type, k) \notin used }
        IN Append(done, [node EXCEPT !.id = IF @ # << >> THEN @
                                            ELSE Named(type, Min(free))])
  IN FoldLeft(WithId, << >>, nodes)

-----------------------------------------------------------------------------
(* The nodes that hold others.  The inner agent finalizes its ids itself.   *)

Loop(id, body, condition, maxIterations) ==
  Draft(id, "loop", [kind |-> "while", condition |-> condition,
                     maxIterations |-> maxIterations, legacy |-> FALSE],
        FinalizeIds(body))

Conditional(id, condition, then, else) ==
  LET children == FinalizeIds(then \o else)
      Ids(first, last) == { children[i].id : i \in first .. last }
  IN Draft(id, "conditional",
           [condition |-> condition, then |-> Ids(1, Len(then)),
            else |-> Ids(Len(then) + 1, Len(children))],
           children)

Subroutine(id, body, init, squash) ==
  Draft(id, "scope", [policy |-> TRUE, init |-> init, squash |-> squash],
        FinalizeIds(body))

(* A goal asks the model, runs its tools and checks, again and again.       *)
Goal(id, goal, options) ==
  LET Attempts ==
        << Leaf(<<"model">>, "assistant", Says(<< >>, options.model).data),
           Leaf(<<"tools">>, "tools", [allowed |-> options.tools]),
           Leaf(<<"check">>, "transform",
                [kind |-> "goalSatisfaction", handler |-> options.isSatisfied]) >>
      Interaction ==
        IF options.interaction = "none" THEN << >>
        ELSE << AwaitInput(<<"interaction">>, options.interaction = "required") >>
  IN Draft(id, "goal",
           [goal |-> goal, interaction |-> options.interaction,
            maxAttempts |-> options.maxAttempts,
            onUnsatisfied |-> options.onUnsatisfied],
           << User(<<"prompt">>, goal),
              Draft(<<"attempts">>, "loop",
                    [kind |-> "goalAttempts", condition |-> Unset,
                     maxIterations |-> options.maxAttempts, legacy |-> FALSE],
                    Attempts \o Interaction) >>)

-----------------------------------------------------------------------------
(* The old templates, which hold others and have no ids.                    *)

Composite(type, children, condition, maxIterations, init, squash) ==
  Draft(<< >>, type, [condition |-> condition, maxIterations |-> maxIterations,
                      init |-> init, squash |-> squash], children)

Sequence(children) == Composite("sequence", children, Unset, 0, Unset, Unset)

LoopTemplate(body, loopIf, maxIterations) ==
  Composite("loop", body, loopIf, maxIterations, Unset, Unset)

SubroutineTemplate(templates, init, squash) ==
  Composite("subroutine", templates, Unset, 0, init, squash)

\* One template when the condition holds, and perhaps one when it does not.
ConditionalTemplate(condition, templates) ==
  Composite("conditional", templates, condition, 0, Unset, Unset)

-----------------------------------------------------------------------------
(* The loops an agent adds by itself.                                       *)

PendingToolCalls == "hasPendingToolCalls"

ToolLoop(id, children) ==
  Draft(id, "loop", [kind |-> "while", condition |-> PendingToolCalls,
                     maxIterations |-> 0, legacy |-> FALSE], children)

(* After an assistant: run the tools it asks for and ask it again.          *)
AutoToolLoop(assistant) ==
  << assistant,
     ToolLoop(Sub(assistant.id, "loop"),
              << Tools(Sub(assistant.id, "tools"), AgentTools), assistant >>) >>

(* The tools of an attempt become a loop of the tools and the model.        *)
AttemptToolLoop(attempts) ==
  LET Child(id) == attempts.children[SelectInSeq(attempts.children,
                                                 LAMBDA n : n.id = <<id>>)]
      rest == SelectSeq(attempts.children, LAMBDA n : n.id \notin {<<"model">>, <<"tools">>})
  IN [attempts EXCEPT !.children =
        << Child("model"),
           ToolLoop(<<"model", "loop">>,
                    << [Child("tools") EXCEPT !.id = <<"model", "tools">>],
                       Child("model") >>) >> \o rest]

ExpandGoal(goal, hasTools) ==
  LET configured == goal.children[2].children[2].data.allowed # AgentTools
  IN IF ~ hasTools /\ ~ configured THEN goal
     ELSE [goal EXCEPT !.children[2] = AttemptToolLoop(@)]

ManualFollower(nodes, i) ==
  i < Len(nodes) /\ nodes[i + 1].type \in {"tools", "loop"}

RECURSIVE ExpandToolLoops(_, _, _)
ExpandToolLoops(nodes, hasTools, topLevel) ==
  LET Inside(node) ==
        [node EXCEPT !.children = ExpandToolLoops(@, hasTools, FALSE)]
      Expanded(i) ==
        IF nodes[i].type = "goal" THEN << ExpandGoal(Inside(nodes[i]), hasTools) >>
        ELSE IF /\ topLevel /\ nodes[i].type = "assistant"
                /\ hasTools /\ ~ ManualFollower(nodes, i)
             THEN AutoToolLoop(nodes[i])
        ELSE << Inside(nodes[i]) >>
  IN FlattenSeq([i \in DOMAIN nodes |-> Expanded(i)])

(* An agent: its nodes and tools, its middleware and hooks in the order they *)
(* were added, and whether somebody observes it.                            *)
Agent(nodes, tools) == [nodes |-> nodes, tools |-> tools, middleware |-> << >>,
                        hooks |-> << >>, observed |-> FALSE]

Use(agent, middleware) == [agent EXCEPT !.middleware = @ \o middleware]
Hook(agent, hooks)     == [agent EXCEPT !.hooks = @ \o hooks]
Observe(agent)         == [agent EXCEPT !.observed = TRUE]

HasInterceptors(agent) == agent.middleware # << >> \/ agent.hooks # << >> \/ agent.observed

RECURSIVE WithLifecycle(_)
WithLifecycle(nodes) ==
  [i \in DOMAIN nodes |-> [nodes[i] EXCEPT !.lifecycle = TRUE,
                                           !.children = WithLifecycle(@)]]

(* Every node an author wrote gets the lifecycle phases, at any depth, once  *)
(* the agent has something that could look at them.                         *)
ToGraph(agent) ==
  LET finalized == FinalizeIds(agent.nodes)
      raw == IF HasInterceptors(agent) THEN WithLifecycle(finalized) ELSE finalized
  IN [agent EXCEPT !.nodes = ExpandToolLoops(raw, agent.tools # {}, TRUE)]

-----------------------------------------------------------------------------
(* The manifest of a graph: what a changed agent is told from another by.   *)

RECURSIVE ManifestNodes(_, _)
ManifestNodes(parent, nodes) ==
  FlattenSeq([i \in DOMAIN nodes |->
    LET path == Append(parent, nodes[i].id)
    IN << << path, nodes[i].type, nodes[i].data >> >>
         \o ManifestNodes(path, nodes[i].children)])

Manifest(graph) == << ManifestNodes(<< >>, graph.nodes), graph.tools,
                      graph.middleware, graph.hooks >>

-----------------------------------------------------------------------------
(* Validation                                                               *)

(* Every node can be told from every other by its path.                     *)
RECURSIVE ValidNodes(_)
ValidNodes(nodes) ==
  /\ \A i, j \in DOMAIN nodes : nodes[i].id = nodes[j].id => i = j
  /\ \A i \in DOMAIN nodes : nodes[i].id # << >> /\ ValidNodes(nodes[i].children)

(* No two handlers have the same name.                                      *)
ValidHandlers(handlers) == IsInjective(handlers)

IsConsumer(node) ==
  \/ node.type \in {"inbox", "awaitInput"}
  \/ node.type = "user" /\ node.data.text = Unset

RECURSIVE HasConsumer(_)
HasConsumer(nodes) ==
  \E i \in DOMAIN nodes : IsConsumer(nodes[i]) \/ HasConsumer(nodes[i].children)

-----------------------------------------------------------------------------
(* A continued run starts over.                                             *)
SkipNone(nodes, resumeFrom) == {}

(* The prefix a continued run has behind it: every leaf before the node it  *)
(* was suspended at, or else before the first node that reads the inbox.    *)
SkipNodes(nodes, resumeFrom) ==
  LET RECURSIVE Visit(_, _, _)
      Visit(children, parent, seen) ==
        LET Step(s, child) ==
              LET path == Append(parent, child.id)
                  entry == IF resumeFrom # << >> THEN path = resumeFrom
                           ELSE IsConsumer(child)
                  skipped == IF child.children = << >> THEN {path} ELSE {}
              IN IF s.reached THEN s
                 ELSE IF entry THEN [s EXCEPT !.reached = TRUE]
                 ELSE Visit(child.children, path,
                            [s EXCEPT !.paths = @ \cup skipped])
        IN FoldLeft(Step, seen, children)
  IN Visit(nodes, << >>, [paths |-> {}, reached |-> FALSE]).paths
=============================================================================
