------------------------------ MODULE GraphWalk -----------------------------
(***************************************************************************)
(* The graph executor (packages/core/src/graph_executor.ts): one execution *)
(* of a graph from a session and a part of the inbox, as a function of the *)
(* answers that providers and tools have given so far.  A walk goes on     *)
(* until it needs the next answer, suspends, fails or is done.             *)
(*                                                                         *)
(* A walk is a record: its status; the session and how much of the inbox   *)
(* was read; the nodes still to be skipped and the node to resume from;    *)
(* the goal that is active; what was recorded; the answers not used yet;   *)
(* the leaf that waits for one; and the timers it armed.  That a node      *)
(* looked for an input in vain is noted for the properties only.           *)
(***************************************************************************)
EXTENDS AgentGraph, Integers

CONSTANTS
  Holds(_, _),       \* Holds(condition, session): an author's condition
  Rewrite(_, _),     \* Rewrite(handler, session): a transform or a fold
  Opened(_, _),      \* Opened(init, parent): the session a scope starts with
  Squashed(_, _, _), \* Squashed(squash, parent, child): what it leaves
  Score(_),          \* Score(session), for the best of parallel answers
  Handler(_, _, _, _), \* Handler(name, phase, session, subject): a patch
  Wrapper(_, _),     \* Wrapper(name, kind): how a middleware wraps a call
  Accepts(_, _),     \* Accepts(name, answer): it does not call again
  Returned(_, _),    \* Returned(name, answer): the patch it makes of it
  MaxLoopIterations  \* for a loop or a goal that names no limit

Message(role, text, calls) == [role |-> role, text |-> text, calls |-> calls]

Say(w, message) == [w EXCEPT !.session = Append(@, message)]

On(w) == w.status = "on"

Fail(w) == [w EXCEPT !.status = "failed"]

Suspend(w, path) == [w EXCEPT !.status = "suspended", !.at = path]

NoGoal == [active |-> FALSE, attempt |-> 0, interacted |-> FALSE,
           satisfied |-> FALSE, stopped |-> FALSE, data |-> << >>]

NoLeaf == [kind |-> "none", node |-> << >>, ask |-> Unset, session |-> << >>]

-----------------------------------------------------------------------------
(* The record stream                                                        *)

\* computeModelRequestDigest covers the session; a tool's digest its input.
Digest(leaf) ==
  IF leaf.kind = "model" THEN << leaf.ask, leaf.session >> ELSE << leaf.ask >>

NodeRecord(path, type, branch) ==
  [kind |-> "node", node |-> path, digest |-> << type, branch >>, answer |-> << >>]

LeafRecord(leaf, answer) ==
  [kind |-> leaf.kind, node |-> leaf.node, digest |-> Digest(leaf), answer |-> answer]

Crumb(w, path, type, branch) ==
  [w EXCEPT !.events = Append(@, NodeRecord(path, type, branch))]

-----------------------------------------------------------------------------
(* Middleware and hooks                                                     *)

NoPatch == [op |-> "none", messages |-> << >>, subject |-> << >>, command |-> "none"]

Patched(session, patch) ==
  CASE patch.op = "append"  -> session \o patch.messages
    [] patch.op = "replace" -> patch.messages
    [] OTHER                -> session

(* Every handler of a phase in turn, middleware before hooks, each with what *)
(* the one before made of the session and of the request or result it is    *)
(* about; a hook may not touch the latter.  A command ends the phase.       *)
RunPhase(phase, w, session, subject) ==
  LET middleware == IF phase \in {"beforeTemplate", "afterTemplate"} THEN << >>
                    ELSE w.middleware
      hooks == IF phase = "prepareModelInput" THEN << >> ELSE w.hooks
      Handled(s, patch) ==
        [session |-> Patched(s.session, patch),
         subject |-> IF patch.subject = << >> THEN s.subject ELSE patch.subject[1],
         command |-> patch.command,
         patched |-> s.patched \/ patch.op # "none"]
      Middle(s, name) ==
        IF s.command # "none" THEN s
        ELSE Handled(s, Handler(name, phase, s.session, s.subject))
      Hooked(s, name) ==
        LET patch == Handler(name, phase, s.session, s.subject)
        IN IF s.command # "none" THEN s
           ELSE IF patch.subject # << >> THEN [s EXCEPT !.command = "throw"]
           ELSE Handled(s, patch)
      start == [session |-> session, subject |-> subject,
                command |-> "none", patched |-> FALSE]
  IN FoldLeft(Hooked, FoldLeft(Middle, start, middleware), hooks)

(* The phases around a template.                                            *)
Enacted(w, p) ==
  [w EXCEPT !.session = p.session, !.halted = p.command = "halt",
            !.status = IF p.command = "throw" THEN "failed" ELSE @]

Phased(phase, w) == Enacted(w, RunPhase(phase, w, w.session, << >>))

-----------------------------------------------------------------------------
(* A call of a provider or a tool                                           *)

\* What a call that throws gives.
Raised == [ok |-> FALSE, text |-> Unset, calls |-> << >>]

ModelLeaf(path, ask, session) ==
  [kind |-> "model", node |-> path, ask |-> ask, session |-> session]

ToolLeaf(path, call) ==
  [kind |-> "tool", node |-> path, ask |-> call, session |-> << >>]

(* What a call comes to: the walk, the session it leaves and the answer.    *)
Outcome(w, session, a) == [w |-> w, session |-> session, a |-> a]

Thrown(w) == Outcome(w, w.session, Raised)

Record(w, leaf, a) == [w EXCEPT !.events = Append(@, LeafRecord(leaf, a))]

(* A tool that throws or is denied gives an error result, and no record.    *)
ToolError == [ok |-> TRUE, text |-> "error", calls |-> << >>]

(* The call itself, answered by the next answer there is.                   *)
Perform(w, leaf, session) ==
  LET a == Head(w.left)
      v == [w EXCEPT !.left = Tail(@)]
  IN IF w.left = << >> THEN Thrown([w EXCEPT !.status = "ask", !.leaf = leaf])
     ELSE IF leaf.kind = "model" THEN Outcome(v, session, a)
     ELSE IF a.ok THEN Outcome(Record(v, leaf, a), session, a)
     ELSE Outcome(v, session, ToolError)

(* Middleware number i around the call.  Its outcome is memorized when it   *)
(* declares a key, which takes a durable run.                               *)
RECURSIVE Wrapped(_, _, _, _), Tried(_, _, _, _, _)

(* Without a result of its own a wrapper passes on what it wraps, called now *)
(* if it was not called.                                                    *)
Settled(i, leaf, called, o, patch) ==
  LET left == Patched(o.session, patch)
  IN IF patch.command # "none" THEN Thrown(o.w)
     ELSE IF patch.subject # << >> THEN Outcome(o.w, left, patch.subject[1])
     ELSE IF called THEN Outcome(o.w, left, o.a)
     ELSE Wrapped(i + 1, o.w, leaf, left)

Memorized(key, o, patch) == [o EXCEPT !.w.memo = (key :> patch) @@ @]

Wrapping(i, leaf, called, keys, o) ==
  LET patch == Returned(o.w.middleware[i], o.a)
  IN IF called /\ (~ On(o.w) \/ ~ o.a.ok) THEN o
     ELSE Settled(i, leaf, called, IF keys = << >> THEN o ELSE Memorized(keys[1], o, patch), patch)

Wrapped(i, w, leaf, session) ==
  IF ~ On(w) THEN Thrown(w)
  ELSE IF i > Len(w.middleware) THEN Perform(w, leaf, session)
  ELSE
  LET wrapper == Wrapper(w.middleware[i], leaf.kind)
      key == << i, w.middleware[i], leaf.kind, Digest(leaf) >>
  IN IF ~ wrapper.wraps THEN Wrapped(i + 1, w, leaf, session)
     ELSE IF wrapper.keyed /\ ~ w.durable THEN Thrown(w)
     ELSE IF wrapper.keyed /\ key \in DOMAIN w.memo
          THEN Settled(i, leaf, FALSE, Outcome(w, session, Raised), w.memo[key])
     ELSE Wrapping(i, leaf, wrapper.tries > 0, IF wrapper.keyed THEN << key >> ELSE << >>,
                   Tried(wrapper.tries, i, w, leaf, session))

(* A wrapper may call what it wraps again, until it likes the answer.       *)
Judged(n, i, leaf, session, o) ==
  IF n = 1 \/ ~ On(o.w) \/ (o.a.ok /\ Accepts(o.w.middleware[i], o.a)) THEN o
  ELSE Tried(n - 1, i, o.w, leaf, session)

Tried(n, i, w, leaf, session) ==
  IF n = 0 THEN Outcome(w, session, Raised)
  ELSE Judged(n, i, leaf, session, Wrapped(i + 1, w, leaf, session))

(* A model call in its phases.  What it is asked may differ from the        *)
(* session; its record has what the middleware made of the answer.          *)
AfterModel(w, leaf, after) ==
  IF after.command # "none" THEN Thrown(w)
  ELSE Outcome(Record(w, leaf, after.subject), after.session, after.subject)

Received(leaf, o) ==
  IF ~ On(o.w) \/ ~ o.a.ok THEN o
  ELSE AfterModel(o.w, leaf, RunPhase("afterModel", o.w, o.session, o.a))

Prepared(w, path, ask, session, input) ==
  LET leaf == ModelLeaf(path, ask, input.subject)
  IN IF input.command # "none" \/ input.patched THEN Thrown(w)
     ELSE Received(leaf, Wrapped(1, w, leaf, session))

BeforeModel(w, path, ask, before) ==
  IF before.command # "none" THEN Thrown(w)
  ELSE Prepared(w, path, ask, before.session,
                RunPhase("prepareModelInput", w, before.session, before.session))

ModelCall(w, path, ask) ==
  BeforeModel(w, path, ask, RunPhase("beforeModel", w, w.session, << >>))

Answer(session, a) == Append(session, Message("assistant", a.text, a.calls))

(* An assistant tries again after an answer its validator rejects and after *)
(* a call that threw.  The last attempt raises, or keeps the last output.   *)
RECURSIVE Attempt(_, _, _, _, _)

Validated(node, path, tries, outputs, o) ==
  LET kept == IF o.a.ok THEN << o.a >> ELSE outputs
      v == IF o.a.ok THEN [o.w EXCEPT !.session = o.session] ELSE o.w
  IN IF ~ On(o.w) THEN o.w
     ELSE IF o.a.ok /\ o.a.text \notin node.data.rejects
          THEN [v EXCEPT !.session = Answer(@, o.a)]
     ELSE IF tries < node.data.maxAttempts THEN Attempt(node, path, tries + 1, kept, v)
     ELSE IF node.data.raiseError \/ kept = << >> THEN Fail(v)
     ELSE [v EXCEPT !.session = Answer(@, kept[1])]

Attempt(node, path, tries, outputs, w) ==
  Validated(node, path, tries, outputs, ModelCall(w, path, node.data.source))

Folded(node, o) ==
  LET produced == Answer(o.session, o.a)
  IN IF ~ On(o.w) THEN o.w
     ELSE IF ~ o.a.ok THEN Fail(o.w)
     ELSE [o.w EXCEPT !.session = IF node.data.fold = Unset THEN produced
                                  ELSE Rewrite(node.data.fold, produced)]

StructuredNode(node, path, w) == Folded(node, ModelCall(w, path, Unset))

(* The sources are called one after the other, all from the same session; a *)
(* call that fails leaves that session.                                     *)
KeepAll(original, results) ==
  original \o FlattenSeq([i \in DOMAIN results |->
    SubSeq(results[i], Len(original) + 1, Len(results[i]))])

Best(original, results) ==
  LET succeeded == SelectSeq(results, LAMBDA s : s # original)
      best == { i \in DOMAIN succeeded :
                  \A j \in DOMAIN succeeded : Score(succeeded[j]) <= Score(succeeded[i]) }
  IN IF succeeded = << >> THEN original ELSE succeeded[Min(best)]

Branched(acc, original, o) ==
  [w |-> o.w,
   results |-> Append(acc.results, IF o.a.ok THEN Answer(o.session, o.a) ELSE original)]

Joined(node, original, all) ==
  IF ~ On(all.w) THEN all.w
  ELSE [all.w EXCEPT !.session = IF node.data.strategy = "best"
                                 THEN Best(original, all.results)
                                 ELSE KeepAll(original, all.results)]

ParallelNode(node, path, w) ==
  LET Branch(acc, source) ==
        IF ~ On(acc.w) THEN acc
        ELSE Branched(acc, w.session, ModelCall(acc.w, path, Unset))
  IN Joined(node, w.session,
            FoldLeft(Branch, [w |-> w, results |-> << >>], node.data.sources))

-----------------------------------------------------------------------------
(* Tools                                                                    *)

PendingCalls(session) ==
  IF session = << >> \/ Last(session).role # "assistant" THEN << >>
  ELSE Last(session).calls

HasToolCalls(session) == PendingCalls(session) # << >>

AfterTool(w, after) ==
  IF after.command # "none" THEN Fail(w)
  ELSE [w EXCEPT !.session =
          Append(after.session, Message("tool_result", after.subject.text, << >>))]

Ran(o) ==
  IF ~ On(o.w) THEN o.w
  ELSE IF ~ o.a.ok THEN Fail(o.w)
  ELSE AfterTool(o.w, RunPhase("afterTool", o.w, o.session, o.a))

BeforeTool(w, path, granted, before) ==
  IF before.command # "none" \/ before.subject \notin granted THEN Fail(w)
  ELSE Ran(Wrapped(1, w, ToolLeaf(path, before.subject), before.session))

ToolsNode(node, path, w) ==
  LET granted == IF node.data.allowed = AgentTools THEN w.tools ELSE node.data.allowed
      Run(v, call) ==
        IF ~ On(v) THEN v
        ELSE BeforeTool(v, path, granted, RunPhase("beforeTool", v, v.session, call))
  IN IF ~ HasToolCalls(w.session) THEN w
     ELSE IF ~ granted \subseteq w.tools THEN Fail(w)
     ELSE FoldLeft(Run, w, PendingCalls(w.session))

-----------------------------------------------------------------------------
(* The inbox                                                                *)

(* The next input, if there is one, becomes a message; a control input does *)
(* not.                                                                     *)
ConsumeInbox(w) ==
  IF w.cursor >= Len(w.inbox) THEN [w EXCEPT !.vain = TRUE]
  ELSE LET input == w.inbox[w.cursor + 1]
           read == [w EXCEPT !.cursor = @ + 1]
       IN IF input.kind = "control" THEN read
          ELSE Say(read, Message(input.kind, input.text, << >>))

(* All there are, and a look for one more: an input that comes later would   *)
(* be read here by a replay, which has the whole inbox.                      *)
RECURSIVE MaterializeInbox(_)
MaterializeInbox(w) ==
  LET v == ConsumeInbox(w) IN IF v.cursor = w.cursor THEN v ELSE MaterializeInbox(v)

AwaitInputNode(node, path, w) ==
  LET v == ConsumeInbox(w)
      consumed == v.cursor > w.cursor
  IN IF consumed
     THEN [v EXCEPT !.goal.interacted = @ \/ (w.goal.active /\ w.inbox[v.cursor].kind = "user"),
                    !.resume = IF @ = path THEN << >> ELSE @]
     ELSE IF node.data.required THEN Suspend(w, path)
     ELSE v

(* Without a checkpoint a sleep only takes time.                            *)
SleepNode(path, w) ==
  IF ~ w.durable \/ path \in w.fired THEN w
  ELSE Suspend([w EXCEPT !.armed = @ \cup {path}], path)

-----------------------------------------------------------------------------
(* The nodes that hold others                                               *)

Truth(condition, session) ==
  IF condition = PendingToolCalls THEN HasToolCalls(session) ELSE Holds(condition, session)

Limit(n) == IF n > 0 THEN n ELSE MaxLoopIterations

IsDescendant(path, ancestor) == IsStrictPrefix(ancestor, path)

RECURSIVE Enter(_, _, _), Iterate(_, _, _, _, _), Attempts(_, _, _)

(* A node between its lifecycle phases, which come even when it is skipped; *)
(* either phase may stop the siblings that follow.                          *)
AfterNode(lifecycle, v) ==
  IF On(v) /\ lifecycle THEN Phased("afterTemplate", v) ELSE v

BeforeNode(node, path, before) ==
  IF ~ On(before) \/ before.halted THEN before
  ELSE AfterNode(node.lifecycle, Enter(node, path, before))

Staged(node, path, w) ==
  BeforeNode(node, path, IF node.lifecycle THEN Phased("beforeTemplate", w) ELSE w)

Children(nodes, parent, w) ==
  LET Next(v, child) ==
        IF ~ On(v) \/ v.halted THEN v ELSE Staged(child, Append(parent, child.id), v)
  IN [FoldLeft(Next, w, nodes) EXCEPT !.halted = FALSE]

(* One iteration is granted to a loop the run is resumed in, whatever the   *)
(* condition says.                                                          *)
Iterate(node, path, n, resuming, w) ==
  IF ~ On(w) \/ ~ (Truth(node.data.condition, w.session) \/ resuming) THEN w
  ELSE IF n >= Limit(node.data.maxIterations)
       THEN IF node.data.legacy THEN w ELSE Fail(w)
  ELSE Iterate(node, path, n + 1, FALSE, Children(node.children, path, w))

LoopNode(node, path, w) ==
  IF node.data.condition = Unset
  THEN IF node.data.legacy THEN Children(node.children, path, w) ELSE Fail(w)
  ELSE Iterate(node, path, 0, w.resume # << >> /\ IsDescendant(w.resume, path), w)

(* A second breadcrumb says which branch was taken.                         *)
ConditionalNode(node, path, w) ==
  LET then == Truth(node.data.condition, w.session)
      ids == IF then THEN node.data.then ELSE node.data.else
  IN Children(SelectSeq(node.children, LAMBDA child : child.id \in ids), path,
              Crumb(w, path, "conditional", IF then THEN "then" ELSE "else"))

(* A scope works on a copy of the state: of what the copy learns, only the  *)
(* cursor and the session come back; the active goal and the nodes to skip  *)
(* are shared.                                                              *)
SquashSession(node, w, opened, v) ==
  LET merged == IF node.data.squash # Unset
                THEN Squashed(node.data.squash, w.session, v.session)
                ELSE w.session \o SubSeq(v.session, Len(opened) + 1, Len(v.session))
  IN IF v.status \in {"on", "suspended"}
     THEN [v EXCEPT !.session = merged, !.resume = w.resume]
     ELSE v

ScopeNode(node, path, w) ==
  LET opened == IF node.data.init = Unset THEN << >> ELSE Opened(node.data.init, w.session)
  IN IF ~ node.data.policy THEN Children(node.children, path, w)
     ELSE SquashSession(node, w, opened,
                        Children(node.children, path, [w EXCEPT !.session = opened]))

GoalNode(node, path, w) ==
  LET v == Children(node.children, path,
                    [w EXCEPT !.goal = [NoGoal EXCEPT !.active = TRUE, !.data = node.data]])
  IN [v EXCEPT !.goal = w.goal]

CanSatisfy(goal) == goal.data.interaction # "required" \/ goal.interacted

Round(node, path, w) ==
  FoldLeft(LAMBDA v, child :
             IF On(v) /\ ~ v.goal.satisfied /\ ~ v.goal.stopped
             THEN Enter(child, Append(path, child.id), v) ELSE v,
           w, node.children)

Attempts(node, path, w) ==
  LET goal == w.goal
      spent == goal.attempt >= Limit(goal.data.maxAttempts)
      again == IF CanSatisfy(goal) THEN [w EXCEPT !.goal.attempt = @ + 1] ELSE w
  IN IF ~ On(w) \/ goal.satisfied \/ goal.stopped THEN w
     ELSE IF CanSatisfy(goal) /\ spent
          THEN IF goal.data.onUnsatisfied = "continue"
               THEN [w EXCEPT !.goal.stopped = TRUE] ELSE Fail(w)
     ELSE Attempts(node, path, Round(node, path, again))

SatisfactionNode(node, w) ==
  IF CanSatisfy(w.goal) /\ (node.data.handler = Unset \/ Holds(node.data.handler, w.session))
  THEN [w EXCEPT !.goal.satisfied = TRUE]
  ELSE CASE w.goal.data.onUnsatisfied = "continue" -> [w EXCEPT !.goal.stopped = TRUE]
         [] w.goal.data.onUnsatisfied = "halt"     -> Fail(w)
         [] OTHER                                  -> w

-----------------------------------------------------------------------------
(* The old templates, which run inside of one node                          *)

RECURSIVE Execute(_, _, _), Repeat(_, _, _, _)

BeforeChild(child, path, before) ==
  IF ~ On(before) \/ before.halted THEN before
  ELSE AfterNode(TRUE, Execute(child, path, before))

Each(template, path, w) ==
  LET Child(v, child) ==
        IF ~ On(v) \/ v.halted THEN v
        ELSE BeforeChild(child, path, Phased("beforeTemplate", v))
  IN FoldLeft(Child, w, template.children)

(* A loop that reaches its limit, or has no condition, only warns.           *)
Repeat(template, path, n, w) ==
  IF template.data.condition = Unset THEN Each(template, path, w)
  ELSE IF ~ On(w) \/ w.halted \/ n >= template.data.maxIterations
          \/ ~ Holds(template.data.condition, w.session) THEN w
  ELSE Repeat(template, path, n + 1, Each(template, path, w))

SquashTemplate(template, w, opened, v) ==
  LET squashed == IF template.type # "subroutine" THEN v.session
                  ELSE IF template.data.squash = Unset
                  THEN w.session \o SubSeq(v.session, Len(opened) + 1, Len(v.session))
                  ELSE Squashed(template.data.squash, w.session, v.session)
  IN IF On(v) THEN [v EXCEPT !.session = squashed, !.halted = FALSE] ELSE v

ExecuteComposite(template, path, w) ==
  LET opened == IF template.type # "subroutine" THEN w.session
                ELSE IF template.data.init = Unset THEN << >>
                ELSE Opened(template.data.init, w.session)
  IN IF template.children = << >>
     THEN IF template.type = "loop" THEN Fail(w) ELSE w
     ELSE SquashTemplate(template, w, opened,
                         Repeat(template, path, 0, [w EXCEPT !.session = opened]))

ExecuteConditional(template, path, w) ==
  IF Holds(template.data.condition, w.session) THEN Execute(template.children[1], path, w)
  ELSE IF Len(template.children) > 1 THEN Execute(template.children[2], path, w)
  ELSE w

Execute(template, path, w) ==
  CASE template.type \in {"sequence", "loop", "subroutine"} ->
         ExecuteComposite(template, path, w)
    [] template.type = "conditional" -> ExecuteConditional(template, path, w)
    [] template.type = "system"      -> Say(w, Message("system", template.data.text, << >>))
    [] template.type = "user"        ->
         IF template.data.text = Unset THEN Fail(w)
         ELSE Say(w, Message("user", template.data.text, << >>))
    [] template.type = "assistant"   -> \* describes no request, unlike a node
         Attempt([template EXCEPT !.data.source = Unset], path, 1, << >>, w)
    [] template.type = "structured"  -> StructuredNode(template, path, w)
    [] template.type = "parallel"    -> ParallelNode(template, path, w)
    [] template.type = "transform"   ->
         [w EXCEPT !.session = Rewrite(template.data.handler, @)]

-----------------------------------------------------------------------------
(* A node.  One that is to be skipped is skipped once.                      *)
Visited(node, path, w) ==
  CASE node.type = "system"     -> Say(w, Message("system", node.data.text, << >>))
    [] node.type = "user"       -> IF node.data.text = Unset THEN ConsumeInbox(w)
                                   ELSE Say(w, Message("user", node.data.text, << >>))
    [] node.type = "inbox"      -> ConsumeInbox(w)
    [] node.type = "awaitInput" -> AwaitInputNode(node, path, w)
    [] node.type = "sleep"      -> SleepNode(path, w)
    [] node.type = "assistant"  -> Attempt(node, path, 1, << >>, w)
    [] node.type = "tools"      -> ToolsNode(node, path, w)
    [] node.type = "structured" -> StructuredNode(node, path, w)
    [] node.type = "parallel"   -> ParallelNode(node, path, w)
    [] node.type = "transform"  -> IF node.data.kind = "goalSatisfaction"
                                   THEN SatisfactionNode(node, w)
                                   ELSE IF node.data.kind = "template"
                                   THEN Execute(node.data.template, path, w)
                                   ELSE [w EXCEPT !.session = Rewrite(node.data.handler, @)]
    [] node.type = "loop"       -> IF node.data.kind = "goalAttempts"
                                   THEN Attempts(node, path, w) ELSE LoopNode(node, path, w)
    [] node.type = "conditional" -> ConditionalNode(node, path, w)
    [] node.type = "scope"      -> ScopeNode(node, path, w)
    [] node.type = "goal"       -> GoalNode(node, path, w)

Enter(node, path, w) ==
  IF path \in w.skip THEN [w EXCEPT !.skip = @ \ {path}]
  ELSE Visited(node, path, Crumb(w, path, node.type, Unset))

(* The whole graph.  When no node reads the inbox, all of it is read before *)
(* the first node that is not a system prompt.  The phases of the agent come *)
(* first and last, in every execution, and either may end it.               *)
Ended(w, phase) ==
  [w EXCEPT !.session = phase.session,
            !.status = IF phase.command \in {"none", "halt"} THEN "done" ELSE "failed"]

AfterAgent(w) == Ended(w, RunPhase("afterAgent", w, w.session, << >>))

AfterNodes(unread, w) ==
  IF ~ On(w) THEN w ELSE AfterAgent(IF unread THEN MaterializeInbox(w) ELSE w)

BeforeAgent(graph, w, before) ==
  LET unread == ~ HasConsumer(graph.nodes)
      Top(v, node) ==
        IF ~ On(v) \/ v.halted THEN v
        ELSE Staged(node, << node.id >>,
                    IF unread /\ node.type # "system" THEN MaterializeInbox(v) ELSE v)
  IN IF before.command # "none" THEN Ended(w, before)
     ELSE AfterNodes(unread,
            FoldLeft(Top, [w EXCEPT !.session = before.session], graph.nodes))

Walk(graph, w) ==
  BeforeAgent(graph, w, RunPhase("beforeAgent", w, w.session, << >>))

Start(graph, session, inbox, answers) ==
  [status |-> "on", session |-> session, inbox |-> inbox, cursor |-> 0,
   skip |-> {}, resume |-> << >>, goal |-> NoGoal, events |-> << >>,
   left |-> answers, leaf |-> NoLeaf, at |-> << >>, tools |-> graph.tools,
   middleware |-> graph.middleware, hooks |-> graph.hooks, memo |-> << >>, halted |-> FALSE,
   durable |-> FALSE, fired |-> {}, armed |-> {}, vain |-> FALSE]
=============================================================================
