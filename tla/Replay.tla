-------------------------------- MODULE Replay -------------------------------
(***************************************************************************)
(* A durable run is recorded while it executes, and replayed later: every  *)
(* model and tool call of the replay is answered from the cassette built   *)
(* out of the recording, whatever agent is replayed                        *)
(* (packages/core/src/recording.ts, replay.ts, the funnels that consult    *)
(* them, templates/primitives/model_runtime.ts and tool.ts, and the        *)
(* attempts of a checkpoint run, durable.ts and checkpoint_continuation.ts). *)
(*                                                                         *)
(* What an agent does is the walk of its graph (GraphWalk): a function of  *)
(* the session and inbox it starts with and of the answers it was given.   *)
(* A digest is the value it is taken of.  Time and streaming are left out. *)
(***************************************************************************)
EXTENDS GraphWalk

CONSTANTS
  Programs,   \* the agents
  Recorded,   \* those that are run and recorded
  Graph(_),   \* what an agent compiles to
  AppMiddleware, \* what the app puts around every agent it runs
  Answers(_), \* what a provider or a tool may answer a leaf with
  Inputs,     \* what users may send
  MaxInputs(_), \* how many inputs a run of an agent is sent
  MaxAttempts, \* how often it is executed
  Lag,        \* how many records wait at most when a call returns
  Faults,     \* how many failures there may be
  Replays(_)  \* how a recorded agent is replayed: candidate, keying, miss

ASSUME ReplayAssumption ==
  /\ MaxAttempts \in Nat /\ Lag \in Nat /\ Faults \in Nat
  /\ Recorded \subseteq Programs
  /\ \A p \in Programs :
       /\ MaxInputs(p) \in Nat
       /\ ValidNodes(Graph(p).nodes)
       /\ ValidHandlers(Graph(p).middleware) /\ ValidHandlers(Graph(p).hooks)

Levels == {"request-hash", "node-path", "positional"}

ReplayType == [candidate: Programs, keying: Seq(Levels),
               miss: {"error", "flag", "live"}]

VARIABLES
  recorded,  \* the agent of the run, whose manifest is stored with it
  deployed,  \* what the program of that name is now
  setup,     \* how it is replayed, once it is
  phase,     \* "live", "replay", "done" or "failed"
  inbox,     \* what the run was sent
  point,     \* its checkpoint: session, cursor, node suspended at, status
  fired,     \* the timers that went off
  armed,     \* the timers it has set
  memo,      \* the effects of middleware that were done once
  answers,   \* the answers of the current execution
  walk,      \* that execution; Idle when there is none
  pending,   \* records handed to the recorder and not yet appended
  recording, \* the stored record stream
  faithful,  \* nothing happened to the run that its recording does not show
  attempts,  \* how often it was executed
  paused,    \* an attempt of it was suspended
  vain,      \* a node of it looked for an input when there was none
  faults,    \* failures left
  consumed,  \* the records the replay has used
  served,    \* what it made of each call: the record used, or 0
  misses     \* how many calls it noted as missed

vars == <<recorded, deployed, setup, phase, inbox, point, fired, armed, memo, answers, walk, pending,
          recording, faithful, attempts, paused, vain, faults, consumed,
          served, misses>>

run     == <<inbox, point, fired, armed, memo>>
playing == <<consumed, served, misses>>

\* The answer that stands in for a miss.
Sentinel == [ok |-> TRUE, text |-> "[replay-miss]", calls |-> << >>]

Idle == [Start(ToGraph(Agent(<< >>, {})), << >>, << >>, << >>) EXCEPT !.status = "idle"]

Asking == walk.status = "ask"

Signature(r) == [kind |-> r.kind, node |-> r.node, digest |-> r.digest]

Signatures(records) == [i \in DOMAIN records |-> Signature(records[i])]

Calls(records) == SelectSeq(records, LAMBDA r : r.kind # "node")

Blue == Graph(deployed)

\* Nothing says yet how the run is going to be replayed.
Unplanned(agent) == [candidate |-> agent, keying |-> << >>, miss |-> "error"]

-----------------------------------------------------------------------------
(* The recorded run                                                         *)

Init ==
  /\ recorded \in Recorded /\ deployed = recorded /\ setup = Unplanned(recorded)
  /\ phase = "live" /\ inbox = << >> /\ fired = {} /\ armed = {} /\ memo = << >>
  /\ point = [session |-> << >>, cursor |-> 0, at |-> << >>,
              continuation |-> FALSE, status |-> "open"]
  /\ answers = << >> /\ walk = Idle
  /\ pending = << >> /\ recording = << >>
  /\ faithful = TRUE /\ attempts = 0 /\ paused = FALSE /\ vain = FALSE
  /\ faults \in 0 .. Faults
  /\ consumed = {} /\ served = << >> /\ misses = 0

Resting == phase = "live" /\ walk = Idle /\ pending = << >>

\* An execution starts at the checkpoint, with what the inbox holds behind its
\* cursor and the middleware of the app behind that of the agent.  A continued
\* one skips, once, what comes before its entry.
Attempted(given) ==
  Walk(Blue,
       [Start(Use(Blue, AppMiddleware), point.session, SubSeq(inbox, point.cursor + 1, Len(inbox)), given)
          EXCEPT !.durable = TRUE, !.fired = fired, !.memo = memo, !.resume = point.at,
                 !.skip = IF point.continuation THEN SkipNodes(Blue.nodes, point.at) ELSE {}])

\* A step of an execution hands what it recorded to the recorder.
Advance(given) ==
  /\ answers' = given /\ walk' = Attempted(given)
  /\ pending' = pending \o SubSeq(walk'.events, Len(walk.events) + 1, Len(walk'.events))

\* An input for a run that is done opens it again, when the graph reads inputs.
\* The recording does not show what had been sent when.
Send(input) ==
  /\ Resting /\ Len(inbox) < MaxInputs(recorded)
  /\ point.status = "open" \/ HasConsumer(Blue.nodes)
  /\ inbox' = Append(inbox, input)
  /\ point' = [point EXCEPT !.status = "open"]
  /\ faithful' = (faithful /\ point.status = "open" /\ ~ vain)
  /\ UNCHANGED <<recorded, deployed, vain, attempts, setup, phase, fired, armed,
                 memo, answers, walk, pending, recording, paused, faults,
                 playing>>

\* The process comes back with a changed agent of that name.
Redeploy ==
  /\ Resting /\ attempts > 0 /\ point.status = "open"
  /\ faults > 0 /\ faults' = faults - 1
  /\ deployed' \in { how.candidate : how \in Replays(recorded) } \ {deployed}
  /\ UNCHANGED <<recorded, vain, attempts, setup, phase, run, answers, walk,
                 pending, recording, faithful, paused, playing>>

\* The run is executed when there is something new for it, or once more; but
\* not by an agent whose manifest differs from the one stored with it.
Begin ==
  /\ Resting /\ point.status = "open"
  /\ Manifest(Graph(deployed)) = Manifest(Graph(recorded))
  /\ LET news == point.cursor < Len(inbox) \/ ~ point.continuation \/ point.at \in fired
     IN faults' = IF news THEN faults ELSE faults - 1
  /\ faults' >= 0
  /\ attempts < MaxAttempts /\ attempts' = attempts + 1
  /\ Advance(<< >>)
  /\ UNCHANGED <<recorded, deployed, vain, setup, phase, run, recording,
                 faithful, paused, playing>>

\* A provider or a tool returns.
Answered(a) ==
  /\ phase = "live" /\ Asking /\ a \in Answers(walk.leaf) /\ Len(pending) <= Lag
  /\ Advance(Append(answers, a))
  /\ UNCHANGED <<recorded, deployed, vain, attempts, setup, phase, run,
                 recording, faithful, paused, faults, playing>>

\* A call throws, or a tool is denied, and leaves no record.  An assistant that
\* makes the same call again hides it.
Throws ==
  /\ phase = "live" /\ Asking /\ Len(pending) <= Lag
  /\ faults > 0 /\ faults' = faults - 1
  /\ Advance(Append(answers, Raised))
  /\ faithful' = (faithful /\ walk'.leaf = walk.leaf /\ walk.leaf.ask # Unset)
  /\ UNCHANGED <<recorded, deployed, vain, attempts, setup, phase, run,
                 recording, paused, playing>>

\* Appends are written one after the other, in the order of their seq.
AppendRecord ==
  /\ pending # << >>
  /\ recording' = Append(recording, Head(pending)) /\ pending' = Tail(pending)
  /\ UNCHANGED <<recorded, deployed, vain, attempts, setup, phase, run, answers,
                 walk, faithful, paused, faults, playing>>

\* An append that fails is dropped with a warning, and the chain goes on.
AppendFails ==
  /\ pending # << >> /\ faults > 0 /\ faults' = faults - 1
  /\ pending' = Tail(pending) /\ faithful' = FALSE
  /\ UNCHANGED <<recorded, deployed, vain, attempts, setup, phase, run, answers,
                 walk, recording, paused, playing>>

\* The process dies: what was not appended is lost, and the next execution
\* starts from the checkpoint with a recorder that goes on after the last record.
\* An effect that was done once is stored as soon as it is done.
Crash ==
  /\ phase = "live" /\ walk # Idle
  /\ faults > 0 /\ faults' = faults - 1
  /\ memo' = walk.memo
  /\ answers' = << >> /\ walk' = Idle /\ pending' = << >>
  /\ faithful' = FALSE
  /\ UNCHANGED <<recorded, deployed, vain, attempts, setup, phase, inbox, point,
                 fired, armed, recording, paused, playing>>

Rest == answers' = << >> /\ walk' = Idle /\ memo' = walk.memo

\* The execution ends: the checkpoint moves to where it got, or stays.
Complete ==
  /\ phase = "live" /\ walk.status = "done"
  /\ point' = [session |-> walk.session, cursor |-> point.cursor + walk.cursor,
               at |-> << >>, continuation |-> TRUE, status |-> "done"]
  /\ Rest
  /\ UNCHANGED <<recorded, deployed, vain, attempts, setup, phase, inbox, fired,
                 armed, pending, recording, faithful, paused, faults, playing>>

Pause ==
  /\ phase = "live" /\ walk.status = "suspended"
  /\ point' = [session |-> walk.session, cursor |-> point.cursor + walk.cursor,
               at |-> walk.at, continuation |-> TRUE, status |-> "open"]
  /\ armed' = armed \cup walk.armed
  /\ paused' = TRUE /\ vain' = (vain \/ walk.vain)
  /\ Rest
  /\ UNCHANGED <<recorded, deployed, attempts, setup, phase, inbox, fired,
                 pending, recording, faithful, faults, playing>>

RollBack ==
  /\ phase = "live" /\ walk.status = "failed"
  /\ armed' = armed \cup walk.armed
  /\ faithful' = FALSE
  /\ Rest
  /\ UNCHANGED <<recorded, deployed, vain, attempts, setup, phase, inbox, point,
                 fired, pending, recording, paused, faults, playing>>

\* The sweep marks a timer of the run as fired.
Fire ==
  /\ Resting /\ armed \ fired # {}
  /\ fired' = armed
  /\ UNCHANGED <<recorded, deployed, vain, attempts, setup, phase, inbox, point,
                 armed, memo, answers, walk, pending, recording, faithful,
                 paused, faults, playing>>

-----------------------------------------------------------------------------
(* The replay                                                               *)

\* The whole inbox is given to one execution, from the initial session, of the
\* agent alone: neither the middleware of the app nor its memory is there.
Played(green, given) == Walk(green, Start(green, << >>, inbox, given))

StartReplay(how) ==
  /\ Resting /\ recording # << >>
  /\ setup' = how /\ phase' = "replay"
  /\ walk' = Played(Graph(how.candidate), << >>)
  /\ UNCHANGED <<recorded, deployed, vain, attempts, run, answers, pending,
                 recording, faithful, paused, faults, playing>>

\* The records of the cassette a leaf may draw from.
Unconsumed(leaf) == { i \in DOMAIN recording : recording[i].kind = leaf.kind } \ consumed

Matching(level, leaf) ==
  { i \in Unconsumed(leaf) :
      CASE level = "request-hash" -> recording[i].digest = Digest(leaf)
        [] level = "node-path"    -> recording[i].node = leaf.node
        [] OTHER                  -> TRUE }

\* The keying levels that have a match, in the configured order.
Hits(leaf) == SelectSeq(setup.keying, LAMBDA level : Matching(level, leaf) # {})

\* The latest matching record.
Latest(level, leaf) == Max(Matching(level, leaf))

\* The earliest unconsumed record in seq order.
Pick(level, leaf) == Min(Matching(level, leaf))

Consume(i) == consumed' = consumed \cup {i}

Given(a, i) ==
  /\ answers' = Append(answers, a)
  /\ walk' = Played(Graph(setup.candidate), answers')
  /\ served' = Append(served, [call |-> Signature(LeafRecord(walk.leaf, a)), index |-> i])
  /\ UNCHANGED <<recorded, deployed, vain, attempts, setup, phase, run, pending,
                 recording, faithful, paused, faults>>

Serve ==
  /\ phase = "replay" /\ Asking /\ Hits(walk.leaf) # << >>
  /\ LET i == Pick(Head(Hits(walk.leaf)), walk.leaf)
     IN Consume(i) /\ Given(recording[i].answer, i)
  /\ UNCHANGED misses

Unserved == phase = "replay" /\ Asking /\ Hits(walk.leaf) = << >>

\* A strict replay throws.  What asked takes it as it takes any error: an
\* assistant tries again, a parallel node goes on, and a tool gives an error
\* result; neither a miss nor a record is left.
Strict ==
  /\ Unserved /\ setup.miss = "error"
  /\ Given(Raised, 0)
  /\ UNCHANGED <<consumed, misses>>

\* A flagged miss is answered by the sentinel; so is a tool in an acceptance run.
Flag ==
  /\ Unserved
  /\ setup.miss = "flag" \/ (setup.miss = "live" /\ walk.leaf.kind = "tool")
  /\ misses' = misses + 1
  /\ Given(Sentinel, 0)
  /\ UNCHANGED consumed

\* Only in an acceptance run, a model call falls through to the real provider.
GoLive(a) ==
  /\ Unserved /\ setup.miss = "live" /\ walk.leaf.kind = "model"
  /\ a \in Answers(walk.leaf)
  /\ misses' = misses + 1
  /\ Given(a, 0)
  /\ UNCHANGED consumed

\* The replay of a graph that suspends or fails throws.
EndReplay ==
  /\ phase = "replay" /\ ~ Asking
  /\ phase' = IF walk.status = "done" THEN "done" ELSE "failed"
  /\ UNCHANGED <<recorded, deployed, vain, attempts, setup, run, answers, walk,
                 pending, recording, faithful, paused, faults, playing>>

-----------------------------------------------------------------------------

Live == \/ \E input \in Inputs : Send(input)
        \/ Begin
        \/ (Asking /\ \E a \in Answers(walk.leaf) : Answered(a))
        \/ Throws \/ AppendRecord \/ AppendFails \/ Crash
        \/ Redeploy \/ Complete \/ Pause \/ RollBack \/ Fire \/ \E how \in Replays(recorded) : StartReplay(how)

Play == \/ Serve \/ Strict \/ Flag
        \/ (Asking /\ \E a \in Answers(walk.leaf) : GoLive(a))
        \/ EndReplay

Next == Live \/ Play

Spec == Init /\ [][Next]_vars

-----------------------------------------------------------------------------

\* The shape of the state.
TypeOK ==
  /\ {recorded, deployed} \subseteq Programs /\ setup \in ReplayType
  /\ phase \in {"live", "replay", "done", "failed"}
  /\ point.status \in {"open", "done"} /\ point.cursor \in 0 .. Len(inbox)
  /\ fired \subseteq armed
  /\ consumed \subseteq DOMAIN recording
  /\ misses \in Nat /\ faults \in Nat

\* Replaying a completed run with the agent that was recorded reproduces it: no
\* miss, the same session, the same calls with the same digests in the same
\* order, and, for a run that was never suspended, the same record stream, in
\* whatever order the keying levels are tried.  A run that lost a record, did
\* something twice, failed, was refused a tool or was reopened is not claimed
\* for, nor one that left the memory of an effect.
SelfCheck ==
  (/\ phase \in {"done", "failed"} /\ point.status = "done" /\ faithful
   /\ memo = << >> /\ setup.candidate = recorded) =>
     /\ phase = "done" /\ misses = 0 /\ walk.session = point.session
     /\ Signatures(Calls(walk.events)) = Signatures(Calls(recording))
     /\ paused \/ Signatures(walk.events) = Signatures(recording)

\* A record answers one call, and as long as a replay makes the calls of the
\* recording each is answered by the very record it left, whatever was lost
\* from the recording or done twice in it.
SameSoFar(k) ==
  LET calls == Signatures(Calls(recording))
  IN k <= Len(calls) /\ \A j \in 1 .. k : served[j].call = calls[j]

ServedOnce ==
  /\ Cardinality(consumed) = Len(SelectSeq(served, LAMBDA s : s.index # 0))
  /\ \A k \in DOMAIN served :
       SameSoFar(k) =>
         served[k].index # 0 /\ Calls(SubSeq(recording, 1, served[k].index)) =
                                SubSeq(Calls(recording), 1, k)
=============================================================================
