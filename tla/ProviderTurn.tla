---------------------------- MODULE ProviderTurn ----------------------------
(***************************************************************************)
(* A Codex or Claude turn of a durable run, over its crashes.              *)
(*                                                                         *)
(* Source: packages/core/src/templates/primitives/codex_turn.ts and        *)
(* claude_turn.ts (executeTurn, executeWithUnresumablePolicy), claude_agent.ts *)
(* (collectClaudeAgentTurnResult), durable.ts (recordProviderSession,      *)
(* resumeAgentRun), conversation.ts (deriveConversationBinding).           *)
(*                                                                         *)
(* The provider keeps the conversation of a node in a thread.  The run     *)
(* stores the thread's id under the node's path as soon as it is known, so *)
(* that an execution after a crash goes on in the same thread; when that   *)
(* fails the turn may be run again from the start, a limited number of     *)
(* times.  The provider is external: it makes threads, forgets them, and   *)
(* answers or fails.  A strict observer, whose failure throws where an     *)
(* event is emitted, is left out.                                          *)
(***************************************************************************)
EXTENDS Naturals, Sequences, FiniteSets

CONSTANTS
  Setups,      \* the circumstances that are explored
  MaxTurns,    \* how often the node is executed
  MaxThreads,  \* how many threads the provider makes
  MaxRetries,  \* how often a middleware repeats a failed call
  MaxFaults    \* how many crashes, failed writes and forgotten threads

(***************************************************************************)
(* A setup.  provider; restart: onUnresumable is 'restart'; max:           *)
(* maxRestarts; thread: the option threadId or sessionId; recording: the   *)
(* run is durable; keep: the turn's message stays in the conversation;     *)
(* fork: a resumed Claude session gets an id of its own.                   *)
(***************************************************************************)
ASSUME ProviderAssumption ==
  /\ Setups \subseteq [provider : {"codex", "claude"}, restart : BOOLEAN, max : Nat,
                       thread : {"new", "auto", "fixed"}, recording : BOOLEAN,
                       keep : BOOLEAN, fork : BOOLEAN]
  /\ MaxTurns \in Nat /\ MaxThreads \in Nat
  /\ MaxRetries \in Nat /\ MaxFaults \in Nat

VARIABLES
  setup,     \* the member of Setups this behaviour is about; never changes
  stored,    \* the binding of the node in the store
  bound,     \* runtime.providerSessions[nodePath]
  session,   \* the threads named by the messages of the stored session
  turn,      \* where executeTurn stands
  threads,   \* the threads of the provider
  turns, retries, faults,
  rerun      \* ghost: how many turns were run again from the start

vars == << setup, stored, bound, session, turn, threads, turns, retries, faults,
           rerun >>

None == [id |-> 0, restarts |-> 0]

NewThread == [alive |-> TRUE, recorded |-> FALSE, received |-> 0]

AtRest == [pc |-> "rest", held |-> None, again |-> FALSE, restarts |-> 0,
           thread |-> 0, open |-> 0]

Busy == {"starting", "recording", "sending", "noting", "running", "failed",
         "restarting", "ended"}

Init ==
  /\ setup \in Setups
  /\ stored = None /\ bound = None /\ session = << >> /\ turn = AtRest
  /\ threads = IF setup.thread = "fixed"
               THEN << [NewThread EXCEPT !.recorded = TRUE] >> ELSE << >>
  /\ turns = 0 /\ retries = 0 /\ faults = 0 /\ rerun = 0

-----------------------------------------------------------------------------
(* The call of the provider, inside the middleware.                         *)

(* deriveConversationBinding: the thread of the last message that has one.  *)
Derived == IF session = << >> THEN 0 ELSE session[Len(session)]

(* resolveThreadId, resolveSessionId                                        *)
Option == CASE setup.thread = "new" -> 0
            [] setup.thread = "auto" -> Derived
            [] setup.thread = "fixed" -> 1

(* The thread the call goes to, 0 for a new one: the binding of the         *)
(* checkpoint if there is one and the turn is not run again.                *)
Resolved(again, binding) ==
  IF binding.id # 0 /\ ~ again THEN binding.id ELSE Option

(* executeProviderCall up to its first wait.  Codex says model.started      *)
(* before anything else, Claude before its query.                           *)
Called(t, binding) ==
  LET id == Resolved(t.again, binding)
      restarts == IF t.again THEN t.restarts ELSE binding.restarts
      first == setup.provider = "codex" \/ id = 0
  IN  [t EXCEPT !.thread = id, !.restarts = restarts,
                !.open = IF first THEN @ + 1 ELSE @,
                !.pc = IF id # 0 THEN "recording"
                       ELSE IF setup.provider = "codex" THEN "starting" ELSE "sending"]

(* executeTurn up to there, after a crash or a failure or for the next      *)
(* input, from a copy of the run that is stored or the one in memory.       *)
Execute ==
  /\ turn.pc = "rest" /\ turns < MaxTurns /\ turns' = turns + 1
  /\ \E from \in IF setup.recording THEN {stored, bound} ELSE {None} :
       /\ bound' = from
       /\ turn' = Called([AtRest EXCEPT !.held = from], from)
  /\ retries' = 0
  /\ UNCHANGED << setup, stored, session, threads, faults, rerun >>

(* thread/start                                                             *)
StartThread ==
  /\ turn.pc = "starting" /\ Len(threads) < MaxThreads
  /\ threads' = Append(threads, NewThread)
  /\ turn' = [turn EXCEPT !.thread = Len(threads) + 1, !.pc = "recording"]
  /\ UNCHANGED << setup, stored, bound, session, turns, retries, faults, rerun >>

Sends(t) ==
  IF setup.provider = "codex" THEN [t EXCEPT !.pc = "sending"]
  ELSE [t EXCEPT !.pc = "sending", !.open = @ + 1]

(* The variant that leaves the binding to be stored with the run's end.     *)
RecordedInMemory(binding) == bound' = binding /\ UNCHANGED << stored, threads >>

(* recordProviderSession: in memory, then in the store.                     *)
Recorded(binding) ==
  IF setup.recording
  THEN /\ bound' = binding /\ stored' = binding
       /\ threads' = [threads EXCEPT ![binding.id].recorded = TRUE]
  ELSE UNCHANGED << bound, stored, threads >>

Record ==
  /\ turn.pc \in {"recording", "noting"}
  /\ Recorded([id |-> turn.thread, restarts |-> turn.restarts])
  /\ turn' = IF turn.pc = "noting" THEN [turn EXCEPT !.pc = "running"] ELSE Sends(turn)
  /\ UNCHANGED << setup, session, turns, retries, faults, rerun >>

Received(t) == [threads EXCEPT ![t].received = @ + 1]

(* turn/start, or the query: a thread that is gone refuses.  The id of a    *)
(* Claude session comes with its first event.                               *)
SendTo(t) ==
  /\ threads[t].alive
  /\ threads' = Received(t)
  /\ turn' = [turn EXCEPT !.pc = IF setup.provider = "codex" THEN "running" ELSE "noting"]

SendToNew ==
  /\ setup.provider = "claude" /\ Len(threads) < MaxThreads
  /\ threads' = Append(threads, [NewThread EXCEPT !.received = 1])
  /\ turn' = [turn EXCEPT !.pc = "noting", !.thread = Len(threads) + 1]

Send ==
  /\ turn.pc = "sending"
  /\ IF turn.thread = 0 THEN SendToNew
     ELSE \/ SendTo(turn.thread)
          \/ setup.fork /\ threads[turn.thread].alive /\ SendToNew
  /\ UNCHANGED << setup, stored, bound, session, turns, retries, faults, rerun >>

(* The provider completes the turn.                                         *)
Answer ==
  /\ turn.pc = "running"
  /\ turn' = [turn EXCEPT !.pc = "ended"]
  /\ UNCHANGED << setup, stored, bound, session, threads, turns, retries, faults,
                  rerun >>

-----------------------------------------------------------------------------
(* Failures.                                                                *)

Failed == [turn EXCEPT !.pc = "failed"]

(* The provider refuses or fails; one that fails may have made the thread.  *)
Refuse ==
  /\ turn.pc \in {"starting", "sending", "running"}
  /\ faults < MaxFaults /\ faults' = faults + 1
  /\ turn' = Failed
  /\ threads' \in {threads} \cup
       IF turn.pc = "starting" /\ Len(threads) < MaxThreads
       THEN {Append(threads, NewThread)} ELSE {}
  /\ UNCHANGED << setup, stored, bound, session, turns, retries, rerun >>

(* The store fails, when the copy in memory has the binding already.        *)
RecordFails ==
  /\ turn.pc \in {"recording", "noting", "restarting"} /\ setup.recording
  /\ faults < MaxFaults /\ faults' = faults + 1
  /\ bound' = IF turn.pc = "restarting"
              THEN [turn.held EXCEPT !.restarts = @ + 1]
              ELSE [id |-> turn.thread, restarts |-> turn.restarts]
  /\ turn' = IF turn.pc = "restarting" THEN AtRest ELSE Failed
  /\ UNCHANGED << setup, stored, session, threads, turns, retries, rerun >>

(* A middleware around the call repeats it.                                 *)
Retry ==
  /\ turn.pc = "failed" /\ retries < MaxRetries /\ retries' = retries + 1
  /\ turn' = Called(turn, bound)
  /\ UNCHANGED << setup, stored, bound, session, threads, turns, faults, rerun >>

(* closeModelEvents: every model.started still open is closed.              *)
Closed(t) == [t EXCEPT !.open = 0]

ClosedOnce(t) == [t EXCEPT !.open = IF @ > 0 THEN @ - 1 ELSE 0]

CloseEvents(t) == Closed(t)

(* The variant of the policy that counts the restarts of this execution.    *)
RestartEveryTime ==
  turn.held.id # 0 /\ ~ turn.again /\ setup.restart /\ setup.max > 0

(* executeWithUnresumablePolicy: a failure on a stored thread is answered   *)
(* by running the turn again while restarts are left; any other ends it.    *)
MayRestart ==
  turn.held.id # 0 /\ ~ turn.again /\ setup.restart /\ turn.held.restarts < setup.max

GiveUp ==
  /\ turn.pc = "failed"
  /\ turn' = [CloseEvents(turn) EXCEPT !.pc = IF MayRestart THEN "restarting" ELSE "rest"]
  /\ UNCHANGED << setup, stored, bound, session, threads, turns, retries, faults,
                  rerun >>

(* The restart is counted in the store before it begins.                    *)
Restart ==
  /\ turn.pc = "restarting"
  /\ LET counted == [turn.held EXCEPT !.restarts = @ + 1] IN
       /\ Recorded(counted)
       /\ turn' = Called([turn EXCEPT !.again = TRUE, !.restarts = counted.restarts],
                         counted)
  /\ rerun' = rerun + 1
  /\ UNCHANGED << setup, session, turns, retries, faults >>

(* The message joins the conversation, and the run is stored.               *)
Complete ==
  /\ turn.pc = "ended"
  /\ turn' = [CloseEvents(turn) EXCEPT !.pc = "rest"]
  /\ session' = IF setup.keep THEN Append(session, turn.thread) ELSE session
  /\ UNCHANGED << setup, stored, bound, threads, turns, retries, faults, rerun >>

(* The process dies; a run that is not durable is gone.                     *)
Crash ==
  /\ turn.pc \in Busy /\ faults < MaxFaults /\ faults' = faults + 1
  /\ turn' = AtRest /\ bound' = stored
  /\ session' = IF setup.recording THEN session ELSE << >>
  /\ UNCHANGED << setup, stored, threads, turns, retries, rerun >>

Forget(t) ==
  /\ faults < MaxFaults /\ faults' = faults + 1
  /\ threads[t].alive /\ threads' = [threads EXCEPT ![t].alive = FALSE]
  /\ UNCHANGED << setup, stored, bound, session, turn, turns, retries, rerun >>

Next ==
  \/ Execute \/ StartThread \/ Record \/ Send \/ Answer
  \/ Refuse \/ RecordFails \/ Retry \/ GiveUp \/ Restart
  \/ Complete \/ Crash
  \/ \E t \in DOMAIN threads : Forget(t)

Spec == Init /\ [][Next]_vars

-----------------------------------------------------------------------------
(* Properties.                                                              *)

Bindings == [id : 0 .. MaxThreads, restarts : Nat]

(* The shape of the state.                                                  *)
TypeOK ==
  /\ setup \in Setups /\ stored \in Bindings /\ bound \in Bindings
  /\ session \in Seq(1 .. MaxThreads)
  /\ turn \in [pc : Busy \cup {"rest"}, held : Bindings, again : BOOLEAN,
               restarts : Nat, thread : 0 .. MaxThreads, open : Nat]
  /\ threads \in Seq([alive : BOOLEAN, recorded : BOOLEAN, received : Nat])
  /\ turns \in 0 .. MaxTurns /\ retries \in 0 .. MaxRetries
  /\ faults \in 0 .. MaxFaults /\ rerun \in Nat

(* Whatever crashes, failing writes and refusals come, the turns of the     *)
(* node run again at most maxRestarts times in the life of the run, and     *)
(* never without the option (executeWithUnresumablePolicy).                 *)
RestartsBounded == rerun <= IF setup.restart THEN setup.max ELSE 0

(* A thread the run does not know of costs a crash or a failure each.  A    *)
(* Codex turn runs only in threads that are stored: what a crash interrupts *)
(* goes on where it was (recordProviderSession right after startThread).    *)
ThreadsKept ==
  setup.recording =>
    LET unknown == {t \in DOMAIN threads : ~ threads[t].recorded} IN
      /\ Cardinality(unknown)
           <= faults + (IF turn.pc \in {"recording", "noting"} THEN 1 ELSE 0)
      /\ setup.provider = "codex" => \A t \in unknown : threads[t].received = 0

(* An execution that ended, well or not, has closed every model.started it  *)
(* emitted, over middleware that repeats calls and over restarts            *)
(* (closeModelEvents).                                                      *)
EventsBalanced == turn.pc \in {"rest", "restarting"} => turn.open = 0
=============================================================================
