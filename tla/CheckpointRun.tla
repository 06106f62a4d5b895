--------------------------- MODULE CheckpointRun ---------------------------
(***************************************************************************)
(* One durable (checkpoint) run of a PromptTrail app: the inbox inputs are *)
(* appended to, the executions of its agent graph, the checkpoints they    *)
(* leave in the run store, and what a failed write, a failing model or the *)
(* death of the process does to them.                                      *)
(*                                                                         *)
(* Source: packages/core/src/durable.ts (PromptTrailApp: send, resume,     *)
(* append, resumeAgentRun, persistRun, fireTimer, armTimer, recovery),     *)
(* checkpoint_continuation.ts (begin, skip, suspension, completion,        *)
(* rollback, once) and graph_executor.ts (the nodes).                      *)
(*                                                                         *)
(* Every operation on a run holds the run's lock (KeyedMutex), so at most  *)
(* one operation on this run is in progress: pc is its next step.  Each    *)
(* step that ends in a write of the store is one action that succeeds and  *)
(* one that fails; a crash may come between any two steps.                 *)
(***************************************************************************)
EXTENDS Integers, Sequences, SequencesExt

CONSTANTS
  Setups,         \* the graphs, and the kind of store, that are explored
  MaxInputs,      \* how many inputs are sent
  MaxReplies,     \* how many messages one assistant turn may add
  MaxCrashes,     \* how often the process may die
  MaxFailures,    \* how many writes of the store may fail
  MaxErrors,      \* how many model calls may fail
  AutoRecover     \* recovery: { intervalMs } is configured

Kinds == {"system", "await", "inbox", "assistant", "effect", "sleep"}

(***************************************************************************)
(* A setup is a graph (the kinds of its nodes, in order; the nodes from    *)
(* loopStart on are the children of a loop, which loopStart beyond the     *)
(* last node leaves out; canExit says that the loop's condition may turn   *)
(* false; maxIterations is its limit, 10 in the code unless the loop sets   *)
(* another), and the kind of store: cached is SqliteRunStore, which keeps the *)
(* live run objects and returns the same one from every get; the other     *)
(* stores read a fresh copy from the database.                             *)
(***************************************************************************)
ASSUME SetupsAssumption ==
  \A s \in Setups : /\ s.nodes \in Seq(Kinds)
                    /\ s.nodes # << >>
                    /\ s.loopStart \in 1 .. Len(s.nodes) + 1
                    /\ s.canExit \in BOOLEAN
                    /\ s.maxIterations \in Nat
                    /\ s.cached \in BOOLEAN

ASSUME BoundsAssumption ==
  /\ MaxInputs \in Nat /\ MaxReplies \in Nat
  /\ MaxCrashes \in Nat /\ MaxFailures \in Nat /\ MaxErrors \in Nat
  /\ AutoRecover \in BOOLEAN

VARIABLES
  setup,     \* the graph and store of this behaviour; never changes
  db,        \* the run as the store holds it
  run,       \* the run object in memory (StoredRun)
  baseline,  \* persistedSessions: what the last delta left in the store
  up,        \* the process is alive
  pc,        \* the next step of the operation in progress, or "idle"
  after,     \* what follows the persistRun in progress
  attempt,   \* the state of the graph execution in progress
  sent,      \* the number of the last input sent
  crashes, failures, errors,  \* how often each fault has happened
  calls,     \* how often the keyed effect of each input was executed
  wake,      \* timerSweepHandle, the one wake of the timer sweep
  sweeping,  \* timerSweepInFlight
  due        \* the timers the sweep in flight has still to fire

sweepVars == << wake, sweeping, due >>

vars == << setup, db, run, baseline, up, pc, after, attempt, sent,
           crashes, failures, errors, calls, sweepVars >>

faults == << crashes, failures, errors >>

-----------------------------------------------------------------------------
(* Sessions.  A message is the number of the input it delivers, or Other    *)
(* for a system or assistant message.                                       *)

Other == 0

EmptySession == [version |-> 0, messages |-> << >>]

Say(s, ms) == [version  |-> s.version + Len(ms),
               messages |-> s.messages \o ms]

IsInput(m) == m # Other

(* The inputs a session has delivered, in order.                            *)
Delivered(s) ==
  LET upTo[i \in 0 .. Len(s.messages)] ==
        IF i = 0 THEN << >>
        ELSE IF IsInput(s.messages[i]) THEN Append(upTo[i - 1], s.messages[i])
        ELSE upTo[i - 1]
  IN  upTo[Len(s.messages)]

LastInput(s) == IF Delivered(s) = << >> THEN Other ELSE Last(Delivered(s))

(* A StoredRun.  continued: a result was recorded, so session stands for    *)
(* run.result; otherwise it stands for run.initial.                         *)
NewRun(status, timers) ==
  [status |-> status, session |-> EmptySession, continued |-> FALSE,
   cursor |-> 0, at |-> 0, inbox |-> << >>, timers |-> timers, once |-> {}]

NoTimers(s) == [n \in DOMAIN s.nodes |-> "none"]

Exists(r) == r.status # "absent"

Unconsumed(r) == Len(r.inbox) > r.cursor

OrphanUnlessSuspended(r) == r.status = "open" /\ Unconsumed(r) /\ r.at = 0

(* isOrphanRun *)
Orphan(r) == r.status = "open" /\ Unconsumed(r)

NoBaseline == [version |-> -1, count |-> 0]

BaselineOf(s) == [version |-> s.version, count |-> Len(s.messages)]

(* store.get *)
Loaded == IF setup.cached THEN run ELSE db

-----------------------------------------------------------------------------
(* The graph.                                                               *)

Size == Len(setup.nodes)

Kind(n) == setup.nodes[n]

Consumers == {n \in DOMAIN setup.nodes : Kind(n) \in {"await", "inbox"}}

HasConsumer == Consumers # {}

First(S) == CHOOSE n \in S : \A m \in S : n <= m

(* computeCheckpointContinuationSkipNodes: all leaves before the node the   *)
(* run is suspended at or, if it is at none, before the first consumer.     *)
SkipNodes(r) ==
  IF ~ r.continued THEN {}
  ELSE LET stop == IF r.at # 0 THEN r.at
                   ELSE IF HasConsumer THEN First(Consumers) ELSE Size + 1
       IN  1 .. stop - 1

(* Where the execution stands when it comes to node n.                      *)
Coming(n) == IF n > Size THEN "end"
             ELSE IF n = setup.loopStart THEN "loop" ELSE "node"

Following(n) == IF n = Size /\ setup.loopStart <= Size
                THEN setup.loopStart ELSE n + 1

NoAttempt == [entry |-> NewRun("absent", << >>), pos |-> 1, iterations |-> 0,
              resumeFrom |-> 0, skip |-> {}, consumed |-> 0,
              session |-> EmptySession]

(* beginCheckpointGraphExecution *)
Begin(r) == [entry |-> r, pos |-> 1, iterations |-> 0, resumeFrom |-> r.at,
             skip |-> SkipNodes(r), consumed |-> 0, session |-> r.session]

(* The rest of the slice of the inbox that was handed to the attempt.       *)
Rest(a) == SubSeq(a.entry.inbox, a.entry.cursor + a.consumed + 1,
                  Len(a.entry.inbox))

Ids(entries) == [i \in DOMAIN entries |-> entries[i].id]

ConsumeUncounted(a, count) ==
  [a EXCEPT !.session = Say(@, Ids(SubSeq(Rest(a), 1, count)))]

(* consumeInbox, for the next count inputs of the slice.                    *)
Consume(a, count) ==
  [a EXCEPT !.consumed = @ + count,
            !.session  = Say(@, Ids(SubSeq(Rest(a), 1, count)))]

-----------------------------------------------------------------------------
(* Writes of the store.  A write that fails leaves the database as it was   *)
(* or, when the store is remote, may have been applied all the same.        *)

Saved(new) == db' = new /\ UNCHANGED failures

Unsaved(new) ==
  /\ failures < MaxFailures
  /\ failures' = failures + 1
  /\ db' \in IF setup.cached THEN {db} ELSE {db, new}

(* store.appendInbox: an entry with an offset already stored is ignored.    *)
WithEntry(r, e) ==
  IF \E i \in DOMAIN r.inbox : r.inbox[i].offset = e.offset
  THEN r ELSE [r EXCEPT !.inbox = Append(@, e)]

DeltaOfAnyVersion(r, s, b) ==
  [r EXCEPT !.session = [version  |-> s.version,
                         messages |-> @.messages \o
                           SubSeq(s.messages, b.count + 1, Len(s.messages))],
            !.continued = TRUE]

DeltaPastBaseline(r, s, b) ==
  IF r.session.version >= s.version THEN r
  ELSE [r EXCEPT !.session = [version  |-> s.version,
                              messages |-> @.messages \o
                                SubSeq(s.messages, b.count + 2, Len(s.messages))],
                 !.continued = TRUE]

(* store.appendSessionDelta, as reconstructStoredRun folds it: what session *)
(* s holds beyond the baseline b, unless the stored session is as recent.   *)
WithDelta(r, s, b) ==
  IF r.session.version >= s.version THEN r
  ELSE [r EXCEPT !.session = [version  |-> s.version,
                              messages |-> @.messages \o
                                SubSeq(s.messages, b.count + 1, Len(s.messages))],
                 !.continued = TRUE]

(* store.patch, with the fields persistRun writes.                          *)
WithPatch(r, q) ==
  [r EXCEPT !.status = q.status, !.cursor = q.cursor, !.at = q.at]

(* store.upsertTimer                                                        *)
WithTimer(r, n, state) == [r EXCEPT !.timers[n] = state]

Pending(r) == {n \in DOMAIN r.timers : r.timers[n] = "pending"}

WakeNever(r) == "off"

(* rearmTimerSweep arms one wake, at the earliest pending timer.  A wake    *)
(* that a failed write or read kept it from arming is "lost"; "boot" is the *)
(* sweep of start.                                                          *)
WakeFor(r) == IF Pending(r) = {} THEN "off" ELSE "armed"

(* store.entries fails, which only a read of the database can.              *)
ReadFails ==
  /\ ~ setup.cached
  /\ failures < MaxFailures
  /\ failures' = failures + 1

MemoLost(r, key) == r

(* store.recordOnce                                                         *)
WithMemo(r, key) == [r EXCEPT !.once = @ \cup {key}]

(* restoreCheckpointGraphEntryPoint: status is not among the fields.        *)
RolledBack(r, entry) ==
  [r EXCEPT !.cursor = entry.cursor, !.at = entry.at,
            !.session = entry.session, !.continued = entry.continued]

-----------------------------------------------------------------------------
Init ==
  /\ setup \in Setups
  /\ db = NewRun("absent", NoTimers(setup))
  /\ run = db
  /\ baseline = NoBaseline
  /\ up = TRUE
  /\ pc = "idle" /\ after = "none" /\ attempt = NoAttempt
  /\ sent = 0
  /\ crashes = 0 /\ failures = 0 /\ errors = 0
  /\ calls = [i \in 0 .. MaxInputs |-> 0]
  /\ wake = "off" /\ sweeping = FALSE /\ due = {}

Ready == up /\ pc = "idle"

EndOperation == pc' = "idle" /\ after' = "none" /\ attempt' = NoAttempt

-----------------------------------------------------------------------------
(* The operations.                                                          *)

(* sendImpl (and startRun, when the run does not exist yet): a completed    *)
(* run whose graph takes no input rejects the input.                        *)
Send ==
  /\ Ready /\ sent < MaxInputs
  /\ Loaded.status = "done" => HasConsumer
  /\ sent' = sent + 1
  /\ run' = Loaded
  /\ pc' = IF Exists(Loaded) THEN "append" ELSE "create"
  /\ UNCHANGED << setup, db, baseline, up, after, attempt, faults, calls,
                  sweepVars >>

(* startRun: store.create and setPersistedSessionBaseline.                  *)
Create ==
  /\ pc = "create"
  /\ LET new == NewRun("open", NoTimers(setup)) IN
       \/ /\ Saved(new)
          /\ run' = new
          /\ baseline' = BaselineOf(new.session)
          /\ pc' = "append"
       \/ /\ Unsaved(new)
          /\ pc' = "idle"
          /\ UNCHANGED << run, baseline >>
  /\ UNCHANGED << setup, up, after, attempt, sent, crashes, errors, calls,
                  sweepVars >>

(* append: the entry is pushed on the run in memory before it is written.   *)
(* A run that was done is open again in memory, and then in the store.      *)
AppendInput ==
  /\ pc = "append"
  /\ LET entry  == [offset |-> Len(run.inbox), id |-> sent]
         pushed == [run EXCEPT !.inbox = Append(@, entry)]
     IN  \/ /\ Saved(WithEntry(db, entry))
            /\ run' = [pushed EXCEPT !.status = "open"]
            /\ pc' = IF run.status = "done" THEN "reopen" ELSE "resume"
         \/ /\ Unsaved(WithEntry(db, entry))
            /\ run' = pushed
            /\ pc' = "idle"
  /\ UNCHANGED << setup, baseline, up, after, attempt, sent, crashes, errors,
                  calls, sweepVars >>

Reopen ==
  /\ pc = "reopen"
  /\ LET new == [db EXCEPT !.status = "open"] IN
       \/ Saved(new) /\ pc' = "resume"
       \/ Unsaved(new) /\ pc' = "idle"
  /\ UNCHANGED << setup, run, baseline, up, after, attempt, sent, crashes,
                  errors, calls, sweepVars >>

(* resume, called by the application.                                       *)
Resume ==
  /\ Ready /\ Exists(Loaded)
  /\ run' = Loaded
  /\ pc' = "resume"
  /\ UNCHANGED << setup, db, baseline, up, after, attempt, sent, faults,
                  calls, sweepVars >>

(* recoverOrphans and resumeOrphan: the periodic scan of a live process     *)
(* resumes a run that has inputs left and is not done.                      *)
ResumeOrphan ==
  /\ AutoRecover
  /\ Ready /\ Orphan(Loaded)
  /\ run' = Loaded
  /\ pc' = "resume"
  /\ UNCHANGED << setup, db, baseline, up, after, attempt, sent, faults,
                  calls, sweepVars >>

(* runTimerSweep, when its wake goes off (or at the start of the app, where *)
(* nothing need be due yet): it lists the timers that are due.  A wake in   *)
(* the middle of a sweep is skipped, for the sweep arms the next one at its *)
(* end; a list that could not be read is taken as an empty one.             *)
WakeUp ==
  /\ up /\ wake \in {"boot", "armed"}
  /\ wake' = "off"
  /\ \/ sweeping /\ UNCHANGED << sweeping, due, failures >>
     \/ /\ ~ sweeping /\ sweeping' = TRUE
        /\ \/ /\ due' \in SUBSET Pending(Loaded)
              /\ wake = "armed" /\ Pending(Loaded) # {} => due' # {}
              /\ UNCHANGED failures
           \/ ReadFails /\ due' = {}
  /\ UNCHANGED << setup, db, run, baseline, up, pc, after, attempt, sent,
                  crashes, errors, calls >>

(* The sweep fires timer n: fireTimer marks it in memory, writes the mark   *)
(* with store.upsertTimer and goes on to resumeImpl.                        *)
FireTimer(n) ==
  /\ sweeping /\ n \in due
  /\ due' = due \ {n} /\ UNCHANGED << wake, sweeping >>
  /\ Ready /\ Loaded.timers[n] = "pending"
  /\ run' = WithTimer(Loaded, n, "fired")
  /\ \/ Saved(WithTimer(db, n, "fired")) /\ pc' = "resume"
     \/ Unsaved(WithTimer(db, n, "fired")) /\ pc' = "idle"
  /\ UNCHANGED << setup, baseline, up, after, attempt, sent, crashes, errors,
                  calls >>

(* The end of the sweep, after the operation of the last timer it fired:    *)
(* rearmTimerSweep.                                                         *)
EndSweep ==
  /\ Ready /\ sweeping /\ due = {}
  /\ sweeping' = FALSE
  /\ \/ wake' = WakeFor(Loaded) /\ UNCHANGED failures
     \/ ReadFails /\ wake' = "lost"
  /\ UNCHANGED << setup, db, run, baseline, up, pc, after, attempt, sent,
                  crashes, errors, calls, due >>

(* resumeImpl: a completed run with nothing left in its inbox returns its   *)
(* result; any other run is executed (resumeAgentRun), which starts with    *)
(* the persistRun of the observer of run.started.                           *)
ResumeRun ==
  /\ pc = "resume"
  /\ run' = Loaded
  /\ IF Loaded.status = "done" /\ Loaded.continued /\ ~ Unconsumed(Loaded)
     THEN EndOperation
     ELSE /\ attempt' = Begin(Loaded)
          /\ pc' = "delta" /\ after' = "execute"
  /\ UNCHANGED << setup, db, baseline, up, sent, faults, calls, sweepVars >>

-----------------------------------------------------------------------------
(* persistRun, in its two writes, and what follows it: the execution, the   *)
(* end of the operation, or, for a completion that could not be written,    *)
(* the rollback of the attempt.  The observer bus swallows a failure to     *)
(* persist on run.started.                                                  *)

Persisted ==
  IF after = "execute"
  THEN pc' = Coming(attempt.pos) /\ UNCHANGED << after, attempt >>
  ELSE EndOperation

NotPersisted ==
  CASE after = "execute" -> /\ pc' = Coming(attempt.pos)
                            /\ UNCHANGED << after, attempt, run >>
    [] after = "done"    -> /\ run' = RolledBack(run, attempt.entry)
                            /\ pc' = "delta" /\ after' = "rollback"
                            /\ UNCHANGED attempt
    [] OTHER             -> EndOperation /\ UNCHANGED run

(* computeSessionCheckpointDelta and store.appendSessionDelta.              *)
PersistDelta ==
  /\ pc = "delta"
  /\ LET base == IF baseline = NoBaseline THEN BaselineOf(run.session)
                 ELSE baseline
         new  == WithDelta(db, run.session, base)
     IN  IF run.session.version = base.version
         THEN /\ baseline' = base
              /\ pc' = "patch"
              /\ UNCHANGED << db, run, after, attempt, failures >>
         ELSE \/ /\ Saved(new)
                 /\ baseline' = BaselineOf(run.session)
                 /\ pc' = "patch"
                 /\ UNCHANGED << run, after, attempt >>
              \/ /\ Unsaved(new)
                 /\ baseline' = base
                 /\ NotPersisted
  /\ UNCHANGED << setup, up, sent, crashes, errors, calls, sweepVars >>

PersistPatch ==
  /\ pc = "patch"
  /\ \/ Saved(WithPatch(db, run)) /\ Persisted /\ UNCHANGED run
     \/ Unsaved(WithPatch(db, run)) /\ NotPersisted
  /\ UNCHANGED << setup, baseline, up, sent, crashes, errors, calls,
                  sweepVars >>

-----------------------------------------------------------------------------
(* The execution of the graph.                                              *)

GoTo(a, n) == attempt' = [a EXCEPT !.pos = n] /\ pc' = Coming(n)

GoOn(a) == GoTo(a, Following(a.pos))

(* recordCheckpointGraphSuspension *)
Suspend(r) ==
  /\ run' = [r EXCEPT !.session = attempt.session, !.continued = TRUE,
                      !.cursor = attempt.entry.cursor + attempt.consumed,
                      !.at = attempt.pos]
  /\ pc' = "delta" /\ after' = "suspended"
  /\ UNCHANGED attempt

(* An error of the execution: restoreCheckpointGraphEntryPoint.             *)
Abandon(r) ==
  /\ run' = RolledBack(r, attempt.entry)
  /\ pc' = "delta" /\ after' = "rollback"
  /\ UNCHANGED attempt

(* A graph that takes no input gets the inputs before the first node that   *)
(* is not a system node (materializeRemainingInbox).                        *)
InboxIsDue == ~ HasConsumer /\ Rest(attempt) # << >>
              /\ ~ (pc = "node" /\ Kind(attempt.pos) = "system")

MaterializeInbox ==
  /\ pc \in {"node", "loop", "end"} /\ InboxIsDue
  /\ attempt' = Consume(attempt, Len(Rest(attempt)))
  /\ UNCHANGED << setup, db, run, baseline, up, pc, after, sent, faults,
                  calls, sweepVars >>

AtNode(kind) ==
  /\ pc = "node" /\ Kind(attempt.pos) = kind
  /\ attempt.pos \notin attempt.skip
  /\ ~ InboxIsDue

SkipNode ==
  /\ pc = "node" /\ attempt.pos \in attempt.skip
  /\ ~ InboxIsDue
  /\ GoOn([attempt EXCEPT !.skip = @ \ {attempt.pos}])
  /\ UNCHANGED << setup, db, run, baseline, up, after, sent, faults, calls,
                  sweepVars >>

SystemNode ==
  /\ AtNode("system")
  /\ GoOn([attempt EXCEPT !.session = Say(@, << Other >>)])
  /\ UNCHANGED << setup, db, run, baseline, up, after, sent, faults, calls,
                  sweepVars >>

InboxNode ==
  /\ AtNode("inbox")
  /\ GoOn(Consume(attempt, IF Rest(attempt) = << >> THEN 0 ELSE 1))
  /\ UNCHANGED << setup, db, run, baseline, up, after, sent, faults, calls,
                  sweepVars >>

(* awaitInput takes one input, or suspends the run where it stands.         *)
AwaitNode ==
  /\ AtNode("await")
  /\ IF Rest(attempt) = << >>
     THEN Suspend(run)
     ELSE /\ GoOn([Consume(attempt, 1) EXCEPT
                     !.resumeFrom = IF @ = attempt.pos THEN 0 ELSE @])
          /\ UNCHANGED << run, after >>
  /\ UNCHANGED << setup, db, baseline, up, sent, faults, calls, sweepVars >>

(* One model call, tool calls included, or its failure.                     *)
AssistantNode ==
  /\ AtNode("assistant")
  /\ \/ /\ \E count \in 1 .. MaxReplies :
             GoOn([attempt EXCEPT
                     !.session = Say(@, [i \in 1 .. count |-> Other])])
        /\ UNCHANGED << run, after, errors >>
     \/ /\ errors < MaxErrors
        /\ errors' = errors + 1
        /\ Abandon(run)
  /\ UNCHANGED << setup, db, baseline, up, sent, crashes, failures, calls,
                  sweepVars >>

(* A transform with an idempotency key: once() runs it unless its memo is   *)
(* there, and keeps the memo in memory before recordOnce writes it.         *)
EffectNode ==
  /\ AtNode("effect")
  /\ LET key == LastInput(attempt.session) IN
       IF key \in run.once
       THEN GoOn(attempt) /\ UNCHANGED << run, calls >>
       ELSE /\ calls' = [calls EXCEPT ![key] = @ + 1]
            /\ run' = WithMemo(run, key)
            /\ pc' = "memo"
            /\ UNCHANGED attempt
  /\ UNCHANGED << setup, db, baseline, up, after, sent, faults, sweepVars >>

RecordMemo ==
  /\ pc = "memo"
  /\ LET new == WithMemo(db, LastInput(attempt.session)) IN
       \/ Saved(new) /\ GoOn(attempt) /\ UNCHANGED << run, after >>
       \/ Unsaved(new) /\ Abandon(run)
  /\ UNCHANGED << setup, baseline, up, sent, crashes, errors, calls,
                  sweepVars >>

(* executeSleepNode: a fired timer lets the execution pass and a pending    *)
(* one suspends it again.                                                   *)
SleepNode ==
  /\ AtNode("sleep") /\ run.timers[attempt.pos] # "none"
  /\ IF run.timers[attempt.pos] = "fired"
     THEN GoOn(attempt) /\ UNCHANGED << run, after >>
     ELSE Suspend(run)
  /\ UNCHANGED << setup, db, baseline, up, sent, faults, calls, sweepVars >>

(* armTimer, for a sleep node that has no timer yet: the timer is pushed on *)
(* the run in memory and written with store.upsertTimer, and the sweep is   *)
(* armed anew for it.  When the write fails the sweep is not, although the  *)
(* store may hold the timer; when the read of the entries fails the wake    *)
(* there was is gone.                                                       *)
ArmTimer ==
  /\ AtNode("sleep") /\ run.timers[attempt.pos] = "none"
  /\ LET new   == WithTimer(db, attempt.pos, "pending")
         armed == WithTimer(run, attempt.pos, "pending")
     IN  \/ Saved(new) /\ Suspend(armed) /\ wake' = "armed"
         \/ /\ Unsaved(new) /\ Abandon(armed)
            /\ wake' = IF wake = "off" /\ db' # db THEN "lost" ELSE wake
         \/ ReadFails /\ db' = new /\ Abandon(armed) /\ wake' = "lost"
  /\ UNCHANGED << setup, baseline, up, sent, crashes, errors, calls, sweeping,
                  due >>

(* executeLoopNode: the condition, or for the first iteration of a run that *)
(* was suspended inside the loop nothing, lets an iteration begin.          *)
LoopHead ==
  /\ pc = "loop" /\ ~ InboxIsDue
  /\ LET pending == attempt.iterations = 0
                    /\ attempt.resumeFrom >= setup.loopStart
     IN  \/ /\ attempt.iterations < setup.maxIterations
            /\ attempt' = [attempt EXCEPT !.iterations = @ + 1]
            /\ pc' = "node"
            /\ UNCHANGED << run, after >>
         \/ /\ attempt.iterations >= setup.maxIterations
            /\ Abandon(run)
         \/ /\ setup.canExit /\ ~ pending
            /\ GoTo(attempt, Size + 1)
            /\ UNCHANGED << run, after >>
  /\ UNCHANGED << setup, db, baseline, up, sent, faults, calls, sweepVars >>

(* recordCheckpointGraphCompletion *)
Complete ==
  /\ pc = "end" /\ ~ InboxIsDue
  /\ run' = [run EXCEPT !.status = "done", !.session = attempt.session,
                        !.continued = TRUE, !.at = 0,
                        !.cursor = attempt.entry.cursor + attempt.consumed]
  /\ pc' = "delta" /\ after' = "done"
  /\ UNCHANGED << setup, db, baseline, up, attempt, sent, faults, calls,
                  sweepVars >>

-----------------------------------------------------------------------------
(* The process dies, and with it all that was only in memory, and starts    *)
(* again: a cached store reads (hydrates) the run from the database.        *)

Crash ==
  /\ up /\ crashes < MaxCrashes
  /\ crashes' = crashes + 1
  /\ up' = FALSE
  /\ run' = db
  /\ baseline' = NoBaseline
  /\ EndOperation
  /\ wake' = "off" /\ sweeping' = FALSE /\ due' = {}
  /\ UNCHANGED << setup, db, sent, failures, errors, calls >>

Restart ==
  /\ ~ up
  /\ up' = TRUE
  /\ wake' = "boot"
  /\ UNCHANGED << setup, db, run, baseline, pc, after, attempt, sent, faults,
                  calls, sweeping, due >>

ExecuteNode ==
  MaterializeInbox \/ SkipNode \/ SystemNode \/ InboxNode \/ AwaitNode
  \/ AssistantNode \/ EffectNode \/ RecordMemo \/ SleepNode \/ ArmTimer
  \/ LoopHead \/ Complete

(* The next step of the operation in progress.                              *)
Proceed ==
  Create \/ AppendInput \/ Reopen \/ ResumeRun \/ PersistDelta \/ PersistPatch
  \/ ExecuteNode

FireTimers == \E n \in DOMAIN setup.nodes : FireTimer(n)

TimerSweep == WakeUp \/ FireTimers \/ EndSweep

Next == Send \/ Resume \/ ResumeOrphan \/ TimerSweep \/ Proceed \/ Crash
        \/ Restart

Spec == Init /\ [][Next]_vars

(* An operation goes on until it ends; the process is started again; the    *)
(* timer sweep and the recovery scan come back for as long as there is      *)
(* something to do and queue for the run's lock, which is granted in order  *)
(* of submission, so no sequence of other calls overtakes them forever.     *)
Fairness == /\ WF_vars(Proceed)
            /\ WF_vars(Restart)
            /\ SF_vars(ResumeOrphan)
            /\ WF_vars(WakeUp)
            /\ SF_vars(FireTimers)
            /\ SF_vars(EndSweep)

FairSpec == Spec /\ Fairness

-----------------------------------------------------------------------------
(* Properties.                                                              *)

Sessions == [version : Nat, messages : Seq(0 .. MaxInputs)]

Entries == [offset : Nat, id : 1 .. MaxInputs]

Runs ==
  [status : {"absent", "open", "done"}, session : Sessions,
   continued : BOOLEAN, cursor : Nat, at : 0 .. Size, inbox : Seq(Entries),
   timers : [DOMAIN setup.nodes -> {"none", "pending", "fired"}],
   once : SUBSET (0 .. MaxInputs)]

(* A cached store whose writes fail leaves the run in memory and the run in *)
(* the database apart for good; what is promised then is not stated here.   *)
StoreKeepsUp == setup.cached => failures = 0

(* Types, and the bounds within which they hold: a cursor never points      *)
(* beyond the inbox it belongs to, and an attempt never takes more inputs   *)
(* than the slice it was handed.                                            *)
TypeOK ==
  /\ setup \in Setups
  /\ db \in Runs
  /\ run \in Runs
  /\ baseline \in [version : Nat \cup {-1}, count : Nat]
  /\ up \in BOOLEAN
  /\ pc \in {"idle", "create", "append", "reopen", "resume", "delta", "patch",
             "node", "memo", "loop", "end"}
  /\ after \in {"none", "execute", "done", "suspended", "rollback"}
  /\ attempt.pos \in 1 .. Size + 1
  /\ attempt.session \in Sessions
  /\ sent \in 0 .. MaxInputs
  /\ crashes \in 0 .. MaxCrashes
  /\ failures \in 0 .. MaxFailures
  /\ errors \in 0 .. MaxErrors
  /\ calls \in [0 .. MaxInputs -> Nat]
  /\ wake \in {"off", "boot", "armed", "lost"}
  /\ sweeping \in BOOLEAN
  /\ due \subseteq DOMAIN setup.nodes
  /\ StoreKeepsUp =>
       /\ db.cursor <= Len(db.inbox)
       /\ run.cursor <= Len(run.inbox)
       /\ attempt.entry.cursor + attempt.consumed <= Len(attempt.entry.inbox)

(* The cursor of the stored run is never ahead of its session: each input   *)
(* it has passed is a message of the stored session, so no input is skipped *)
(* whatever fails (the persistence contract of checkpoint_continuation.ts,  *)
(* upheld by persistRun writing the delta before the cursor).               *)
CursorNeverAhead ==
  StoreKeepsUp =>
    \A i \in 1 .. db.cursor :
      \E j \in DOMAIN db.session.messages :
        db.session.messages[j] = db.inbox[i].id

(* Cursor and session agree.                                                *)
PairConsistent ==
  Delivered(db.session) = Ids(SubSeq(db.inbox, 1, db.cursor))

(* As long as the process lives and the store works, the stored session     *)
(* between two operations holds exactly the inputs the cursor has passed,   *)
(* each of them once and in order: failing models, exceeded loops, sleeps,  *)
(* recovery and resumptions at any moment neither repeat nor drop an input  *)
(* (begin, skip, rollback, suspension, completion).                         *)
EachInputOnce == pc = "idle" /\ crashes + failures = 0 => PairConsistent

(* What the store has is never taken back: no write shortens or rewrites    *)
(* the history, the inbox or the memos, lowers the version of the session   *)
(* or disarms a timer, not even a rollback (restoreCheckpointGraphEntryPoint*)
(* followed by persistRun) or a resumption from an older baseline.          *)
HistoryKept ==
  [][/\ IsPrefix(db.session.messages, db'.session.messages)
     /\ db.session.version <= db'.session.version
     /\ IsPrefix(db.inbox, db'.inbox)
     /\ db.once \subseteq db'.once
     /\ \A n \in DOMAIN db.timers :
          /\ db.timers[n] = "fired" => db'.timers[n] = "fired"
          /\ db.timers[n] = "pending" => db'.timers[n] # "none"]_vars

(* The keyed effect of an input is executed again only to make up for a     *)
(* crash or a failed write: an attempt that fails for another reason and is *)
(* repeated finds the memo (createCheckpointOnceBoundary).                  *)
EffectsBounded ==
  \A key \in DOMAIN calls : calls[key] <= 1 + crashes + failures

(* The timers the store has accepted fire, over crashes, failed writes,     *)
(* wakes that go off in the middle of a sweep and timers that are armed in  *)
(* one, unless the one wake was lost to a write or read that failed, which  *)
(* the next arming of a timer or the next start makes good (armTimer,       *)
(* runTimerSweep, rearmTimerSweep, fireTimer, start).                       *)
TimersFire ==
  (Pending(db) # {} /\ StoreKeepsUp)
    ~> (Pending(db) = {} \/ wake = "lost" \/ ~ StoreKeepsUp)

(* An attempt that finds a loop's limit of inputs waiting fails every time. *)
RoomInLoop == setup.maxIterations > MaxInputs

(* A completion that could not be written is rolled back but for its        *)
(* status, which the rollback then stores: the run is "done" although its   *)
(* inputs are not consumed, and no scan takes it for an orphan any more     *)
(* (recordCheckpointGraphCompletion, restoreCheckpointGraphEntryPoint,      *)
(* isOrphanRun).                                                            *)
CompletionTakenBack == db.status = "done" /\ failures > 0 /\ ~ setup.cached

(* A straight graph that is suspended beyond its consumers ends without     *)
(* taking what is sent to it meanwhile.                                     *)
StillTakesInput ==
  \/ ~ HasConsumer \/ setup.loopStart <= Size
  \/ \E n \in Consumers : db.at <= n

(* A run that is open with inputs left does not stay where it is: the       *)
(* recovery scan brings its cursor past the next input (recoverOrphans,     *)
(* resumeOrphan), as long as its graph takes one and its loop has room for  *)
(* them, unless a completion was taken back.                                *)
OrphansResolved ==
  \A c \in 0 .. MaxInputs - 1 :
    (db.status = "open" /\ Unconsumed(db) /\ db.cursor = c
       /\ StoreKeepsUp /\ RoomInLoop /\ StillTakesInput)
      ~> (db.cursor > c \/ CompletionTakenBack \/ ~ StoreKeepsUp)

(* "A run whose inbox has an unconsumed tail, the durable signal that work  *)
(* was delivered but never finished [is resumed]. No human re-invocation,   *)
(* no lost input" (README, crash recovery).                                 *)
NoLostInput == (db.status = "open" /\ Unconsumed(db)) ~> ~ Unconsumed(db)

=============================================================================
