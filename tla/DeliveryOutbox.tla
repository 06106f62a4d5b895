--------------------------- MODULE DeliveryOutbox ---------------------------
(***************************************************************************)
(* The delivery of the assistant messages of one conversation to a chat    *)
(* platform, through the outbox of its durable run.                        *)
(*                                                                         *)
(* Source: packages/core/src/runtime_server.ts (RuntimeServer: dispatch,   *)
(* deliverAssistantMessages, retryPendingDeliveries), runtime_dispatch.ts  *)
(* (AssistantDeliveryTracker) and durable.ts (prepareAssistantDeliveries,  *)
(* markAssistantDelivery, materialization of the outbox).                  *)
(*                                                                         *)
(* Two threads of control touch the outbox.  The server starts with the    *)
(* retry of what is pending and then dispatches one event at a time (the   *)
(* conversation lock).  Behind its back a timer, the recovery scan or      *)
(* another caller may resume the run.  A turn of the agent holds the run's *)
(* lock; the delivery of what it said does not.  A crash may come between  *)
(* any two steps.                                                          *)
(***************************************************************************)
EXTENDS Integers, Sequences, SequencesExt, FiniteSets

CONSTANTS
  Targets,       \* where replies may go, each named by its hash in the keys
  NoTarget,      \* the run's services name no target yet
  Setups,        \* the circumstances that are explored
  MaxMessages,   \* how many messages the assistant writes
  MaxCrashes,    \* how often the process may die
  MaxFailures    \* how many deliveries may fail

(***************************************************************************)
(* A setup.  live: the store hands out the objects it keeps (MemoryRunStore, *)
(* SqliteRunStore) instead of fresh copies of its rows; background: turns   *)
(* may run outside the server; targets: where events may ask replies to go; *)
(* rewrites: how often a middleware may replace the history.                *)
(***************************************************************************)
ASSUME OutboxAssumption ==
  /\ Targets \subseteq Nat /\ NoTarget \notin Targets
  /\ Setups \subseteq [live : BOOLEAN, background : BOOLEAN,
                       targets : SUBSET Targets, rewrites : 0 .. 1]
  /\ MaxMessages \in Nat /\ MaxCrashes \in Nat /\ MaxFailures \in Nat

VARIABLES
  setup,     \* the member of Setups this behaviour is about; never changes
  messages,  \* the assistant messages of the stored session
  target,    \* services.delivery of the stored run
  outbox,    \* its outbox entries
  tracker,   \* deliveredKeys of the server's AssistantDeliveryTracker
  server,    \* what the server is doing
  back,      \* what the background turn is doing
  up,        \* the process is alive
  written,   \* history: how many messages were written; they are numbered
  receipts,  \* history: what the platform received
  unsure,    \* history: per key, receipts the outbox could not record
  crashes, failures, rewrites

budgets == << crashes, failures, rewrites >>

vars == << setup, messages, target, outbox, tracker, server, back, up,
           written, receipts, unsure, budgets >>

-----------------------------------------------------------------------------
(* Entries and keys.                                                        *)

Indexes(s) == [i \in DOMAIN s |-> i]

(* The elements of s at the places in chosen, in their order.               *)
Those(s, chosen) ==
  LET upTo[i \in 0 .. Len(s)] ==
        IF i = 0 THEN << >>
        ELSE IF i \in chosen THEN Append(upTo[i - 1], s[i]) ELSE upTo[i - 1]
  IN  upTo[Len(s)]

(* assistantDeliveryKey: the conversation, the turn and the target.         *)
Key(e) == << e.index, e.target >>

Keys == (1 .. MaxMessages) \X Targets

HasKey(entries, k) == \E i \in DOMAIN entries : Key(entries[i]) = k

EntryOf(entries, k) ==
  entries[CHOOSE i \in DOMAIN entries : Key(entries[i]) = k]

Status(k) == IF HasKey(outbox, k) THEN EntryOf(outbox, k).status ELSE "none"

(* store.upsertOutbox                                                       *)
WithEntry(entries, e) ==
  IF HasKey(entries, Key(e))
  THEN [i \in DOMAIN entries |-> IF Key(entries[i]) = Key(e) THEN e ELSE entries[i]]
  ELSE Append(entries, e)

(* markAssistantDelivery: nothing happens to an entry that is not there.    *)
Mark(entries, k, status) ==
  [i \in DOMAIN entries |-> IF Key(entries[i]) = k
                            THEN [entries[i] EXCEPT !.status = status]
                            ELSE entries[i]]

RetryableUnlessInFlight(e) == e.status \in {"pending", "failed"}

(* isRetryableAssistantDeliveryStatus                                       *)
Retryable(e) == e.status \in {"pending", "delivering", "failed"}

(* The copies of the entries a reader gets: none, when it gets the live     *)
(* objects, or all, in whatever order the rows come.                        *)
Shuffled(s) ==
  {[i \in DOMAIN s |-> s[p[i]]] : p \in Bijection(DOMAIN s, DOMAIN s)}

ReadOutbox == IF setup.live THEN {<< >>} ELSE Shuffled(outbox)

(* The order of the keys, up to turn nine also as text.                     *)
Before(e, f) ==
  e.index < f.index \/ (e.index = f.index /\ e.target < f.target)

Sorted(s) == {t \in Shuffled(s) : \A i, j \in DOMAIN t : i < j => Before(t[i], t[j])}

-----------------------------------------------------------------------------
(* The two threads of control.                                              *)

Free == [pc |-> "ready", session |-> << >>, todo |-> << >>, copy |-> << >>,
         attempts |-> << >>, due |-> {}]

(* The run's lock: from the input of a turn until its session is stored.    *)
HoldsRun(w) == w.pc \in {"turn", "commit"}

Init ==
  /\ setup \in Setups
  /\ messages = << >> /\ target = NoTarget /\ outbox = << >>
  /\ tracker = {} /\ server = Free /\ back = Free /\ up = TRUE
  /\ written = 0 /\ receipts = << >> /\ unsure = [k \in Keys |-> 0]
  /\ crashes = 0 /\ failures = 0 /\ rewrites = 0

(* What a turn makes of the session: new messages at its end and possibly,  *)
(* by the patch of a middleware, a shorter history before them.             *)
NewMessages ==
  {[i \in 1 .. n |-> written + i] : n \in 0 .. MaxMessages - written}

History(rewritten) == IF rewritten THEN Tail(messages) ELSE messages

(* A turn ends: what a completed one said is materialized in the outbox     *)
(* before the session is stored, a suspended one is stored at once.         *)
TurnEnds(w) ==
  \E new \in NewMessages, rewritten, completed \in BOOLEAN, read \in ReadOutbox :
    LET session == History(rewritten) \o new IN
      /\ rewritten => rewrites < setup.rewrites /\ messages # << >>
      /\ rewrites' = IF rewritten THEN rewrites + 1 ELSE rewrites
      /\ written' = written + Len(new)
      /\ w = [Free EXCEPT !.pc = "commit", !.session = session, !.copy = read,
                          !.todo = IF completed /\ target # NoTarget
                                   THEN Indexes(session) ELSE << >>]

(* dispatch and sendImpl: the services of the event, and with them the      *)
(* delivery target, are stored, and the turn begins.                        *)
Dispatch ==
  /\ up /\ server.pc = "ready" /\ ~ HoldsRun(back)
  /\ target' \in setup.targets
  /\ server' = [Free EXCEPT !.pc = "turn"]
  /\ UNCHANGED << setup, messages, outbox, tracker, back, up, written,
                  receipts, unsure, budgets >>

(* resumeAgentRun for the server; a turn that fails leaves nothing here.    *)
Turn ==
  /\ server.pc = "turn"
  /\ \/ TurnEnds(server')
     \/ server' = Free /\ UNCHANGED << written, rewrites >>
  /\ UNCHANGED << setup, messages, target, outbox, tracker, back, up, receipts,
                  unsure, crashes, failures >>

(* The same, outside the server: fireTimer, resumeOrphan, or a caller.      *)
BackgroundTurn ==
  /\ up /\ setup.background
  /\ back.pc = "ready" /\ ~ HoldsRun(server) /\ target # NoTarget
  /\ TurnEnds(back')
  /\ UNCHANGED << setup, messages, target, outbox, tracker, server, up,
                  receipts, unsure, crashes, failures >>

-----------------------------------------------------------------------------
(* prepareAssistantDeliveries for one message: an entry the reader knows is *)
(* written back as it was read, another one is made for the message.        *)

Known(w) == IF setup.live THEN outbox ELSE w.copy

EntryToWrite(w) ==
  LET k == << Head(w.todo), target >> IN
    IF HasKey(Known(w), k) THEN EntryOf(Known(w), k)
    ELSE [index |-> Head(w.todo), target |-> target,
          message |-> w.session[Head(w.todo)], status |-> "pending"]

Upserted(w) ==
  [w EXCEPT !.todo = Tail(@),
            !.copy = IF setup.live THEN @ ELSE WithEntry(@, EntryToWrite(w))]

ServerUpsert ==
  /\ server.todo # << >>
  /\ outbox' = WithEntry(outbox, EntryToWrite(server))
  /\ server' = Upserted(server)
  /\ UNCHANGED << setup, messages, target, tracker, back, up, written, receipts,
                  unsure, budgets >>

BackgroundUpsert ==
  /\ back.todo # << >>
  /\ outbox' = WithEntry(outbox, EntryToWrite(back))
  /\ back' = Upserted(back)
  /\ UNCHANGED << setup, messages, target, tracker, server, up, written,
                  receipts, unsure, budgets >>

(* persistRun stores the session and the run's lock is given back.          *)
Commit ==
  /\ server.pc = "commit" /\ server.todo = << >>
  /\ messages' = server.session
  /\ server' = [server EXCEPT !.pc = "read"]
  /\ UNCHANGED << setup, target, outbox, tracker, back, up, written, receipts,
                  unsure, budgets >>

BackgroundCommit ==
  /\ back.pc = "commit" /\ back.todo = << >>
  /\ messages' = back.session
  /\ back' = Free
  /\ UNCHANGED << setup, target, outbox, tracker, server, up, written, receipts,
                  unsure, budgets >>

(* AssistantDeliveryTracker.pending                                         *)
Undelivered(session) == {i \in DOMAIN session : << i, target >> \notin tracker}

Pending(session) == Those(Indexes(session), Undelivered(session))

(* deliverAssistantMessages reads the outbox for the messages of the result *)
(* this process has not delivered.                                          *)
Prepare ==
  /\ server.pc = "read"
  /\ \E read \in ReadOutbox :
       server' = [server EXCEPT !.pc = "prepare", !.copy = read,
                                !.todo = Pending(server.session)]
  /\ UNCHANGED << setup, messages, target, outbox, tracker, back, up, written,
                  receipts, unsure, budgets >>

AboutPending(w) ==
  {i \in DOMAIN Known(w) : /\ Known(w)[i].target = target
                           /\ Known(w)[i].index \in Undelivered(w.session)}

AttemptAll(w) == Those(Known(w), AboutPending(w))

RetryablePlaces(entries) == {i \in DOMAIN entries : Retryable(entries[i])}

(* What prepareAssistantDeliveries returns.                                 *)
Attempts(w) == Those(Known(w), AboutPending(w) \cap RetryablePlaces(Known(w)))

Prepared ==
  /\ server.pc = "prepare" /\ server.todo = << >>
  /\ server' = [Free EXCEPT !.pc = "deliver", !.attempts = Attempts(server)]
  /\ UNCHANGED << setup, messages, target, outbox, tracker, back, up, written,
                  receipts, unsure, budgets >>

-----------------------------------------------------------------------------
(* The delivery of the first entry of server.attempts, after a dispatch     *)
(* (deliverAssistantMessages) or at the start (retryOutboxEntry).           *)

Current == Head(server.attempts)

Delivering ==
  /\ server.pc = "deliver" /\ server.attempts # << >>
  /\ outbox' = Mark(outbox, Key(Current), "delivering")
  /\ server' = [server EXCEPT !.pc = "send"]
  /\ UNCHANGED << setup, messages, target, tracker, back, up, written, receipts,
                  unsure, budgets >>

Received ==
  receipts' = Append(receipts, [index |-> Current.index, target |-> Current.target,
                                message |-> Current.message])

(* driver.deliver: the platform has the message, and says so; or it says    *)
(* that it failed, and may have it all the same.                            *)
Deliver ==
  /\ server.pc = "send"
  /\ \/ /\ Received
        /\ server' = [server EXCEPT !.pc = "record"]
        /\ UNCHANGED << unsure, failures >>
     \/ /\ failures < MaxFailures
        /\ failures' = failures + 1
        /\ server' = [server EXCEPT !.pc = "fail"]
        /\ \/ UNCHANGED << receipts, unsure >>
           \/ Received /\ unsure' = [unsure EXCEPT ![Key(Current)] = @ + 1]
  /\ UNCHANGED << setup, messages, target, outbox, tracker, back, up, written,
                  crashes, rewrites >>

Delivered ==
  /\ server.pc = "record"
  /\ outbox' = Mark(outbox, Key(Current), "delivered")
  /\ tracker' = tracker \cup {Key(Current)}
  /\ server' = [server EXCEPT !.pc = "deliver", !.attempts = Tail(@)]
  /\ UNCHANGED << setup, messages, target, back, up, written, receipts, unsure,
                  budgets >>

FailedGoesOn ==
  /\ server.pc = "fail"
  /\ outbox' = Mark(outbox, Key(Current), "failed")
  /\ server' = [server EXCEPT !.pc = "deliver", !.attempts = Tail(@), !.due = {}]
  /\ UNCHANGED << setup, messages, target, tracker, back, up, written, receipts,
                  unsure, budgets >>

(* A failure ends the dispatch, or the retry of this conversation.          *)
Failed ==
  /\ server.pc = "fail"
  /\ outbox' = Mark(outbox, Key(Current), "failed")
  /\ server' = Free
  /\ UNCHANGED << setup, messages, target, tracker, back, up, written, receipts,
                  unsure, budgets >>

AllDelivered ==
  /\ server.pc = "deliver" /\ server.attempts = << >>
  /\ server' = [Free EXCEPT !.due = server.due]
  /\ UNCHANGED << setup, messages, target, outbox, tracker, back, up, written,
                  receipts, unsure, budgets >>

-----------------------------------------------------------------------------
(* The process dies.  A store that keeps the runs in memory reads the       *)
(* outbox back in the order of its keys.                                    *)
Crash ==
  /\ up /\ crashes < MaxCrashes
  /\ crashes' = crashes + 1
  /\ up' = FALSE
  /\ server' = Free /\ back' = Free /\ tracker' = {}
  /\ outbox' \in Sorted(outbox)
  /\ unsure' = IF server.pc = "record"
               THEN [unsure EXCEPT ![Key(Current)] = @ + 1] ELSE unsure
  /\ UNCHANGED << setup, messages, target, written, receipts, failures, rewrites >>

Restart ==
  /\ ~ up
  /\ up' = TRUE
  /\ server' = [Free EXCEPT !.pc = "start"]
  /\ UNCHANGED << setup, messages, target, outbox, tracker, back, written,
                  receipts, unsure, budgets >>

(* The result of the run as another reader sees it: a live object shows     *)
(* what a turn has said before it is stored.                                *)
Visible == IF setup.live /\ back.pc = "commit" THEN back.session ELSE messages

(* pendingAssistantDeliveryOutbox materializes what is missing ...          *)
Materialize ==
  /\ server.pc = "start"
  /\ \E read \in ReadOutbox :
       server' = [Free EXCEPT
         !.pc = "list", !.session = Visible, !.copy = read,
         !.todo = IF target = NoTarget THEN << >> ELSE Indexes(Visible),
         !.due = {k \in Keys : \/ Status(k) \notin {"none", "delivered"}
                              \/ k \in (DOMAIN Visible) \X {target}}]
  /\ UNCHANGED << setup, messages, target, outbox, tracker, back, up, written,
                  receipts, unsure, budgets >>

(* ... and lists what is to be retried, in the order of the keys.           *)
ListPending ==
  /\ server.pc = "list" /\ server.todo = << >>
  /\ \E attempts \in Sorted(Those(outbox, RetryablePlaces(outbox))) :
       server' = [Free EXCEPT !.pc = "deliver", !.due = server.due,
                              !.attempts = attempts]
  /\ UNCHANGED << setup, messages, target, outbox, tracker, back, up, written,
                  receipts, unsure, budgets >>

ServerStep ==
  Turn \/ ServerUpsert \/ Commit \/ Prepare \/ Prepared \/ Delivering \/ Deliver
  \/ Delivered \/ Failed \/ AllDelivered \/ Materialize \/ ListPending

BackgroundStep == BackgroundUpsert \/ BackgroundCommit

Next == Dispatch \/ ServerStep \/ BackgroundTurn \/ BackgroundStep \/ Crash
        \/ Restart

Spec == Init /\ [][Next]_vars

-----------------------------------------------------------------------------
(* Properties.                                                              *)

Messages == 1 .. MaxMessages

Statuses == {"pending", "delivering", "delivered", "failed"}

Entries == [index : Messages, target : Targets, message : Messages,
            status : Statuses]

Workers ==
  [pc : {"ready", "turn", "commit", "read", "prepare", "deliver", "send",
         "record", "fail", "start", "list"},
   session : Seq(Messages), todo : Seq(Messages), copy : Seq(Entries),
   attempts : Seq(Entries), due : SUBSET Keys]

(* Types; one entry per key; and a turn in progress on one side only.       *)
TypeOK ==
  /\ setup \in Setups
  /\ messages \in Seq(Messages)
  /\ target \in Targets \cup {NoTarget}
  /\ outbox \in Seq(Entries)
  /\ \A i, j \in DOMAIN outbox : Key(outbox[i]) = Key(outbox[j]) => i = j
  /\ tracker \subseteq Keys
  /\ server \in Workers /\ back \in Workers
  /\ ~ (HoldsRun(server) /\ HoldsRun(back))
  /\ up \in BOOLEAN
  /\ written \in 0 .. MaxMessages
  /\ receipts \in Seq([index : Messages, target : Targets, message : Messages])
  /\ unsure \in [Keys -> Nat]
  /\ crashes \in 0 .. MaxCrashes
  /\ failures \in 0 .. MaxFailures
  /\ rewrites \in 0 .. setup.rewrites

(* A stale copy of an entry may be written over a newer one when a turn     *)
(* outside the server materializes the outbox of a store with copies.       *)
NoStaleCopies == setup.live \/ ~ setup.background

ReceiptsOf(k) == Cardinality({i \in DOMAIN receipts : Key(receipts[i]) = k})

(* A test says that a completed delivery is not delivered again, also after *)
(* a cold restart ("does not re-deliver a completed delivery after cold     *)
(* restart").                                                               *)
ReceivedOnce == \A k \in Keys : ReceiptsOf(k) <= 1 + unsure[k]

(* The platform receives a message again only when the outbox could not     *)
(* record that it had it: a crash between the delivery and its record, or a *)
(* delivery that was reported as failed.  What is recorded as delivered is  *)
(* never sent again, over dispatches, background turns and restarts         *)
(* (prepareAssistantDeliveries, the tracker, the scan at the start).        *)
RecordedOnce == NoStaleCopies => ReceivedOnce

(* When the server begins to take events after a start, every reply that    *)
(* was stored or in the outbox when it scanned is delivered, unless a       *)
(* delivery failed (retryPendingDeliveries before gateway.start).           *)
StartDelivers ==
  NoStaleCopies /\ server.pc = "ready" =>
    \A k \in server.due : Status(k) = "delivered"

-----------------------------------------------------------------------------
(* The outbox as a queue of replies for each target.  Only stores with live *)
(* objects keep it in order.                                                *)
Offered(t) == {i \in Messages : setup.live /\ Status(<< i, t >>) # "none"}

Served(t) == {i \in Messages : setup.live /\ Status(<< i, t >>) = "delivered"}

ReceivedBy(t) ==
  Those(receipts, {i \in DOMAIN receipts : setup.live /\ receipts[i].target = t})

Queues == INSTANCE ReplyQueue WITH
  offered <- [t \in Targets |-> Cardinality(Offered(t))],
  served <- [t \in Targets |-> Cardinality(Served(t))],
  received <- [t \in Targets |-> [i \in DOMAIN ReceivedBy(t) |-> ReceivedBy(t)[i].index]]

(* Each target gets its replies in the order of the turns, each again only  *)
(* until it is recorded as delivered, over dispatches that switch targets,  *)
(* failed deliveries, background turns, crashes and restarts.               *)
ServesQueues == Queues!Spec
=============================================================================
