------------------------------ MODULE Gateways ------------------------------
(***************************************************************************)
(* The gateways that turn what a chat platform or a clock says into         *)
(* dispatches, and the runtime server that starts and stops them.           *)
(*                                                                         *)
(* Source: packages/telegram/src (the poll loop), packages/discord/src (the *)
(* message listener and the progress observer), packages/cron/src (the      *)
(* scheduler), packages/core/src/runtime_server.ts (start, stop, dispatch)  *)
(* and runtime_dispatch.ts (findRuntimeBinding).                            *)
(*                                                                         *)
(* A dispatch is a call of the conversation mutex, so this module extends   *)
(* KeyedMutex: its tasks are the dispatches, its keys the conversations,    *)
(* and what one of them does inside fn() is DeliveryOutbox's subject.  A    *)
(* gateway reaches the mutex in the same step in which it takes the event.  *)
(* The intervals of timers and of the poll's backoff are left out: a timer  *)
(* may fire at any time.  At most one start() and one stop() are under way, *)
(* and what a poller or a scheduler that was replaced by a second start     *)
(* still takes is not followed: the server is only marked as stray.         *)
(***************************************************************************)
EXTENDS KeyedMutex, Sequences, SequencesExt

CONSTANTS
    Events,         \* the messages, updates and cron jobs of all scenarios
    Setups,         \* the scenarios
    Calls,          \* calls of the progress observer's handle(event)
    Undefined,      \* a thread or a list of channels that is not there
    MaxFailures     \* how many requests to a platform may fail

(***************************************************************************)
(* The n-th dispatch of an event is the task << event, n >>.  A setup names *)
(* the gateways in the order of the adapters; what each event is, and which *)
(* may happen (messages of Discord, updates of Telegram in the order of     *)
(* their ids, jobs of cron);                                                *)
(* the bundle's bindings; the Telegram options; how often start and stop of *)
(* the server may be called; the progress calls, with their key, and the    *)
(* size of their cache.                                                     *)
(***************************************************************************)
ASSUME GatewaysAssumption ==
    /\ Tasks \subseteq Events \X Nat
    /\ MaxFailures \in Nat
    /\ \A s \in Setups :
          /\ s.gateways \in Seq({"telegram", "discord", "cron"})
          /\ s.updates \in Seq(Events) /\ s.messages \cup s.jobs \subseteq Events
          /\ s.starts \in Nat /\ s.stops \in Nat /\ s.maxEntries \in Nat
          /\ DOMAIN s.progress \subseteq Calls
          /\ \A c \in DOMAIN s.progress : s.progress[c] \in Events
    /\ IsFiniteSet(Calls)

VARIABLES
    setup,      \* the member of Setups this behaviour is about; never changes
    server,     \* RuntimeServer: at which gateway start() and stop() are (0: no such
                \*   call), whether stop waits for the poll loop, the calls so far;
                \*   history: whether the last call was a start, whether the last stop
                \*   came during a start, and whether a poller or a scheduler runs
                \*   that nothing refers to any more
    telegram,   \* the poller: its place in the loop, running, offset and batch, and
                \*   whether the gateway still refers to it
    platform,   \* Telegram itself: the updates it has, those it no longer gives out
    discord,    \* the client: connected, its listeners, the messages that came
    calling,    \* a message whose listeners are being called, and how many are left
    cron,       \* the scheduler: its armed jobs, its emits in flight
    progress,   \* the observer: its cache of bindings and its calls
    handled,    \* history: the updates whose handling has ended
    posts,      \* history: per key, how many progress messages the channel got
    excused,    \* history: per key, how often its binding was evicted or a
                \*   message that was posted was reported as failed
    failures

mutexVars == vars

gatewayVars == << setup, server, telegram, platform, discord, calling, cron,
                  progress, handled, posts, excused, failures >>

-----------------------------------------------------------------------------
(* What a gateway makes of a message, and where a dispatch goes.            *)

(* telegram.sessionKey                                                      *)
TelegramConversation(perUser, e) ==
    IF e.group /\ perUser THEN << "telegram", e.chat, e.user >>
                          ELSE << "telegram", e.chat >>

(* TelegramPoller.handle: no text, a chat that is not allowed, or a group   *)
(* message that does not name the bot are dropped.                          *)
TelegramTakes(options, e) ==
    /\ e.text
    /\ e.chat \in options.allowedChats
    /\ options.requireMention /\ e.group => e.mentionsBot

(* discord.sessionKey                                                       *)
DiscordConversation(options, e) ==
    LET forUser(each, base) == IF each THEN Append(base, e.author) ELSE base
    IN  IF e.dm THEN << "dm", e.author >>
        ELSE IF e.thread # Undefined
             THEN forUser(options.threadPerUser, << "thread", e.thread >>)
             ELSE forUser(options.groupPerUser, << "channel", e.channel >>)

(* passesDiscordBehavior: which messages of which channels are answered.    *)
PassesBehavior(b, e) ==
    /\ b.allowed # Undefined => e.channel \in b.allowed
    /\ \/ /\ e.thread # Undefined
          /\ b.threads # Undefined => e.channel \in b.threads
          /\ ~ b.threadRequireMention
       \/ e.channel \in b.free
       \/ ~ b.requireMention
       \/ e.mentionsBot

(* findRuntimeBinding: the first binding of the gateway's trigger type      *)
(* whose filters let the event pass; for cron, whatever job was declared on *)
(* which binding.                                                           *)
Matching(s, e) ==
    {i \in DOMAIN s.bindings : /\ s.bindings[i].trigger = s.about[e].source
                               /\ e \in s.bindings[i].accepts}

BindingOf(s, e) ==
    s.bindings[CHOOSE i \in Matching(s, e) : \A j \in Matching(s, e) : i <= j]

ShouldDispatch(s, e) ==
    s.about[e].source = "discord" => PassesBehavior(BindingOf(s, e).behavior, s.about[e])

(* dispatch goes on to the conversation's lock.                             *)
Dispatched(s, e) ==
    e \in DOMAIN s.about /\ Matching(s, e) # {} /\ ShouldDispatch(s, e)

Conversation(s, e) == BindingOf(s, e).conversation[e]

(* chunkTelegramMessage over texts of characters and newlines: a chunk ends *)
(* at the last newline that leaves it short enough, which is dropped.       *)
Chunks(text, limit) ==
    LET Cuts(s) == {i \in 2 .. limit + 1 : s[i] = "newline"}
        Cut(s) == IF Cuts(s) = {} THEN limit
                  ELSE (CHOOSE i \in Cuts(s) : \A j \in Cuts(s) : j <= i) - 1
        Rest(s) == LET r == SubSeq(s, Cut(s) + 1, Len(s))
                   IN  IF Head(r) = "newline" THEN Tail(r) ELSE r
        chunks[n \in 0 .. Len(text)] ==      \* of the last n characters
            LET s == SubSeq(text, Len(text) - n + 1, Len(text))
            IN  IF n = 0 THEN << >>
                ELSE IF n <= limit THEN << s >>
                ELSE << SubSeq(s, 1, Cut(s)) >> \o chunks[Len(Rest(s))]
    IN  chunks[Len(text)]

-----------------------------------------------------------------------------
(* Dispatches.                                                              *)

Copies(e) == {t \in Tasks : t[1] = e}

(* The next dispatch of an event that has not been dispatched as often as   *)
(* its tasks allow.                                                         *)
NextDispatch(e) ==
    LET idle == {t \in Copies(e) : pc[t] = "idle"}
    IN  {t \in idle : \A u \in idle : t[2] <= u[2]}

(* RuntimeServer.dispatch up to its first await.                            *)
Dispatch(t) == Submit(t)

GatewaysInit ==
    /\ setup \in Setups
    /\ key = [t \in Tasks |->
                IF Dispatched(setup, t[1]) THEN Conversation(setup, t[1])
                                           ELSE CHOOSE k \in Keys : TRUE]
    /\ Init
    /\ server = [start |-> 0, stop |-> 0, wanted |-> FALSE, crossed |-> FALSE,
                 waits |-> FALSE, stray |-> FALSE, starts |-> 0, stops |-> 0]
    /\ telegram = [pc |-> "off", running |-> FALSE, held |-> FALSE, offset |-> 0,
                   batch |-> << >>]
    /\ platform = [sent |-> 0, confirmed |-> 0]
    /\ discord = [connected |-> FALSE, listeners |-> 0, came |-> {}]
    /\ calling = << >>
    /\ cron = [armed |-> {}, stopped |-> TRUE, inFlight |-> {}]
    /\ progress = [bindings |-> << >>, stage |-> [c \in Calls |-> "idle"]]
    /\ handled = {}
    /\ posts = [k \in Events |-> 0] /\ excused = [k \in Events |-> 0]
    /\ failures = 0

(* A step of a dispatch inside the mutex.                                   *)
DispatchStep(t) ==
    /\ Start(t) \/ Finish(t) \/ Settle(t)
    /\ UNCHANGED gatewayVars

-----------------------------------------------------------------------------
(* The runtime server: start() and stop() await one gateway after another.  *)
(* Neither looks at the other, so a stop may come while a start waits for a *)
(* platform, and a start may come to a server that is up or half up.        *)

(* The gateway a call is at.                                                *)
Reaches(at, g) ==
    /\ at \in DOMAIN setup.gateways
    /\ setup.gateways[at] = g

CallStart ==
    /\ server.start = 0 /\ server.starts < setup.starts
    /\ server' = [server EXCEPT !.start = 1, !.wanted = TRUE, !.starts = @ + 1]
    /\ UNCHANGED << mutexVars, setup, telegram, platform, discord, calling, cron,
                    progress, handled, posts, excused, failures >>

CallStop ==
    /\ server.stop = 0 /\ server.stops < setup.stops
    /\ server' = [server EXCEPT !.stop = 1, !.wanted = FALSE,
                                !.crossed = server.start # 0, !.stops = @ + 1]
    /\ UNCHANGED << mutexVars, setup, telegram, platform, discord, calling, cron,
                    progress, handled, posts, excused, failures >>

(* A call has gone through all gateways.                                    *)
CallReturns ==
    /\ \/ /\ server.start > Len(setup.gateways)
          /\ server' = [server EXCEPT !.start = 0]
       \/ /\ server.stop > Len(setup.gateways)
          /\ server' = [server EXCEPT !.stop = 0]
    /\ UNCHANGED << mutexVars, setup, telegram, platform, discord, calling, cron,
                    progress, handled, posts, excused, failures >>

(* A gateway has started; it may have put another in the place of one that  *)
(* nothing can stop any more.                                               *)
Started(g, replaces) ==
    /\ Reaches(server.start, g)
    /\ server' = [server EXCEPT !.start = @ + 1, !.stray = @ \/ replaces]

(* getMe is answered: a new poller, without an offset, takes the place of   *)
(* the one that was there.                                                  *)
StartTelegram ==
    /\ Started("telegram", telegram.held /\ telegram.running)
    /\ telegram' = [pc |-> "poll", running |-> TRUE, held |-> TRUE,
                    offset |-> 0, batch |-> << >>]
    /\ UNCHANGED << mutexVars, setup, platform, discord, calling, cron, progress,
                    handled, posts, excused, failures >>

(* A client keeps its listeners over destroy(), and start adds one more.    *)
StartDiscord ==
    /\ Started("discord", FALSE)
    /\ discord' = [discord EXCEPT !.connected = TRUE, !.listeners = @ + 1]
    /\ UNCHANGED << mutexVars, setup, telegram, platform, calling, cron, progress,
                    handled, posts, excused, failures >>

(* A new scheduler, with one timer per schedule and no memory of emits,     *)
(* takes the place of the one that was there.                               *)
StartCron ==
    /\ Started("cron", cron.armed # {})
    /\ cron' = [armed |-> setup.jobs, stopped |-> FALSE, inFlight |-> {}]
    /\ UNCHANGED << mutexVars, setup, telegram, platform, discord, calling,
                    progress, handled, posts, excused, failures >>

(* getMe or login fails, the latter after the listener was added: start()   *)
(* rejects, and the gateways after this one are not started.                *)
StartFails ==
    /\ failures < MaxFailures
    /\ \/ Reaches(server.start, "telegram") /\ UNCHANGED discord
       \/ /\ Reaches(server.start, "discord")
          /\ discord' = [discord EXCEPT !.listeners = @ + 1]
    /\ failures' = failures + 1
    /\ server' = [server EXCEPT !.start = 0]
    /\ UNCHANGED << mutexVars, setup, telegram, platform, calling, cron, progress,
                    handled, posts, excused >>

(* TelegramPoller.stop: the flag and the abort ...                          *)
StopTelegram ==
    /\ Reaches(server.stop, "telegram")
    /\ telegram.held /\ ~ server.waits
    /\ server' = [server EXCEPT !.waits = TRUE]
    /\ telegram' = [telegram EXCEPT !.running = FALSE]
    /\ UNCHANGED << mutexVars, setup, platform, discord, calling, cron, progress,
                    handled, posts, excused, failures >>

(* A gateway has stopped; a running poller may be left behind.              *)
Stopped(g, leaves) ==
    /\ Reaches(server.stop, g)
    /\ server' = [server EXCEPT !.stop = @ + 1, !.waits = FALSE,
                                !.stray = @ \/ leaves]

(* Variant: stop does not wait for the loop.                                *)
TelegramStopsAtOnce ==
    /\ telegram.held = server.waits
    /\ Stopped("telegram", telegram.running)
    /\ telegram' = [telegram EXCEPT !.held = FALSE]
    /\ UNCHANGED << mutexVars, setup, platform, discord, calling, cron, progress,
                    handled, posts, excused, failures >>

(* ... and then the end of the loop, or there was no poller.  A poller that *)
(* runs by then took the place of the stopped one, and is forgotten with it.*)
TelegramStopped ==
    /\ telegram.held = server.waits
    /\ telegram.held => telegram.running \/ telegram.pc = "off"
    /\ Stopped("telegram", telegram.running)
    /\ telegram' = [telegram EXCEPT !.held = FALSE]
    /\ UNCHANGED << mutexVars, setup, platform, discord, calling, cron, progress,
                    handled, posts, excused, failures >>

StopDiscord ==
    /\ Stopped("discord", FALSE)
    /\ discord' = [discord EXCEPT !.connected = FALSE]
    /\ UNCHANGED << mutexVars, setup, telegram, platform, calling, cron, progress,
                    handled, posts, excused, failures >>

(* The timers are cleared; emits in flight go on.                           *)
StopCron ==
    /\ Stopped("cron", FALSE)
    /\ cron' = [cron EXCEPT !.armed = {}, !.stopped = TRUE]
    /\ UNCHANGED << mutexVars, setup, telegram, platform, discord, calling,
                    progress, handled, posts, excused, failures >>

ServerStep ==
    \/ CallStart \/ CallStop \/ CallReturns
    \/ StartTelegram \/ StartDiscord \/ StartCron \/ StartFails
    \/ StopTelegram \/ TelegramStopped \/ StopDiscord \/ StopCron

-----------------------------------------------------------------------------
(* Telegram: the platform, and the poll loop.                               *)

(* The next update arrives at Telegram.                                     *)
UpdateArrives ==
    /\ platform.sent < Len(setup.updates)
    /\ platform' = [platform EXCEPT !.sent = @ + 1]
    /\ UNCHANGED << mutexVars, setup, server, telegram, discord, calling, cron,
                    progress, handled, posts, excused, failures >>

(* An offset tells Telegram that the updates before it may be forgotten.    *)
Confirmed == [platform EXCEPT !.confirmed = IF telegram.offset > @ + 1
                                            THEN telegram.offset - 1 ELSE @]

(* getUpdates returns what is not confirmed.                                *)
PollAnswered ==
    /\ telegram.pc = "poll" /\ telegram.running
    /\ platform' = Confirmed
    /\ telegram' = [telegram EXCEPT
                      !.pc = "batch",
                      !.batch = [i \in 1 .. platform.sent - platform'.confirmed |->
                                   platform'.confirmed + i]]
    /\ UNCHANGED << mutexVars, setup, server, discord, calling, cron, progress,
                    handled, posts, excused, failures >>

(* Variant: an error ends the loop.                                         *)
PollErrorEndsLoop ==
    /\ telegram.pc = "poll" /\ telegram.running /\ failures < MaxFailures
    /\ failures' = failures + 1
    /\ platform' \in {platform, Confirmed}
    /\ telegram' = [telegram EXCEPT !.pc = "off"]
    /\ UNCHANGED << mutexVars, setup, server, discord, calling, cron, progress,
                    handled, posts, excused >>

(* getUpdates fails, before or after Telegram took note of the offset, and  *)
(* the loop sleeps.                                                         *)
PollFails ==
    /\ telegram.pc = "poll" /\ telegram.running /\ failures < MaxFailures
    /\ failures' = failures + 1
    /\ platform' \in {platform, Confirmed}
    /\ telegram' = [telegram EXCEPT !.pc = "sleep"]
    /\ UNCHANGED << mutexVars, setup, server, discord, calling, cron, progress,
                    handled, posts, excused >>

(* The top of the loop, or its end.                                         *)
Again(poller) == [poller EXCEPT !.pc = IF poller.running THEN "poll" ELSE "off",
                                !.batch = << >>]

(* The sleep ends, or is aborted; an aborted getUpdates ends the loop.      *)
Wake ==
    /\ telegram.pc = "sleep" \/ (telegram.pc = "poll" /\ ~ telegram.running)
    /\ telegram' = Again(telegram)
    /\ UNCHANGED << mutexVars, setup, server, platform, discord, calling, cron,
                    progress, handled, posts, excused, failures >>

Update == Head(telegram.batch)

UpdateEvent == setup.updates[Update]

Takes == TelegramTakes(setup.telegram, setup.about[UpdateEvent]) /\ Dispatched(setup, UpdateEvent)

PastUpdate == [telegram EXCEPT !.offset = Update + 1]

(* Variant: the loop does not await the dispatch.                           *)
HandleUpdateWithoutAwait ==
    /\ telegram.pc = "batch" /\ telegram.batch # << >>
    /\ telegram.running /\ Takes
    /\ telegram' = [PastUpdate EXCEPT !.batch = Tail(@)]
    /\ \E t \in NextDispatch(UpdateEvent) : Dispatch(t)
    /\ UNCHANGED << setup, server, platform, discord, calling, cron, progress,
                    handled, posts, excused, failures >>

(* The offset moves past the next update of the batch; its handling reaches *)
(* the conversation's lock.                                                 *)
HandleUpdate ==
    /\ telegram.pc = "batch" /\ telegram.batch # << >>
    /\ telegram.running /\ Takes
    /\ telegram' = [PastUpdate EXCEPT !.pc = "handle"]
    /\ \E t \in NextDispatch(UpdateEvent) : Dispatch(t)
    /\ UNCHANGED << setup, server, platform, discord, calling, cron, progress,
                    handled, posts, excused, failures >>

(* A message that nobody wants is handled without a dispatch.               *)
DropUpdate ==
    /\ telegram.pc = "batch" /\ telegram.batch # << >>
    /\ telegram.running /\ ~ Takes
    /\ telegram' = [PastUpdate EXCEPT !.batch = Tail(@)]
    /\ handled' = handled \cup {Update}
    /\ UNCHANGED << mutexVars, setup, server, platform, discord, calling, cron,
                    progress, posts, excused, failures >>

(* The batch is done, or stop() came: the offset moves, the loop breaks.    *)
EndBatch ==
    /\ telegram.pc = "batch" /\ (telegram.batch = << >> \/ ~ telegram.running)
    /\ telegram' = Again(IF telegram.batch = << >> THEN telegram ELSE PastUpdate)
    /\ UNCHANGED << mutexVars, setup, server, platform, discord, calling, cron,
                    progress, handled, posts, excused, failures >>

(* emit() has returned or thrown, which onError is told.                    *)
UpdateHandled ==
    /\ telegram.pc = "handle"
    /\ \E t \in Copies(UpdateEvent) :
          /\ pc[t] = "done"
          /\ \A u \in Copies(UpdateEvent) : pc[u] # "idle" => u[2] <= t[2]
    /\ telegram' = [telegram EXCEPT !.pc = "batch", !.batch = Tail(@)]
    /\ handled' = handled \cup {Update}
    /\ UNCHANGED << mutexVars, setup, server, platform, discord, calling, cron,
                    progress, posts, excused, failures >>

PollerStep ==
    \/ PollAnswered \/ Wake \/ HandleUpdate \/ DropUpdate \/ EndBatch \/ UpdateHandled

-----------------------------------------------------------------------------
(* Discord: a message, and the calls of the client's listeners, in one turn *)
(* of the event loop.                                                       *)

(* discordMessageToEvent: what a bot wrote is dropped.                      *)
MessageComes ==
    \E e \in setup.messages \ discord.came :
        /\ discord.connected
        /\ discord' = [discord EXCEPT !.came = @ \cup {e}]
        /\ calling' = IF setup.about[e].bot \/ ~ Dispatched(setup, e) THEN << >>
                      ELSE << e, discord.listeners >>
        /\ UNCHANGED << mutexVars, setup, server, telegram, platform, cron,
                        progress, handled, posts, excused, failures >>

(* handleDiscordMessage in one listener.                                    *)
CallListener ==
    /\ calling # << >>
    /\ \E t \in NextDispatch(calling[1]) : Dispatch(t)
    /\ calling' = IF calling[2] = 1 THEN << >> ELSE << calling[1], calling[2] - 1 >>
    /\ UNCHANGED << setup, server, telegram, platform, discord, cron, progress,
                    handled, posts, excused, failures >>

-----------------------------------------------------------------------------
(* cron: the timer of a job.                                                *)

JobId(e) == setup.about[e].id

(* The timer is armed again, unless the schedule is over.                   *)
Rearmed(job) == {cron.armed, cron.armed \ {job}}

Flying(job) == \E t \in cron.inFlight : JobId(t[1]) = JobId(job)

(* fire: the event goes to its dispatch ...                                 *)
CronFires ==
    \E job \in cron.armed : \E armed \in Rearmed(job) :
        /\ ~ cron.stopped /\ ~ Flying(job) /\ Dispatched(setup, job)
        /\ \E t \in NextDispatch(job) :
              /\ Dispatch(t)
              /\ cron' = [cron EXCEPT !.armed = armed, !.inFlight = @ \cup {t}]
        /\ UNCHANGED << setup, server, telegram, platform, discord, calling,
                        progress, handled, posts, excused, failures >>

(* ... or is skipped: an emit under the same job id is in flight.  An event *)
(* without a binding goes nowhere.                                          *)
CronSkips ==
    \E job \in cron.armed : \E armed \in Rearmed(job) :
        /\ Flying(job) \/ ~ Dispatched(setup, job)
        /\ cron' = [cron EXCEPT !.armed = armed]
        /\ UNCHANGED << mutexVars, setup, server, telegram, platform, discord,
                        calling, progress, handled, posts, excused, failures >>

(* emit() has returned or thrown; the job may fire again.                   *)
CronEmitEnds ==
    \E t \in cron.inFlight :
        /\ pc[t] = "done"
        /\ cron' = [cron EXCEPT !.inFlight = @ \ {t}]
        /\ UNCHANGED << mutexVars, setup, server, telegram, platform, discord,
                        calling, progress, handled, posts, excused, failures >>

CronStep == CronFires \/ CronSkips \/ CronEmitEnds

-----------------------------------------------------------------------------
(* The progress observer of Discord and its cache of bindings, a Map in the *)
(* order of insertion.  Its key names a tool's event and the channel.       *)

KeyOf(c) == setup.progress[c]

Bound(cache, k) == \E i \in DOMAIN cache : cache[i] = k

(* pruneDiscordProgressBindings: the oldest go when there are too many; the *)
(* entries that have expired go at a step of their own, BindingExpires.     *)
Pruned(cache) ==
    IF Len(cache) <= setup.maxEntries THEN cache
    ELSE SubSeq(cache, Len(cache) - setup.maxEntries + 1, Len(cache))

(* set: a key that is there keeps its place, the oldest makes room for a    *)
(* new one.                                                                 *)
Stored(cache, k) == IF Bound(cache, k) THEN cache ELSE Pruned(Append(cache, k))

(* delete: a key is in the Map at most once.                                *)
Without(cache, k) ==
    LET at == {i \in DOMAIN cache : cache[i] = k}
    IN  IF at = {} THEN cache ELSE RemoveAt(cache, CHOOSE i \in at : TRUE)

(* The keys the cache drops when k is stored: the oldest, and k itself when *)
(* the cache has room for none.                                             *)
Dropped(cache, k) ==
    {j \in Events : /\ j = k \/ Bound(cache, j)
                    /\ ~ Bound(Stored(cache, k), j)}

Excuse(dropped) ==
    [k \in Events |-> excused[k] + (IF k \in dropped THEN 1 ELSE 0)]

(* Variant: a key is claimed once its message is posted.                    *)
ClaimIsALookup(c) ==
    /\ progress.stage[c] = "idle"
    /\ progress' = [progress EXCEPT
                      !.stage[c] = IF Bound(progress.bindings, KeyOf(c))
                                   THEN "done" ELSE "resolve"]
    /\ UNCHANGED << mutexVars, setup, server, telegram, platform, discord, calling,
                    cron, handled, posts, excused, failures >>

(* claim: the key is taken, if nobody has it.                               *)
Claim(c) ==
    /\ progress.stage[c] = "idle"
    /\ LET held == Bound(progress.bindings, KeyOf(c))
           cache == Stored(progress.bindings, KeyOf(c))
       IN  /\ progress' = [bindings |-> cache,
                           stage |-> [progress.stage EXCEPT
                                        ![c] = IF held THEN "done" ELSE "resolve"]]
           /\ excused' = Excuse(Dropped(progress.bindings, KeyOf(c)))
    /\ UNCHANGED << mutexVars, setup, server, telegram, platform, discord, calling,
                    cron, handled, posts, failures >>

(* The channel is fetched.  When it is not sendable the claim is given up;  *)
(* when the fetch throws, the claim stays and the message is never posted.  *)
ResolveChannel(c) ==
    /\ progress.stage[c] = "resolve"
    /\ \/ /\ progress' = [progress EXCEPT !.stage[c] = "send"]
          /\ UNCHANGED failures
       \/ /\ failures < MaxFailures /\ failures' = failures + 1
          /\ progress' \in {[progress EXCEPT !.stage[c] = "done"],
                            [bindings |-> Without(progress.bindings, KeyOf(c)),
                             stage |-> [progress.stage EXCEPT ![c] = "done"]]}
    /\ UNCHANGED << mutexVars, setup, server, telegram, platform, discord, calling,
                    cron, handled, posts, excused >>

(* channel.send: the message is posted; or the call fails, and the message  *)
(* may be posted all the same.                                              *)
PostProgress(c) ==
    /\ progress.stage[c] = "send"
    /\ \/ /\ progress' = [progress EXCEPT !.stage[c] = "sent"]
          /\ posts' = [posts EXCEPT ![KeyOf(c)] = @ + 1]
          /\ UNCHANGED << failures, excused >>
       \/ /\ failures < MaxFailures /\ failures' = failures + 1
          /\ progress' = [progress EXCEPT !.stage[c] = "failed"]
          /\ \/ UNCHANGED << posts, excused >>
             \/ /\ posts' = [posts EXCEPT ![KeyOf(c)] = @ + 1]
                /\ excused' = [excused EXCEPT ![KeyOf(c)] = @ + 1]
    /\ UNCHANGED << mutexVars, setup, server, telegram, platform, discord, calling,
                    cron, handled >>

(* The binding is stored as sent, or the claim is given up; when the event  *)
(* comes again, that is another call.                                       *)
EndProgress(c) ==
    /\ progress.stage[c] \in {"sent", "failed"}
    /\ LET cache == IF progress.stage[c] = "sent"
                    THEN Stored(progress.bindings, KeyOf(c))
                    ELSE Without(progress.bindings, KeyOf(c))
       IN  /\ progress' = [bindings |-> cache,
                           stage |-> [progress.stage EXCEPT ![c] = "done"]]
           /\ excused' = IF progress.stage[c] = "sent"
                         THEN Excuse(Dropped(progress.bindings, KeyOf(c))) ELSE excused
    /\ UNCHANGED << mutexVars, setup, server, telegram, platform, discord, calling,
                    cron, handled, posts, failures >>

(* A binding has outlived its time.                                         *)
BindingExpires ==
    \E k \in ToSet(progress.bindings) :
        /\ failures < MaxFailures /\ failures' = failures + 1
        /\ progress' = [progress EXCEPT !.bindings = Without(@, k)]
        /\ excused' = [excused EXCEPT ![k] = @ + 1]
        /\ UNCHANGED << mutexVars, setup, server, telegram, platform, discord,
                        calling, cron, handled, posts >>

ProgressStep ==
    \/ \E c \in DOMAIN setup.progress :
          Claim(c) \/ ResolveChannel(c) \/ PostProgress(c) \/ EndProgress(c)
    \/ BindingExpires

-----------------------------------------------------------------------------

GatewaysNext ==
    \/ CallListener
    \/ /\ calling = << >>
       /\ \/ ServerStep \/ UpdateArrives \/ PollFails \/ PollerStep \/ MessageComes
          \/ CronStep \/ ProgressStep
          \/ \E t \in Tasks : DispatchStep(t)

(* Promise callbacks run and timers fire, and since a dispatch takes three  *)
(* steps, fairness to all of them is fairness to each; every dispatch is    *)
(* assumed to end, and every request to a platform to be answered or to     *)
(* fail.  Nothing makes the server start or stop, or an event come.         *)
GatewaysFairness ==
    /\ WF_<< vars, gatewayVars >>(\E t \in Tasks : DispatchStep(t))
    /\ WF_<< vars, gatewayVars >>(calling = << >> /\ PollerStep)
    /\ WF_<< vars, gatewayVars >>(CallListener)

GatewaysSpec == GatewaysInit /\ [][GatewaysNext]_<< vars, gatewayVars >> /\ GatewaysFairness

-----------------------------------------------------------------------------
(* Properties.                                                              *)

(* Telegram forgets an update only when its handling has ended: over a stop *)
(* in the middle of a batch, a restart with a new offset, and requests that *)
(* fail after Telegram took note of them, no update is skipped, although    *)
(* the offset moves before the update is handled.                           *)
ConfirmedAreHandled == 1 .. platform.confirmed \subseteq handled

(* The last call was a stop, and it has returned.                           *)
IsStopped == ~ server.wanted /\ server.stop = 0

(* No poll, no sleep and no handling of the poller goes on, no timer is     *)
(* armed, and the client is not connected.                                  *)
AllQuiet == telegram.pc = "off" /\ cron.armed = {} /\ ~ discord.connected

(* Once stop() has returned all gateways are quiet, although one is stopped *)
(* while the others still take events, and although start() may have failed *)
(* half-way: unless the stop came while a start was under way, or a second  *)
(* start had replaced a poller or a scheduler.                              *)
StopQuiesces == IsStopped /\ ~ server.crossed /\ ~ server.stray => AllQuiet

(* What telegram/src/index.ts says of stop(): "no getUpdates request or     *)
(* backoff timer outlives stop()".                                          *)
NothingOutlivesStop == IsStopped => AllQuiet /\ ~ server.stray

(* While the poller runs, an update that has arrived is handled in the end: *)
(* neither a failed request nor a dispatch that waits behind others of its  *)
(* conversation stops the loop.                                             *)
UpdatesAreHandled ==
    \A i \in UNION {DOMAIN s.updates : s \in Setups} :
        (platform.sent >= i /\ telegram.running)
            ~> (i \in handled \/ ~ telegram.running)

(* A progress message is posted a second time only when the cache dropped   *)
(* its binding, or a send was reported as failed that was not: two calls    *)
(* for the same tool event never post it twice, whichever of the awaits     *)
(* between claim and set they are at.                                       *)
ProgressOnce == \A k \in Events : posts[k] <= 1 + excused[k]
=============================================================================
