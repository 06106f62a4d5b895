----------------------------- MODULE MCGateways -----------------------------
(***************************************************************************)
(* Scenarios of Gateways for TLC, and the refinement of the mutex the       *)
(* dispatches run in to SerialLanes.                                        *)
(***************************************************************************)
EXTENDS Gateways

CONSTANTS ann, bob, here, there,        \* people, chats and channels
          c1, c2, c3                    \* calls of the progress observer

Message(channel, mention) ==
    [source |-> "discord", bot |-> FALSE, dm |-> FALSE, author |-> ann,
     channel |-> channel, thread |-> Undefined, mentionsBot |-> mention]

TelegramUpdate(chat, mention) ==
    [source |-> "telegram", chat |-> chat, user |-> ann, group |-> chat = here,
     text |-> TRUE, mentionsBot |-> mention]

Job(id) == [source |-> "cron", id |-> id]

AllEvents == 1 .. 4

(* What may come a second time, and the rest of the messages.               *)
AllTasks == ((1 .. 2) \X (1 .. 2)) \cup ((3 .. 4) \X {1})

(* Messages are answered in one channel, elsewhere when they name the bot.  *)
Behavior == [allowed |-> Undefined, threads |-> Undefined, free |-> {here},
             threadRequireMention |-> TRUE, requireMention |-> TRUE]

DiscordOptions == [threadPerUser |-> FALSE, groupPerUser |-> FALSE]

CronKey == << "channel", here >>

AllKeys == {CronKey, << "channel", there >>, << "telegram", bob >>,
            << "telegram", here, ann >>}

(* One binding per gateway, for what happens in a setup.                    *)
Bindings(about) ==
    LET mine(source) == {e \in DOMAIN about : about[e].source = source}
    IN  << [trigger |-> "telegram", accepts |-> mine("telegram"),
            conversation |-> [e \in mine("telegram") |->
                                TelegramConversation(TRUE, about[e])]],
           [trigger |-> "discord", accepts |-> mine("discord"),
            behavior |-> Behavior,
            conversation |-> [e \in mine("discord") |->
                                DiscordConversation(DiscordOptions, about[e])]],
           [trigger |-> "cron", accepts |-> mine("cron"),
            conversation |-> [e \in mine("cron") |-> CronKey]] >>

Setup(gateways, about, updates, starts, stops) ==
    LET of(source) == {e \in DOMAIN about : about[e].source = source}
    IN  [gateways |-> gateways, about |-> about, messages |-> of("discord"),
         updates |-> updates, jobs |-> of("cron"), bindings |-> Bindings(about),
         telegram |-> [allowedChats |-> {here, bob}, requireMention |-> TRUE],
         starts |-> starts, stops |-> stops, progress |-> [c \in {} |-> 1], maxEntries |-> 0]

(* Four messages, n of them in one channel.                                 *)
Messages(n) ==
    Setup(<< "discord" >>,
          [e \in AllEvents |-> Message(IF e <= n THEN here ELSE there, TRUE)],
          << >>, 1, 0)

(* Updates of a private chat, and of a group, for the bot and not.          *)
Updates(order, starts) ==
    Setup(<< "telegram" >>,
          << TelegramUpdate(bob, FALSE), TelegramUpdate(here, TRUE),
             TelegramUpdate(here, FALSE) >>,
          order, starts, 1)

(* Two jobs whose names make one id.                                        *)
Schedules ==
    Setup(<< "cron" >>, (1 :> Job("daily") @@ 4 :> Job("daily")), << >>, 1, 1)

(* A scheduler that goes on while the poller is stopped.                    *)
Together ==
    Setup(<< "telegram", "cron" >>,
          (1 :> TelegramUpdate(here, TRUE) @@ 4 :> Job("daily")), << 1 >>, 1, 1)

(* A scheduler that is there when a start that failed is tried again.       *)
Retried ==
    Setup(<< "cron", "telegram" >>,
          (4 :> Job("daily")), << >>, 2, 1)

(* A client that is started again, with its listeners, and a message nobody *)
(* answers.                                                                 *)
Listeners ==
    Setup(<< "discord" >>, << Message(here, FALSE), Message(there, FALSE) >>,
          << >>, 2, 1)

(* Two calls for one tool event and one for another, in a cache of one.     *)
Progress ==
    [Setup(<< >>, [e \in AllEvents |-> Message(here, TRUE)], << >>, 0, 0) EXCEPT
       !.progress = (c1 :> 1 @@ c2 :> 1 @@ c3 :> 2), !.maxEntries = 1]

AllSetups == {Messages(3), Updates(<< 1, 3, 2 >>, 1), Updates(<< 3, 2 >>, 2)} \cup
             {Schedules, Together, Retried, Listeners, Progress}

(* A text that is cut keeps its characters and loses a newline at most      *)
(* where it was cut, and no chunk is empty or too long.                     *)
Texts == UNION {[1 .. n -> {"a", "newline"}] : n \in 0 .. 6}

Letters(s) == SelectSeq(s, LAMBDA x : x # "newline")

ASSUME ChunksFit ==
    \A text \in Texts :
        /\ \A chunk \in ToSet(Chunks(text, 3)) : Len(chunk) \in 1 .. 3
        /\ Letters(FlattenSeq(Chunks(text, 3))) = Letters(text)

PendingOf(k) == {t \in Tasks : key[t] = k /\ Pending(t)}

EarlierTurn(t, u) == turn[t] < turn[u]

Lanes == INSTANCE SerialLanes WITH
    lane <- [k \in Keys |-> SetToSortSeq(PendingOf(k), EarlierTurn)],
    inside <- {t \in Tasks : pc[t] = "running"}

(* The promise chain implements first-in first-out lanes, one per key: a    *)
(* dispatch is appended to its conversation's lane when it is made, only    *)
(* the head of a lane enters, and every head eventually enters and leaves.  *)
ImplementsLanes == Lanes!Spec
=============================================================================
