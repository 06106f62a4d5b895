--------------------------- MODULE GatewaysProofs ---------------------------
(***************************************************************************)
(* Proofs about Gateways, for every list of gateways, every bindings, any   *)
(* number of events, calls and failures: dispatches are calls of the        *)
(* conversation mutex, no update is forgotten before it is handled, a       *)
(* server that has stopped is quiet, and a progress message is posted once. *)
(***************************************************************************)
EXTENDS Gateways, FiniteSetTheorems, TLAPS

-----------------------------------------------------------------------------
(* The mutex by itself, for any set of calls and keys.  The argument follows *)
(* the promise chain: everything submitted before a call that is inside fn() *)
(* for the same key is done.                                                *)

Earlier(u, t) == pc[u] # "idle" /\ key[u] = key[t] /\ turn[u] < turn[t]

DrainedBefore(t) == \A u \in Tasks : Earlier(u, t) => pc[u] = "done"

(* Turns number the submitted calls, from 1. *)
Turns ==
    /\ \A t \in Tasks : pc[t] = "idle" => turn[t] = 0
    /\ \A t \in Tasks : pc[t] # "idle" => turn[t] \in 1..submitted
    /\ \A t, u \in Tasks : pc[t] # "idle" /\ turn[t] = turn[u] => t = u

(* The tail of a key is its last submitted call; with no tail, all are done. *)
LastIsTail ==
    \A k \in Keys :
        /\ locks[k] = NoTask =>
               \A u \in Tasks : pc[u] # "idle" /\ key[u] = k => pc[u] = "done"
        /\ locks[k] # NoTask =>
               /\ Pending(locks[k])
               /\ key[locks[k]] = k
               /\ \A u \in Tasks :
                    pc[u] # "idle" /\ key[u] = k => turn[u] <= turn[locks[k]]

(* A call waits for the last call submitted before it with its key. *)
Links ==
    \A t \in Tasks : pc[t] # "idle" =>
        /\ previous[t] = NoTask => DrainedBefore(t)
        /\ previous[t] # NoTask =>
               /\ Earlier(previous[t], t)
               /\ \A u \in Tasks : Earlier(u, t) => turn[u] <= turn[previous[t]]

(* A settled chain, and a call that entered, have only done calls before.   *)
Drained ==
    /\ \A t \in settled : pc[t] = "done" /\ DrainedBefore(t)
    /\ \A t \in Tasks : pc[t] \in {"running", "done"} => DrainedBefore(t)

IInv == TypeOK /\ Turns /\ LastIsTail /\ Links /\ Drained

USE NoTaskAssumption

(* The type invariant holds initially and every step preserves it. *)
LEMMA TypePreserved == TypeOK /\ [Next]_vars => TypeOK'
<1> SUFFICES ASSUME TypeOK, [Next]_vars PROVE TypeOK'
  OBVIOUS
<1>1. CASE UNCHANGED vars
  BY <1>1 DEF TypeOK, vars
<1>2. ASSUME NEW t \in Tasks, Submit(t) PROVE TypeOK'
  BY <1>2 DEF TypeOK, Submit
<1>3. ASSUME NEW t \in Tasks, Start(t) PROVE TypeOK'
  BY <1>3 DEF TypeOK, Start
<1>4. ASSUME NEW t \in Tasks, Finish(t) PROVE TypeOK'
  BY <1>4 DEF TypeOK, Finish
<1>5. ASSUME NEW t \in Tasks, Settle(t) PROVE TypeOK'
  BY <1>5 DEF TypeOK, Settle
<1> QED
  BY <1>1, <1>2, <1>3, <1>4, <1>5 DEF Next

(* A call whose awaited chain has settled has only done calls before it. *)
LEMMA SettledMeansDrained ==
  ASSUME IInv, NEW t \in Tasks, pc[t] # "idle", PreviousSettled(t)
  PROVE  DrainedBefore(t)
<1>1. CASE previous[t] = NoTask
  BY <1>1 DEF IInv, Links
<1>2. CASE previous[t] # NoTask
  <2> DEFINE p == previous[t]
  <2>1. p \in Tasks /\ p \in settled
    BY <1>2 DEF PreviousSettled, IInv, TypeOK
  <2>2. pc[p] = "done" /\ DrainedBefore(p)
    BY <2>1 DEF IInv, Drained
  <2>3. Earlier(p, t) /\ \A u \in Tasks : Earlier(u, t) => turn[u] <= turn[p]
    BY <1>2 DEF IInv, Links
  <2> SUFFICES ASSUME NEW u \in Tasks, Earlier(u, t) PROVE pc[u] = "done"
    BY DEF DrainedBefore
  <2>4. turn[u] \in Nat /\ turn[p] \in Nat /\ turn[u] <= turn[p]
    BY <2>1, <2>3 DEF IInv, TypeOK
  <2>5. CASE turn[u] = turn[p]
    BY <2>1, <2>2, <2>5 DEF IInv, Turns, Earlier
  <2>6. CASE turn[u] < turn[p]
    BY <2>2, <2>3, <2>6 DEF DrainedBefore, Earlier
  <2> QED
    BY <2>4, <2>5, <2>6
<1> QED
  BY <1>1, <1>2

LEMMA InitIInv == Init => IInv
<1> SUFFICES ASSUME Init PROVE IInv
  OBVIOUS
<1>1. TypeOK
  BY DEF Init, TypeOK
<1>2. Turns /\ LastIsTail /\ Links /\ Drained
  BY DEF Init, Turns, LastIsTail, Links, Drained, Pending
<1> QED
  BY <1>1, <1>2 DEF IInv

(* Each action preserves the strengthened invariant. *)
LEMMA SubmitIInv ==
  ASSUME IInv, NEW t \in Tasks, Submit(t)
  PROVE  IInv'
<1> DEFINE k == key[t]
<1>1. TypeOK /\ TypeOK'
  BY TypePreserved DEF IInv, Next
<1>2. /\ pc[t] = "idle" /\ turn[t] = 0 /\ k \in Keys
      /\ pc' = [pc EXCEPT ![t] = "waiting"]
      /\ previous' = [previous EXCEPT ![t] = locks[k]]
      /\ locks' = [locks EXCEPT ![k] = t]
      /\ submitted' = submitted + 1
      /\ turn' = [turn EXCEPT ![t] = submitted + 1]
      /\ key' = key /\ settled' = settled
  BY <1>1 DEF Submit, IInv, Turns, TypeOK
<1>3. Turns'
  BY <1>1, <1>2 DEF IInv, Turns, TypeOK
<1>4. \A u \in Tasks : pc[u] # "idle" => u # t /\ turn[u] < turn'[t] /\ turn'[u] = turn[u]
  BY <1>1, <1>2 DEF IInv, Turns, TypeOK
<1>5. \A u, v \in Tasks : v # t => (Earlier(u, v)' <=> Earlier(u, v) /\ u # t)
  BY <1>1, <1>2, <1>4 DEF Earlier, IInv, Turns, TypeOK
<1>6. \A u \in Tasks : Earlier(u, t)' <=> pc[u] # "idle" /\ key[u] = k
  BY <1>1, <1>2, <1>4 DEF Earlier, IInv, Turns, TypeOK
<1>7. LastIsTail'
  BY <1>1, <1>2, <1>4 DEF IInv, LastIsTail, TypeOK, Pending
<1>8. Links'
  <2> SUFFICES ASSUME NEW v \in Tasks, pc'[v] # "idle"
               PROVE  /\ previous'[v] = NoTask => DrainedBefore(v)'
                      /\ previous'[v] # NoTask =>
                            /\ Earlier(previous[v], v)'
                            /\ \A u \in Tasks : Earlier(u, v)' => turn'[u] <= turn'[previous'[v]]
    BY DEF Links, Earlier
  <2>1. CASE v # t
    <3>1. previous'[v] = previous[v] /\ pc[v] # "idle" /\ previous[v] \in Tasks \cup {NoTask}
      BY <2>1, <1>1, <1>2 DEF TypeOK
    <3>2. previous[v] = NoTask => DrainedBefore(v)'
      BY <2>1, <3>1, <1>1, <1>2, <1>5 DEF IInv, Links, DrainedBefore, TypeOK, Earlier
    <3>3. ASSUME previous[v] # NoTask
          PROVE  /\ Earlier(previous[v], v)'
                 /\ \A u \in Tasks : Earlier(u, v)' => turn'[u] <= turn'[previous'[v]]
      <4>1. Earlier(previous[v], v) /\ \A u \in Tasks : Earlier(u, v) => turn[u] <= turn[previous[v]]
        BY <3>1, <3>3 DEF IInv, Links
      <4> QED
        BY <4>1, <3>1, <3>3, <2>1, <1>2, <1>4, <1>5 DEF Earlier
    <3> QED
      BY <3>1, <3>2, <3>3 DEF Earlier
  <2>2. CASE v = t
    <3>1. previous'[t] = locks[k]
      BY <1>1, <1>2 DEF TypeOK
    <3>2. locks[k] = NoTask => DrainedBefore(t)'
      BY <1>1, <1>2, <1>6 DEF IInv, LastIsTail, DrainedBefore, TypeOK
    <3>3. ASSUME locks[k] # NoTask
          PROVE  /\ Earlier(previous[t], t)'
                 /\ \A u \in Tasks : Earlier(u, t)' => turn'[u] <= turn'[previous'[t]]
      <4>1. PICK p \in Tasks : p = locks[k]
        BY <3>3, <1>1, <1>2 DEF TypeOK
      <4>2. /\ pc[p] # "idle" /\ key[p] = k
            /\ \A u \in Tasks : pc[u] # "idle" /\ key[u] = k => turn[u] <= turn[p]
        BY <3>3, <4>1, <1>2 DEF IInv, LastIsTail, Pending
      <4>3. Earlier(p, t)' /\ turn'[p] = turn[p]
        BY <4>2, <1>4, <1>6
      <4>4. \A u \in Tasks : Earlier(u, t)' => turn'[u] <= turn'[p]
        BY <4>2, <4>3, <1>4, <1>6
      <4> QED
        BY <3>1, <4>1, <4>3, <4>4 DEF Earlier
    <3> QED
      BY <2>2, <3>1, <3>2, <3>3 DEF Earlier
  <2> QED
    BY <2>1, <2>2
<1>9. Drained'
  <2>1. \A v \in Tasks : v # t /\ DrainedBefore(v) => DrainedBefore(v)'
    BY <1>1, <1>2, <1>5 DEF DrainedBefore, TypeOK, Earlier
  <2>2. t \notin settled
    BY <1>2 DEF IInv, Drained
  <2> QED
    BY <2>1, <2>2, <1>1, <1>2 DEF IInv, Drained, TypeOK
<1> QED
  BY <1>1, <1>3, <1>7, <1>8, <1>9 DEF IInv

(* The other three actions leave turns, keys and links as they are and move *)
(* one call forward, never back to idle; only waiting may become running.   *)
LEMMA StartIInv ==
  ASSUME IInv, NEW t \in Tasks, Start(t)
  PROVE  IInv'
<1>1. TypeOK /\ TypeOK'
  BY TypePreserved DEF IInv, Next
<1>2. /\ pc[t] = "waiting" /\ pc' = [pc EXCEPT ![t] = "running"]
      /\ UNCHANGED <<key, previous, locks, settled, turn, submitted>>
  BY DEF Start
<1>3. \A u, v \in Tasks : Earlier(u, v)' <=> Earlier(u, v)
  BY <1>1, <1>2 DEF Earlier, TypeOK
<1>4. \A v \in Tasks : DrainedBefore(v) => DrainedBefore(v)'
  BY <1>1, <1>2, <1>3 DEF DrainedBefore, TypeOK
<1>5. DrainedBefore(t)
  BY <1>2, SettledMeansDrained DEF Start
<1>6. Turns' /\ LastIsTail'
  BY <1>1, <1>2 DEF IInv, Turns, LastIsTail, Pending, TypeOK
<1>7. Links'
  BY <1>1, <1>2, <1>3, <1>4 DEF IInv, Links, TypeOK, Earlier
<1>8. Drained'
  BY <1>1, <1>2, <1>4, <1>5 DEF IInv, Drained, TypeOK
<1> QED
  BY <1>1, <1>6, <1>7, <1>8 DEF IInv

LEMMA FinishIInv ==
  ASSUME IInv, NEW t \in Tasks, Finish(t)
  PROVE  IInv'
<1>1. TypeOK /\ TypeOK'
  BY TypePreserved DEF IInv, Next
<1>2. /\ pc[t] = "running" /\ pc' = [pc EXCEPT ![t] = "done"]
      /\ locks' = [locks EXCEPT ![key[t]] = IF @ = t THEN NoTask ELSE @]
      /\ UNCHANGED <<key, previous, settled, turn, submitted>>
  BY DEF Finish
<1>3. \A u, v \in Tasks : Earlier(u, v)' <=> Earlier(u, v)
  BY <1>1, <1>2 DEF Earlier, TypeOK
<1>4. \A v \in Tasks : DrainedBefore(v) => DrainedBefore(v)'
  BY <1>1, <1>2, <1>3 DEF DrainedBefore, TypeOK
<1>5. Turns'
  BY <1>1, <1>2 DEF IInv, Turns, TypeOK
<1>6. LastIsTail'
  <2> SUFFICES ASSUME NEW k \in Keys
               PROVE  /\ locks'[k] = NoTask =>
                            \A u \in Tasks : pc'[u] # "idle" /\ key[u] = k => pc'[u] = "done"
                      /\ locks'[k] # NoTask =>
                            /\ Pending(locks[k])'
                            /\ key[locks'[k]] = k
                            /\ \A u \in Tasks : pc'[u] # "idle" /\ key[u] = k
                                   => turn[u] <= turn[locks'[k]]
    BY <1>2 DEF LastIsTail, Pending
  <2>1. CASE locks[k] = t
    <3>1. key[t] = k /\ \A u \in Tasks : pc[u] # "idle" /\ key[u] = k => turn[u] <= turn[t]
      BY <2>1 DEF IInv, LastIsTail
    <3>2. locks'[k] = NoTask
      BY <2>1, <3>1, <1>1, <1>2 DEF TypeOK
    <3>3. ASSUME NEW u \in Tasks, pc'[u] # "idle", key[u] = k PROVE pc'[u] = "done"
      <4>1. CASE u = t
        BY <4>1, <1>1, <1>2 DEF TypeOK
      <4>2. CASE u # t
        <5>1. pc'[u] = pc[u] /\ pc[u] # "idle" /\ turn[u] <= turn[t] /\ turn[u] # turn[t]
          BY <3>1, <3>3, <4>2, <1>1, <1>2 DEF IInv, Turns, TypeOK
        <5>2. Earlier(u, t)
          BY <5>1, <3>1, <3>3, <1>1 DEF Earlier, TypeOK
        <5> QED
          BY <5>1, <5>2, <1>2 DEF IInv, Drained, DrainedBefore
      <4> QED
        BY <4>1, <4>2
    <3> QED
      BY <3>2, <3>3
  <2>2. CASE locks[k] # t
    <3>1. locks'[k] = locks[k]
      BY <2>2, <1>1, <1>2 DEF TypeOK
    <3>2. \A u \in Tasks : (pc'[u] # "idle" <=> pc[u] # "idle") /\ (pc[u] = "done" => pc'[u] = "done")
                           /\ (u # t => pc'[u] = pc[u])
      BY <1>1, <1>2 DEF TypeOK
    <3>3. CASE locks[k] = NoTask
      BY <3>1, <3>2, <3>3 DEF IInv, LastIsTail
    <3>4. CASE locks[k] # NoTask
      <4>1. locks[k] \in Tasks /\ locks[k] # t
        BY <3>4, <2>2, <1>1 DEF TypeOK
      <4> QED
        BY <3>1, <3>2, <3>4, <4>1 DEF IInv, LastIsTail, Pending
    <3> QED
      BY <3>3, <3>4
  <2> QED
    BY <2>1, <2>2
<1>7. Links'
  BY <1>1, <1>2, <1>3, <1>4 DEF IInv, Links, TypeOK, Earlier
<1>8. Drained'
  BY <1>1, <1>2, <1>4 DEF IInv, Drained, TypeOK
<1> QED
  BY <1>1, <1>5, <1>6, <1>7, <1>8 DEF IInv

LEMMA SettleIInv ==
  ASSUME IInv, NEW t \in Tasks, Settle(t)
  PROVE  IInv'
<1>1. TypeOK /\ TypeOK'
  BY TypePreserved DEF IInv, Next
<1>2. pc[t] = "done" /\ settled' = settled \cup {t}
      /\ UNCHANGED <<pc, key, previous, locks, turn, submitted>>
  BY DEF Settle
<1>3. DrainedBefore(t)
  BY <1>2, SettledMeansDrained DEF Settle
<1>4. Turns' /\ LastIsTail' /\ Links'
  BY <1>1, <1>2 DEF IInv, Turns, LastIsTail, Links, Pending, Earlier, DrainedBefore
<1>5. Drained'
  BY <1>1, <1>2, <1>3 DEF IInv, Drained, DrainedBefore, Earlier
<1> QED
  BY <1>1, <1>4, <1>5 DEF IInv

LEMMA NextIInv == IInv /\ [Next]_vars => IInv'
<1> SUFFICES ASSUME IInv, [Next]_vars PROVE IInv'
  OBVIOUS
<1>1. CASE UNCHANGED vars
  <2> USE <1>1 DEF vars
  <2>1. TypeOK' /\ Turns' /\ LastIsTail' /\ Links' /\ Drained'
    BY DEF IInv, TypeOK, Turns, LastIsTail, Links, Drained, Pending, Earlier, DrainedBefore
  <2> QED
    BY <2>1 DEF IInv
<1>2. CASE Next
  BY <1>2, SubmitIInv, StartIInv, FinishIInv, SettleIInv DEF Next
<1> QED
  BY <1>1, <1>2

(* Type correctness, whatever the calls and the keys. *)
THEOREM TypeCorrect == Spec => []TypeOK
<1>1. Init => TypeOK
  BY InitIInv DEF IInv
<1> QED
  BY <1>1, TypePreserved, PTL DEF Spec

(* Two calls with the same key are never inside fn() together: of two, one  *)
(* was submitted first, and everything before a call inside is done.        *)
THEOREM MutexExcludes == Spec => []MutualExclusion
<1>1. IInv => MutualExclusion
  <2> SUFFICES ASSUME IInv, NEW t \in Tasks, NEW u \in Tasks,
                      pc[t] = "running", pc[u] = "running", key[t] = key[u]
               PROVE  t = u
    BY DEF MutualExclusion
  <2>1. turn[t] \in Nat /\ turn[u] \in Nat
    BY DEF IInv, TypeOK
  <2>2. ~Earlier(t, u) /\ ~Earlier(u, t)
    BY DEF IInv, Drained, DrainedBefore
  <2>3. turn[t] = turn[u]
    BY <2>1, <2>2 DEF Earlier
  <2> QED
    BY <2>3 DEF IInv, Turns
<1> QED
  BY <1>1, InitIInv, NextIInv, PTL DEF Spec

(* Calls with the same key enter in the order in which they were submitted. *)
THEOREM MutexKeepsOrder == Spec => []SubmissionOrder
<1>1. IInv => SubmissionOrder
  <2> SUFFICES ASSUME IInv, NEW t \in Tasks, NEW u \in Tasks, key[t] = key[u],
                      pc[t] \in {"running", "done"}, pc[u] = "waiting"
               PROVE  turn[t] < turn[u]
    BY DEF SubmissionOrder
  <2>1. turn[t] \in Nat /\ turn[u] \in Nat
    BY DEF IInv, TypeOK
  <2>2. ~Earlier(u, t)
    BY DEF IInv, Drained, DrainedBefore
  <2>3. turn[t] # turn[u]
    BY DEF IInv, Turns
  <2> QED
    BY <2>1, <2>2, <2>3 DEF Earlier
<1> QED
  BY <1>1, InitIInv, NextIInv, PTL DEF Spec

(* The map has an entry for a key exactly while a call naming it is pending. *)
THEOREM MutexMapDrains == Spec => []MapDrains
<1>1. IInv => MapDrains
  BY DEF IInv, LastIsTail, MapDrains, TypeOK, Pending
<1> QED
  BY <1>1, InitIInv, NextIInv, PTL DEF Spec

-----------------------------------------------------------------------------
(* The gateways.                                                            *)

Kinds == {"telegram", "discord", "cron"}

PollerPhases == {"off", "poll", "sleep", "batch", "handle"}

Stages == {"idle", "resolve", "send", "sent", "failed", "done"}

Server == [start: Nat, stop: Nat, wanted: BOOLEAN, crossed: BOOLEAN,
           waits: BOOLEAN, stray: BOOLEAN, starts: Nat, stops: Nat]

Poller == [pc: PollerPhases, running: BOOLEAN, held: BOOLEAN, offset: Nat,
           batch: Seq(Nat)]

(* The shape of the gateways' state.                                        *)
Types ==
    /\ setup \in Setups
    /\ server \in Server
    /\ telegram \in Poller
    /\ platform \in [sent: Nat, confirmed: Nat]
    /\ discord \in [connected: BOOLEAN, listeners: Nat, came: SUBSET Events]
    /\ cron \in [armed: SUBSET Events, stopped: BOOLEAN, inFlight: SUBSET Tasks]
    /\ progress \in [bindings: Seq(Events), stage: [Calls -> Stages]]
    /\ posts \in [Events -> Nat] /\ excused \in [Events -> Nat]
    /\ failures \in Nat

(* A gateway of this kind takes nothing.                                    *)
Quiet(g) ==
    /\ g = "telegram" => telegram.pc = "off"
    /\ g = "discord" => ~ discord.connected
    /\ g = "cron" => cron.armed = {}

(* What takes events is in the list of the server, and the gateway refers   *)
(* to its poller, unless one has gone stray; a stop that no start crossed   *)
(* has silenced the gateways it went past, and has the list behind it when  *)
(* it returns.                                                              *)
Lifecycle ==
    /\ telegram.running => telegram.pc # "off"
    /\ \A g \in Kinds : ~ Quiet(g) =>
          \E i \in 1 .. Len(setup.gateways) : setup.gateways[i] = g
    /\ ~ server.stray /\ ~ telegram.held => telegram.pc = "off"
    /\ ~ server.wanted /\ ~ server.crossed => server.start = 0
    /\ ~ server.wanted /\ ~ server.crossed /\ ~ server.stray =>
          IF server.stop = 0 THEN \A g \in Kinds : Quiet(g)
          ELSE \A i \in 1 .. Len(setup.gateways) :
                  i < server.stop => Quiet(setup.gateways[i])

(* What Telegram forgot is handled; so is what is before the poller's       *)
(* offset, but for the update in hand; and a batch goes on where the        *)
(* handled updates end.                                                     *)
InHand ==
    /\ 1 .. platform.confirmed \subseteq handled
    /\ telegram.pc \in {"poll", "sleep", "batch"} =>
          1 .. telegram.offset - 1 \subseteq handled
    /\ telegram.pc \in {"batch", "handle"} =>
          \A i \in 1 .. Len(telegram.batch) :
              /\ telegram.batch[i] = telegram.batch[1] + i - 1
              /\ 1 .. telegram.batch[1] - 1 \subseteq handled
    /\ telegram.pc = "handle" => /\ telegram.batch # << >>
                                  /\ telegram.offset = Update + 1

(* The Map of the observer has each key once.                               *)
Once(cache) == \A i, j \in 1 .. Len(cache) : cache[i] = cache[j] => i = j

KeysOnce == Once(progress.bindings)

(* The calls that hold a claim of k.                                        *)
Claiming == {"resolve", "send", "failed"}

Claimants(k) ==
    {c \in Calls : /\ c \in DOMAIN setup.progress /\ KeyOf(c) = k
                   /\ progress.stage[c] \in Claiming}

HeldIn(cache, k) == IF Bound(cache, k) THEN 1 ELSE 0

Held(k) == HeldIn(progress.bindings, k)

(* Each message of k, and each call that may still post one or give up its  *)
(* claim, has the binding of k or an excuse of its own.                     *)
Paid ==
    \A k \in Events : posts[k] + Cardinality(Claimants(k)) <= excused[k] + Held(k)

GInv == Types /\ Lifecycle /\ InHand /\ KeysOnce /\ Paid

-----------------------------------------------------------------------------
(* A dispatch is a call of the mutex.                                       *)

(* Every gateway reaches the mutex through Submit, and every step of a      *)
(* dispatch is a step of its call.                                          *)
LEMMA MutexStep == GatewaysNext => [Next]_vars
<1> SUFFICES ASSUME GatewaysNext PROVE [Next]_vars
  OBVIOUS
<1> USE DEF mutexVars
<1>1. CASE CallListener
  <2>1. \E t \in Tasks : Submit(t)
    BY <1>1 DEF CallListener, NextDispatch, Copies, Dispatch
  <2> QED
    BY <2>1 DEF Next
<1>2. CASE ServerStep
  BY <1>2 DEF ServerStep, CallStart, CallStop, CallReturns, StartTelegram,
     StartFails, StartDiscord, StartCron, StopTelegram, TelegramStopped,
     StopDiscord, StopCron
<1>3. CASE UpdateArrives \/ PollFails \/ MessageComes
  BY <1>3 DEF UpdateArrives, PollFails, MessageComes
<1>4. CASE PollerStep
  <2>1. CASE HandleUpdate
    <3>1. \E t \in Tasks : Submit(t)
      BY <2>1 DEF HandleUpdate, NextDispatch, Copies, Dispatch
    <3> QED
      BY <3>1 DEF Next
  <2>2. CASE PollAnswered \/ Wake \/ DropUpdate \/ EndBatch \/ UpdateHandled
    BY <2>2 DEF PollAnswered, Wake, DropUpdate, EndBatch, UpdateHandled
  <2> QED
    BY <1>4, <2>1, <2>2 DEF PollerStep
<1>5. CASE CronStep
  <2>1. CASE CronFires
    <3>1. \E t \in Tasks : Submit(t)
      BY <2>1 DEF CronFires, NextDispatch, Copies, Dispatch
    <3> QED
      BY <3>1 DEF Next
  <2>2. CASE CronSkips \/ CronEmitEnds
    BY <2>2 DEF CronSkips, CronEmitEnds
  <2> QED
    BY <1>5, <2>1, <2>2 DEF CronStep
<1>6. CASE ProgressStep
  BY <1>6 DEF ProgressStep, Claim, ResolveChannel, PostProgress, EndProgress,
     BindingExpires
<1>7. CASE \E t \in Tasks : DispatchStep(t)
  BY <1>7 DEF DispatchStep, Next
<1> QED
  BY <1>1, <1>2, <1>3, <1>4, <1>5, <1>6, <1>7 DEF GatewaysNext

(* The gateways implement the mutex: whatever platforms, clocks and the     *)
(* server do, the dispatches behave as calls of run(key, fn).               *)
THEOREM GatewaysRunTheMutex == GatewaysSpec => Spec
<1>1. GatewaysInit => Init
  BY DEF GatewaysInit
<1>2. [GatewaysNext]_<< vars, gatewayVars >> => [Next]_vars
  BY MutexStep
<1> QED
  BY <1>1, <1>2, PTL DEF GatewaysSpec, Spec

(* Two dispatches of one conversation are never inside the runtime          *)
(* together, whichever gateways they come from.                             *)
THEOREM GatewaysExclude == GatewaysSpec => []MutualExclusion
  BY GatewaysRunTheMutex, MutexExcludes, PTL

(* The dispatches of a conversation enter in the order in which the         *)
(* gateways made them.                                                      *)
THEOREM GatewaysKeepOrder == GatewaysSpec => []SubmissionOrder
  BY GatewaysRunTheMutex, MutexKeepsOrder, PTL

(* The map of conversation locks holds an entry exactly while a dispatch of *)
(* the conversation is pending.                                             *)
THEOREM GatewaysMapDrains == GatewaysSpec => []MapDrains
  BY GatewaysRunTheMutex, MutexMapDrains, PTL

-----------------------------------------------------------------------------
(* The cache of the progress observer.                                      *)

(* A key is bound exactly when it is at a place of the cache.               *)
LEMMA BoundAt ==
    ASSUME NEW cache \in Seq(Events), NEW k
    PROVE  Bound(cache, k) <=> \E i \in 1 .. Len(cache) : cache[i] = k
  BY DEF Bound

(* Deleting a key leaves the others, each once.                             *)
LEMMA WithoutKeeps ==
    ASSUME NEW cache \in Seq(Events), Once(cache), NEW k
    PROVE  /\ Without(cache, k) \in Seq(Events) /\ Once(Without(cache, k))
           /\ \A j : Bound(Without(cache, k), j) <=> Bound(cache, j) /\ j # k
<1> DEFINE at == {i \in DOMAIN cache : cache[i] = k}
<1>1. CASE at = {}
  <2>1. Without(cache, k) = cache
    BY <1>1 DEF Without
  <2> QED
    BY <1>1, <2>1 DEF Bound
<1>2. CASE at # {}
  <2> DEFINE p == CHOOSE i \in at : TRUE
             n == Len(cache)
             before == SubSeq(cache, 1, p - 1)
             after == SubSeq(cache, p + 1, n)
             rest == before \o after
  <2>1. Without(cache, k) = rest
    BY <1>2 DEF Without, RemoveAt
  <2>2. p \in at
    BY <1>2
  <2>3. n \in Nat /\ p \in 1 .. n /\ cache[p] = k
    BY <2>2
  <2> HIDE DEF p, n
  <2>4. before \in Seq(Events) /\ Len(before) = p - 1
        /\ \A i \in 1 .. p - 1 : before[i] = cache[i]
    BY <2>3 DEF n
  <2>5. after \in Seq(Events) /\ Len(after) = n - p
        /\ \A i \in 1 .. n - p : after[i] = cache[p + i]
    BY <2>3 DEF n
  <2> HIDE DEF before, after
  <2>6. rest \in Seq(Events) /\ Len(rest) = n - 1
    <3>0. before \in Seq(Events) /\ after \in Seq(Events)
      BY <2>4, <2>5
    <3>1. rest \in Seq(Events) /\ Len(rest) = Len(before) + Len(after)
      BY <3>0
    <3>2. (p - 1) + (n - p) = n - 1
      BY <2>3
    <3> HIDE DEF rest
    <3> QED
      BY <2>4, <2>5, <3>1, <3>2
  <2>7. \A i \in 1 .. n - 1 : rest[i] = cache[IF i < p THEN i ELSE i + 1]
    <3> SUFFICES ASSUME NEW i \in 1 .. n - 1
                 PROVE  rest[i] = cache[IF i < p THEN i ELSE i + 1]
      OBVIOUS
    <3>1. CASE i < p
      <4>1. i \in 1 .. Len(before) /\ rest[i] = before[i]
        BY <2>3, <2>4, <2>5, <3>1
      <4> QED
        BY <2>4, <3>1, <4>1
    <3>2. CASE ~ i < p
      <4>1. i - (p - 1) \in 1 .. n - p
        BY <2>3, <3>2
      <4>2. rest[i] = after[i - (p - 1)]
        BY <2>3, <2>4, <2>5, <3>2
      <4>3. p + (i - (p - 1)) = i + 1
        BY <2>3
      <4> QED
        BY <2>5, <3>2, <4>1, <4>2, <4>3
    <3> QED
      BY <3>1, <3>2
  <2> HIDE DEF rest
  <2>8. \A i, j \in 1 .. n : cache[i] = cache[j] => i = j
    BY DEF Once, n
  <2>9. Once(rest)
    BY <2>3, <2>6, <2>7, <2>8 DEF Once
  <2>10. ASSUME NEW j PROVE Bound(rest, j) <=> Bound(cache, j) /\ j # k
    <3>1. ASSUME Bound(rest, j) PROVE Bound(cache, j) /\ j # k
      <4>1. PICK i \in 1 .. n - 1 : rest[i] = j
        BY <2>6, <3>1, BoundAt
      <4> DEFINE q == IF i < p THEN i ELSE i + 1
      <4>2. q \in 1 .. n /\ q # p /\ cache[q] = j
        BY <2>3, <2>7, <4>1
      <4> QED
        BY <2>3, <2>8, <4>2, BoundAt DEF n
    <3>2. ASSUME Bound(cache, j), j # k PROVE Bound(rest, j)
      <4>1. PICK q \in 1 .. n : cache[q] = j
        BY <3>2, BoundAt DEF n
      <4>2. q # p
        BY <2>3, <3>2, <4>1
      <4> DEFINE i == IF q < p THEN q ELSE q - 1
      <4>3. i \in 1 .. n - 1 /\ rest[i] = j
        BY <2>3, <2>7, <4>1, <4>2
      <4> QED
        BY <2>6, <4>3, BoundAt
    <3> QED
      BY <3>1, <3>2
  <2> QED
    BY <2>1, <2>6, <2>9, <2>10
<1> QED
  BY <1>1, <1>2

(* Storing a key keeps each key once.                                       *)
LEMMA StoredKeeps ==
    ASSUME NEW cache \in Seq(Events), Once(cache), NEW k \in Events,
           setup \in Setups
    PROVE  Stored(cache, k) \in Seq(Events) /\ Once(Stored(cache, k))
<1>1. CASE Bound(cache, k)
  BY <1>1 DEF Stored
<1>2. CASE ~ Bound(cache, k)
  <2> DEFINE longer == Append(cache, k)
             n == Len(longer)
             m == setup.maxEntries
  <2>1. longer \in Seq(Events) /\ n \in Nat /\ n = Len(cache) + 1
    OBVIOUS
  <2>2. m \in Nat
    BY GatewaysAssumption
  <2>3. Once(longer)
    <3>1. \A i \in 1 .. Len(cache) : longer[i] = cache[i] /\ cache[i] # k
      BY <1>2, BoundAt
    <3>2. longer[n] = k
      OBVIOUS
    <3> HIDE DEF longer
    <3> QED
      BY <2>1, <3>1, <3>2 DEF Once
  <2>4. Stored(cache, k) = IF n <= m THEN longer
                                     ELSE SubSeq(longer, n - m + 1, n)
    BY <1>2 DEF Stored, Pruned
  <2> HIDE DEF longer, m
  <2>5. CASE n <= m
    BY <2>1, <2>3, <2>4, <2>5
  <2>6. CASE ~ n <= m
    <3> DEFINE kept == SubSeq(longer, n - m + 1, n)
    <3>1. kept \in Seq(Events) /\ Len(kept) = m
          /\ \A i \in 1 .. m : kept[i] = longer[n - m + i]
      BY <2>1, <2>2, <2>6
    <3> HIDE DEF kept, n
    <3>2. Once(kept)
      <4> SUFFICES ASSUME NEW i \in 1 .. m, NEW j \in 1 .. m, kept[i] = kept[j]
                   PROVE  i = j
        BY <3>1 DEF Once
      <4>1. n - m + i \in 1 .. n /\ n - m + j \in 1 .. n
        BY <2>1, <2>2, <2>6
      <4>2. longer[n - m + i] = longer[n - m + j]
        BY <3>1
      <4>3. n - m + i = n - m + j
        BY <2>3, <4>1, <4>2 DEF Once, n
      <4> QED
        BY <2>1, <2>2, <4>3
    <3>3. Stored(cache, k) = kept
      BY <2>4, <2>6 DEF kept
    <3> QED
      BY <3>1, <3>2, <3>3
  <2> QED
    BY <2>5, <2>6
<1> QED
  BY <1>1, <1>2

-----------------------------------------------------------------------------
(* The invariant is inductive.                                              *)

(* Nothing has been started, sent or claimed at the start.                  *)
LEMMA InitGInv == GatewaysInit => GInv
<1> SUFFICES ASSUME GatewaysInit PROVE GInv
  OBVIOUS
<1> USE DEF GatewaysInit
<1>1. Types
  <2>1. progress \in [bindings: Seq(Events), stage: [Calls -> Stages]]
    BY DEF Stages
  <2>2. telegram \in Poller /\ server \in Server
    BY DEF PollerPhases, Poller, Server
  <2> QED
    BY <2>1, <2>2 DEF Types
<1>2. Lifecycle
  BY DEF Lifecycle, Quiet
<1>3. InHand
  BY DEF InHand
<1>4. KeysOnce
  BY DEF KeysOnce, Once
<1>5. Paid
  <2> SUFFICES ASSUME NEW k \in Events
               PROVE  posts[k] + Cardinality(Claimants(k)) <= excused[k] + Held(k)
    BY DEF Paid
  <2>1. Claimants(k) = {}
    BY DEF Claimants, Claiming
  <2>2. Cardinality(Claimants(k)) = 0
    BY <2>1, FS_EmptySet, Zenon
  <2>3. posts[k] = 0 /\ excused[k] = 0 /\ Held(k) \in {0, 1}
    BY DEF Held, HeldIn
  <2> QED
    BY <2>2, <2>3
<1> QED
  BY <1>1, <1>2, <1>3, <1>4, <1>5 DEF GInv

(* What a step leaves alone.                                                *)
LEMMA LifecycleFrame ==
    ASSUME Lifecycle, UNCHANGED << setup, server, telegram, discord, cron >>
    PROVE  Lifecycle'
  BY DEF Lifecycle, Quiet

LEMMA InHandFrame ==
    ASSUME InHand, UNCHANGED << telegram, platform, handled >>
    PROVE  InHand'
  BY DEF InHand, Update

LEMMA ProgressFrame ==
    ASSUME KeysOnce, Paid, UNCHANGED << setup, progress, posts, excused >>
    PROVE  KeysOnce' /\ Paid'
<1>1. KeysOnce'
  BY DEF KeysOnce
<1>2. Paid'
  BY DEF Paid, Claimants, KeyOf, Held, HeldIn, Bound
<1> QED
  BY <1>1, <1>2

(* A step of a dispatch, or a listener that makes one, leaves the gateways  *)
(* as they are; a message that comes is not yet dispatched.                 *)
LEMMA DispatchKeeps ==
    ASSUME GInv, CallListener \/ MessageComes \/ \E t \in Tasks : DispatchStep(t)
    PROVE  GInv'
<1> USE DEF GInv
<1>1. UNCHANGED << setup, server, telegram, platform, cron, progress, handled,
                   posts, excused, failures >>
  BY DEF CallListener, MessageComes, DispatchStep, gatewayVars
<1>2. /\ discord' \in [connected: BOOLEAN, listeners: Nat, came: SUBSET Events]
      /\ discord'.connected = discord.connected
  <2>1. CASE MessageComes
    <3>1. PICK e \in setup.messages :
             discord' = [discord EXCEPT !.came = @ \cup {e}]
      BY <2>1 DEF MessageComes
    <3>2. e \in Events
      BY GatewaysAssumption DEF Types
    <3> QED
      BY <3>1, <3>2 DEF Types
  <2>2. CASE CallListener \/ \E t \in Tasks : DispatchStep(t)
    BY <2>2 DEF CallListener, DispatchStep, gatewayVars, Types
  <2> QED
    BY <2>1, <2>2
<1>3. Types'
  BY <1>1, <1>2 DEF Types
<1>4. Lifecycle'
  BY <1>1, <1>2 DEF Lifecycle, Quiet
<1> QED
  BY <1>1, <1>3, <1>4, InHandFrame, ProgressFrame

(* CallStart, CallStop and a start that fails change the server only, and   *)
(* the listeners of the client.                                             *)
LEMMA CallKeeps ==
    ASSUME GInv, CallStart \/ CallStop \/ StartFails
    PROVE  GInv'
<1> USE DEF GInv
<1>1. /\ UNCHANGED << setup, telegram, platform, cron, progress, handled, posts,
                      excused >>
      /\ server \in Server /\ failures \in Nat
  BY DEF CallStart, CallStop, StartFails, Types
<1>2. /\ discord' \in [connected: BOOLEAN, listeners: Nat, came: SUBSET Events]
      /\ discord'.connected = discord.connected
  <2>1. CASE StartFails
    <3>1. discord.listeners + 1 \in Nat
      BY DEF Types
    <3>2. discord' = discord \/ discord' = [discord EXCEPT !.listeners = @ + 1]
      BY <2>1 DEF StartFails
    <3> QED
      BY <3>1, <3>2 DEF Types
  <2>2. CASE CallStart \/ CallStop
    BY <2>2 DEF CallStart, CallStop, Types
  <2> QED
    BY <2>1, <2>2
<1>3. /\ server' \in Server /\ failures' \in Nat
      /\ server'.stray = server.stray
      /\ \/ server'.wanted
         \/ ~ server'.wanted /\ server'.stop = 1 /\ server'.start = server.start
            /\ server'.crossed = (server.start # 0)
         \/ /\ server'.wanted = server.wanted /\ server'.stop = server.stop
            /\ server'.crossed = server.crossed /\ server'.start = 0
  <2>0. server.starts + 1 \in Nat /\ server.stops + 1 \in Nat /\ failures + 1 \in Nat
    BY <1>1 DEF Server
  <2>1. CASE CallStart
    <3>1. /\ server' = [server EXCEPT !.start = 1, !.wanted = TRUE,
                                      !.starts = server.starts + 1]
          /\ failures' = failures
      BY <2>1 DEF CallStart
    <3> QED
      BY <1>1, <2>0, <3>1 DEF Server
  <2>2. CASE CallStop
    <3>1. /\ server' = [server EXCEPT !.stop = 1, !.wanted = FALSE,
                                      !.crossed = server.start # 0,
                                      !.stops = server.stops + 1]
          /\ failures' = failures
      BY <2>2 DEF CallStop
    <3> QED
      BY <1>1, <2>0, <3>1 DEF Server
  <2>3. CASE StartFails
    <3>1. server' = [server EXCEPT !.start = 0] /\ failures' = failures + 1
      BY <2>3 DEF StartFails
    <3> QED
      BY <1>1, <2>0, <3>1 DEF Server
  <2> QED
    BY <2>1, <2>2, <2>3
<1>4. Types'
  BY <1>1, <1>2, <1>3 DEF Types
<1>5. \A g \in Kinds : Quiet(g)' <=> Quiet(g)
  BY <1>1, <1>2 DEF Quiet
<1>6. setup.gateways \in Seq(Kinds) /\ setup' = setup
  BY <1>1, GatewaysAssumption DEF Types, Kinds
<1>7. ASSUME NEW i \in 1 .. Len(setup.gateways)
      PROVE  Quiet(setup.gateways[i])' <=> Quiet(setup.gateways[i])
  <2>1. setup.gateways[i] \in Kinds
    BY <1>6
  <2>2. setup'.gateways[i] = setup.gateways[i]
    BY <1>6
  <2> QED
    BY <1>5, <2>1, <2>2 DEF Quiet
<1>8. Lifecycle'
  <2> SUFFICES /\ telegram'.running => telegram'.pc # "off"
               /\ \A g \in Kinds : ~ Quiet(g)' =>
                     \E i \in 1 .. Len(setup'.gateways) : setup'.gateways[i] = g
               /\ ~ server'.stray /\ ~ telegram'.held => telegram'.pc = "off"
               /\ ~ server'.wanted /\ ~ server'.crossed => server'.start = 0
               /\ ~ server'.wanted /\ ~ server'.crossed /\ ~ server'.stray =>
                     IF server'.stop = 0 THEN \A g \in Kinds : Quiet(g)'
                     ELSE \A i \in 1 .. Len(setup'.gateways) :
                             i < server'.stop => Quiet(setup.gateways[i])'
    BY <1>6 DEF Lifecycle
  <2>1. /\ telegram'.running => telegram'.pc # "off"
        /\ ~ server'.stray /\ ~ telegram'.held => telegram'.pc = "off"
        /\ ~ server'.wanted /\ ~ server'.crossed => server'.start = 0
    BY <1>1, <1>3 DEF Lifecycle
  <2>2. \A g \in Kinds : ~ Quiet(g)' =>
           \E i \in 1 .. Len(setup'.gateways) : setup'.gateways[i] = g
    BY <1>5, <1>6 DEF Lifecycle
  <2>3. ASSUME ~ server'.wanted, ~ server'.crossed, ~ server'.stray
        PROVE  IF server'.stop = 0 THEN \A g \in Kinds : Quiet(g)'
               ELSE \A i \in 1 .. Len(setup'.gateways) :
                       i < server'.stop => Quiet(setup.gateways[i])'
    BY <1>3, <1>5, <1>6, <1>7, <2>3 DEF Lifecycle
  <2> QED
    BY <2>1, <2>2, <2>3
<1> QED
  BY <1>1, <1>4, <1>8, InHandFrame, ProgressFrame

(* When stop() returns it went past every gateway of the list.              *)
LEMMA ReturnKeeps ==
    ASSUME GInv, CallReturns
    PROVE  GInv'
<1> USE DEF GInv
<1>1. /\ UNCHANGED << setup, telegram, platform, discord, cron, progress, handled,
                      posts, excused, failures >>
      /\ server \in Server
  BY DEF CallReturns, Types
<1>2. Len(setup.gateways) \in Nat
  BY GatewaysAssumption DEF Types
<1>3. \A g \in Kinds : Quiet(g)' <=> Quiet(g)
  BY <1>1 DEF Quiet
<1>4. CASE server.start > Len(setup.gateways) /\ server' = [server EXCEPT !.start = 0]
  <2>1. /\ server' \in Server /\ server'.start = 0 /\ server'.stop = server.stop
        /\ server'.wanted = server.wanted /\ server'.crossed = server.crossed
        /\ server'.stray = server.stray
    BY <1>1, <1>4 DEF Server
  <2>2. Types'
    BY <1>1, <2>1 DEF Types
  <2>3. Lifecycle'
    BY <1>1, <2>1 DEF Lifecycle, Quiet
  <2> QED
    BY <1>1, <2>2, <2>3, InHandFrame, ProgressFrame
<1>5. CASE server.stop > Len(setup.gateways) /\ server' = [server EXCEPT !.stop = 0]
  <2>1. /\ server' \in Server /\ server'.stop = 0 /\ server'.start = server.start
        /\ server'.wanted = server.wanted /\ server'.crossed = server.crossed
        /\ server'.stray = server.stray /\ server.stop \in Nat
    BY <1>1, <1>5 DEF Server
  <2>2. Types'
    BY <1>1, <2>1 DEF Types
  <2>3. ASSUME ~ server.wanted, ~ server.crossed, ~ server.stray,
               NEW g \in Kinds, ~ Quiet(g)
        PROVE  FALSE
    <3>1. PICK i \in 1 .. Len(setup.gateways) : setup.gateways[i] = g
      BY <2>3 DEF Lifecycle
    <3>2. i < server.stop /\ server.stop # 0
      BY <1>2, <1>5, <2>1
    <3>3. Quiet(setup.gateways[i])
      BY <2>3, <3>2 DEF Lifecycle
    <3> QED
      BY <2>3, <3>1, <3>3
  <2>4. Lifecycle'
    <3>1. \A g \in Kinds : ~ Quiet(g)' =>
             \E i \in 1 .. Len(setup'.gateways) : setup'.gateways[i] = g
      BY <1>1, <1>3 DEF Lifecycle
    <3>2. ~ server'.wanted /\ ~ server'.crossed /\ ~ server'.stray =>
             \A g \in Kinds : Quiet(g)'
      BY <1>3, <2>1, <2>3
    <3> QED
      BY <1>1, <2>1, <3>1, <3>2 DEF Lifecycle
  <2> QED
    BY <1>1, <2>2, <2>4, InHandFrame, ProgressFrame
<1> QED
  BY <1>4, <1>5 DEF CallReturns

(* The gateway a call is at is one of the list.                             *)
LEMMA GatewayAt ==
    ASSUME Types, NEW at \in Nat, NEW g, Reaches(at, g)
    PROVE  /\ at \in 1 .. Len(setup.gateways) /\ setup.gateways[at] = g
           /\ at # 0 /\ Len(setup.gateways) \in Nat /\ g \in Kinds
<1>1. setup.gateways \in Seq(Kinds)
  BY GatewaysAssumption DEF Types, Kinds
<1> QED
  BY <1>1 DEF Reaches

(* A start touches one gateway, and a new poller is without an offset and a *)
(* batch.  A stop that a start crosses promises nothing.                    *)
LEMMA StartKeeps ==
    ASSUME GInv, StartTelegram \/ StartDiscord \/ StartCron
    PROVE  GInv'
<1> USE DEF GInv
<1>0. UNCHANGED << setup, platform, progress, handled, posts, excused, failures >>
  BY DEF StartTelegram, StartDiscord, StartCron
<1>1. /\ UNCHANGED << setup, platform, progress, handled, posts, excused, failures >>
      /\ server \in Server /\ server.start \in Nat /\ server.start + 1 \in Nat
  BY <1>0 DEF Types, Server
<1>2. PICK g \in Kinds, stray \in BOOLEAN :
         /\ Reaches(server.start, g)
         /\ server' = [server EXCEPT !.start = server.start + 1, !.stray = stray]
         /\ server.stray => stray
         /\ g # "telegram" => telegram' = telegram
         /\ g # "discord" => discord' = discord
         /\ g # "cron" => cron' = cron
         /\ g = "telegram" =>
               telegram' = [pc |-> "poll", running |-> TRUE, held |-> TRUE,
                            offset |-> 0, batch |-> << >>]
         /\ g = "discord" =>
               discord' = [discord EXCEPT !.connected = TRUE, !.listeners = @ + 1]
         /\ g = "cron" =>
               cron' = [armed |-> setup.jobs, stopped |-> FALSE, inFlight |-> {}]
  <2>1. CASE StartTelegram
    <3> DEFINE stray == server.stray \/ (telegram.held /\ telegram.running)
    <3>1. /\ Reaches(server.start, "telegram")
          /\ server' = [server EXCEPT !.start = server.start + 1, !.stray = stray]
          /\ stray \in BOOLEAN /\ (server.stray => stray)
          /\ discord' = discord /\ cron' = cron
          /\ telegram' = [pc |-> "poll", running |-> TRUE, held |-> TRUE,
                          offset |-> 0, batch |-> << >>]
      BY <2>1 DEF StartTelegram, Started
    <3> HIDE DEF stray
    <3> QED
      BY <3>1, "telegram" \in Kinds DEF Kinds
  <2>2. CASE StartDiscord
    <3> DEFINE stray == server.stray \/ FALSE
    <3>1. /\ Reaches(server.start, "discord")
          /\ server' = [server EXCEPT !.start = server.start + 1, !.stray = stray]
          /\ stray \in BOOLEAN /\ (server.stray => stray)
          /\ telegram' = telegram /\ cron' = cron
          /\ discord' = [discord EXCEPT !.connected = TRUE, !.listeners = @ + 1]
      BY <2>2 DEF StartDiscord, Started
    <3> HIDE DEF stray
    <3> QED
      BY <3>1, "discord" \in Kinds DEF Kinds
  <2>3. CASE StartCron
    <3> DEFINE stray == server.stray \/ cron.armed # {}
    <3>1. /\ Reaches(server.start, "cron")
          /\ server' = [server EXCEPT !.start = server.start + 1, !.stray = stray]
          /\ stray \in BOOLEAN /\ (server.stray => stray)
          /\ telegram' = telegram /\ discord' = discord
          /\ cron' = [armed |-> setup.jobs, stopped |-> FALSE, inFlight |-> {}]
      BY <2>3 DEF StartCron, Started
    <3> HIDE DEF stray
    <3> QED
      BY <3>1, "cron" \in Kinds DEF Kinds
  <2> QED
    BY <2>1, <2>2, <2>3
<1>3. /\ server' \in Server /\ server'.stray = stray /\ server'.stop = server.stop
      /\ server'.wanted = server.wanted /\ server'.crossed = server.crossed
  BY <1>1, <1>2 DEF Server
<1>4. telegram' \in Poller
  <2>1. 0 \in Nat /\ << >> \in Seq(Nat)
    OBVIOUS
  <2>2. CASE g = "telegram"
    <3>1. [pc |-> "poll", running |-> TRUE, held |-> TRUE, offset |-> 0,
           batch |-> << >>] \in Poller
      BY <2>1 DEF Poller, PollerPhases
    <3>2. telegram' = [pc |-> "poll", running |-> TRUE, held |-> TRUE,
                       offset |-> 0, batch |-> << >>]
      BY <1>2, <2>2
    <3> QED
      BY <3>1, <3>2, Zenon
  <2> QED
    BY <1>2, <2>2 DEF Types
<1>5. discord' \in [connected: BOOLEAN, listeners: Nat, came: SUBSET Events]
  <2>1. discord.listeners + 1 \in Nat
    BY DEF Types
  <2>2. CASE g = "discord"
    BY <1>2, <2>1, <2>2 DEF Types
  <2> QED
    BY <1>2, <2>2 DEF Types
<1>6. cron' \in [armed: SUBSET Events, stopped: BOOLEAN, inFlight: SUBSET Tasks]
  <2>1. setup.jobs \subseteq Events
    BY GatewaysAssumption DEF Types
  <2>2. CASE g = "cron"
    <3>1. [armed |-> setup.jobs, stopped |-> FALSE, inFlight |-> {}]
            \in [armed: SUBSET Events, stopped: BOOLEAN, inFlight: SUBSET Tasks]
      BY <2>1
    <3>2. cron' = [armed |-> setup.jobs, stopped |-> FALSE, inFlight |-> {}]
      BY <1>2, <2>2
    <3> QED
      BY <3>1, <3>2, Zenon
  <2> QED
    BY <1>2, <2>2 DEF Types
<1>7. Types'
  BY <1>1, <1>3, <1>4, <1>5, <1>6 DEF Types
<1>8. /\ telegram'.running => telegram'.pc # "off"
      /\ ~ stray /\ ~ telegram'.held => telegram'.pc = "off"
  BY <1>2 DEF Lifecycle
<1>9. server.wanted \/ server.crossed
  <2>1. server.start # 0
    BY <1>1, <1>2, GatewayAt
  <2> QED
    BY <2>1 DEF Lifecycle
<1>10. \A h \in Kinds : ~ Quiet(h)' =>
          \E i \in 1 .. Len(setup'.gateways) : setup'.gateways[i] = h
  <2> SUFFICES ASSUME NEW h \in Kinds, ~ Quiet(h)'
               PROVE  \E i \in 1 .. Len(setup.gateways) : setup.gateways[i] = h
    BY <1>1
  <2>1. CASE h = g
    BY <1>1, <1>2, <2>1, GatewayAt
  <2>2. CASE h # g
    <3>1. ~ Quiet(h)
      BY <1>2, <2>2 DEF Quiet
    <3> QED
      BY <3>1 DEF Lifecycle
  <2> QED
    BY <2>1, <2>2
<1>11. Lifecycle'
  BY <1>3, <1>8, <1>9, <1>10 DEF Lifecycle
<1>12. InHand'
  BY <1>1, <1>2 DEF InHand, Update
<1> QED
  BY <1>1, <1>7, <1>11, <1>12, ProgressFrame

(* A stop silences one gateway after another, unless a poller was put in    *)
(* the place of the one it waits for.                                       *)
LEMMA StopKeeps ==
    ASSUME GInv, TelegramStopped \/ StopDiscord \/ StopCron
    PROVE  GInv'
<1> USE DEF GInv
<1>0. UNCHANGED << setup, platform, progress, handled, posts, excused, failures >>
  BY DEF TelegramStopped, StopDiscord, StopCron
<1>1. /\ UNCHANGED << setup, platform, progress, handled, posts, excused, failures >>
      /\ server \in Server /\ server.stop \in Nat /\ server.stop + 1 \in Nat
      /\ telegram \in Poller
  BY <1>0 DEF Types, Server
<1>2. PICK g \in Kinds, stray \in BOOLEAN :
         /\ Reaches(server.stop, g)
         /\ server' = [server EXCEPT !.stop = server.stop + 1, !.waits = FALSE,
                                     !.stray = stray]
         /\ server.stray => stray
         /\ g = "telegram" => /\ telegram' = [telegram EXCEPT !.held = FALSE]
                              /\ telegram.running => stray
                              /\ telegram.held => telegram.running \/ telegram.pc = "off"
         /\ g # "telegram" => telegram' = telegram
         /\ g # "discord" => discord' = discord
         /\ g # "cron" => cron' = cron
         /\ g = "discord" => discord' = [discord EXCEPT !.connected = FALSE]
         /\ g = "cron" =>
               cron' = [cron EXCEPT !.armed = {}, !.stopped = TRUE]
  <2>1. CASE TelegramStopped
    <3> DEFINE stray == server.stray \/ telegram.running
    <3>1. /\ Reaches(server.stop, "telegram")
          /\ server' = [server EXCEPT !.stop = server.stop + 1, !.waits = FALSE,
                                      !.stray = stray]
          /\ stray \in BOOLEAN /\ (server.stray => stray)
          /\ telegram.running => stray
          /\ telegram.held => telegram.running \/ telegram.pc = "off"
          /\ discord' = discord /\ cron' = cron
          /\ telegram' = [telegram EXCEPT !.held = FALSE]
      BY <2>1 DEF TelegramStopped, Stopped
    <3> HIDE DEF stray
    <3> QED
      BY <3>1, "telegram" \in Kinds DEF Kinds
  <2>2. CASE StopDiscord
    <3> DEFINE stray == server.stray \/ FALSE
    <3>1. /\ Reaches(server.stop, "discord")
          /\ server' = [server EXCEPT !.stop = server.stop + 1, !.waits = FALSE,
                                      !.stray = stray]
          /\ stray \in BOOLEAN /\ (server.stray => stray)
          /\ telegram' = telegram /\ cron' = cron
          /\ discord' = [discord EXCEPT !.connected = FALSE]
      BY <2>2 DEF StopDiscord, Stopped
    <3> HIDE DEF stray
    <3> QED
      BY <3>1, "discord" \in Kinds DEF Kinds
  <2>3. CASE StopCron
    <3> DEFINE stray == server.stray \/ FALSE
    <3>1. /\ Reaches(server.stop, "cron")
          /\ server' = [server EXCEPT !.stop = server.stop + 1, !.waits = FALSE,
                                      !.stray = stray]
          /\ stray \in BOOLEAN /\ (server.stray => stray)
          /\ telegram' = telegram /\ discord' = discord
          /\ cron' = [cron EXCEPT !.armed = {}, !.stopped = TRUE]
      BY <2>3 DEF StopCron, Stopped
    <3> HIDE DEF stray
    <3> QED
      BY <3>1, "cron" \in Kinds DEF Kinds
  <2> QED
    BY <2>1, <2>2, <2>3
<1>3. /\ server' \in Server /\ server'.stray = stray
      /\ server'.stop = server.stop + 1 /\ server'.start = server.start
      /\ server'.wanted = server.wanted /\ server'.crossed = server.crossed
  BY <1>1, <1>2 DEF Server
<1>4. /\ telegram' \in Poller /\ telegram'.pc = telegram.pc
      /\ telegram'.running = telegram.running /\ telegram'.offset = telegram.offset
      /\ telegram'.batch = telegram.batch
      /\ telegram'.held = IF g = "telegram" THEN FALSE ELSE telegram.held
  BY <1>1, <1>2 DEF Poller
<1>5. discord' \in [connected: BOOLEAN, listeners: Nat, came: SUBSET Events]
  BY <1>2 DEF Types
<1>6. cron' \in [armed: SUBSET Events, stopped: BOOLEAN, inFlight: SUBSET Tasks]
  BY <1>2 DEF Types
<1>7. Types'
  BY <1>1, <1>3, <1>4, <1>5, <1>6 DEF Types
<1>8. \A h \in Kinds : Quiet(h) => Quiet(h)'
  BY <1>2, <1>4 DEF Quiet, Types
<1>9. ~ stray => Quiet(g)'
  <2>1. ASSUME ~ stray, g = "telegram" PROVE telegram.pc = "off"
    BY <1>2, <2>1 DEF Lifecycle
  <2> QED
    BY <1>2, <1>4, <2>1 DEF Quiet, Types
<1>10. /\ server.stop \in 1 .. Len(setup.gateways)
       /\ setup.gateways[server.stop] = g
       /\ server.stop # 0 /\ Len(setup.gateways) \in Nat
       /\ setup.gateways \in Seq(Kinds)
  BY <1>1, <1>2, GatewayAt, GatewaysAssumption DEF Types, Kinds
<1>11. ASSUME ~ server'.wanted, ~ server'.crossed, ~ server'.stray,
              NEW i \in 1 .. Len(setup.gateways), i < server'.stop
       PROVE  Quiet(setup.gateways[i])'
  <2>1. setup.gateways[i] \in Kinds /\ setup'.gateways[i] = setup.gateways[i]
    BY <1>1, <1>10
  <2>2. CASE i = server.stop
    BY <1>3, <1>9, <1>10, <1>11, <2>1, <2>2 DEF Quiet
  <2>3. CASE i # server.stop
    <3>1. i < server.stop
      BY <1>1, <1>3, <1>10, <1>11, <2>3
    <3>2. Quiet(setup.gateways[i])
      BY <1>2, <1>3, <1>10, <1>11, <3>1 DEF Lifecycle
    <3> QED
      BY <1>8, <2>1, <3>2 DEF Quiet
  <2> QED
    BY <2>2, <2>3
<1>12. Lifecycle'
  <2>1. /\ telegram'.running => telegram'.pc # "off"
        /\ ~ server'.wanted /\ ~ server'.crossed => server'.start = 0
    BY <1>3, <1>4 DEF Lifecycle
  <2>2. ~ server'.stray /\ ~ telegram'.held => telegram'.pc = "off"
    <3>1. CASE g = "telegram"
      BY <1>2, <1>3, <1>4, <1>9, <3>1 DEF Quiet
    <3>2. CASE g # "telegram"
      BY <1>2, <1>3, <1>4, <3>2 DEF Lifecycle
    <3> QED
      BY <3>1, <3>2
  <2>3. \A h \in Kinds : ~ Quiet(h)' =>
           \E i \in 1 .. Len(setup'.gateways) : setup'.gateways[i] = h
    BY <1>1, <1>8 DEF Lifecycle
  <2>4. server'.stop # 0
    BY <1>1, <1>3
  <2>5. ~ server'.wanted /\ ~ server'.crossed /\ ~ server'.stray =>
           \A i \in 1 .. Len(setup'.gateways) :
              i < server'.stop => Quiet(setup.gateways[i])'
    BY <1>1, <1>11
  <2> QED
    BY <1>1, <2>1, <2>2, <2>3, <2>4, <2>5 DEF Lifecycle
<1>13. InHand'
  BY <1>1, <1>4 DEF InHand, Update
<1> QED
  BY <1>1, <1>7, <1>12, <1>13, ProgressFrame

(* A poller that goes on where it was, and that does not come back once it  *)
(* is off, keeps the order of starts and stops.                             *)
LEMMA PollerLifecycle ==
    ASSUME Lifecycle, UNCHANGED << setup, server, discord, cron >>,
           telegram.pc = "off" => telegram'.pc = "off",
           telegram'.running => telegram'.pc # "off", telegram'.held = telegram.held
    PROVE  Lifecycle'
  BY DEF Lifecycle, Quiet

(* The flag of stop() leaves the loop where it is.                          *)
LEMMA FlagKeeps ==
    ASSUME GInv, StopTelegram
    PROVE  GInv'
<1> USE DEF GInv
<1>1. /\ UNCHANGED << setup, platform, discord, cron, progress, handled, posts,
                      excused, failures >>
      /\ telegram' = [telegram EXCEPT !.running = FALSE]
      /\ server' = [server EXCEPT !.waits = TRUE]
      /\ telegram \in Poller /\ server \in Server
  BY DEF StopTelegram, Types
<1>2. /\ server' \in Server /\ server'.start = server.start
      /\ server'.stop = server.stop /\ server'.wanted = server.wanted
      /\ server'.crossed = server.crossed /\ server'.stray = server.stray
  BY <1>1 DEF Server
<1>3. /\ telegram' \in Poller /\ telegram'.pc = telegram.pc
      /\ telegram'.offset = telegram.offset /\ telegram'.batch = telegram.batch
      /\ telegram'.running = FALSE /\ telegram'.held = telegram.held
  BY <1>1 DEF Poller
<1>4. Types'
  BY <1>1, <1>2, <1>3 DEF Types
<1>5. Lifecycle'
  BY <1>1, <1>2, <1>3 DEF Lifecycle, Quiet
<1>6. InHand'
  BY <1>1, <1>3 DEF InHand, Update
<1> QED
  BY <1>1, <1>4, <1>5, <1>6, ProgressFrame

(* An update arrives.                                                       *)
LEMMA ArrivalKeeps ==
    ASSUME GInv, UpdateArrives
    PROVE  GInv'
<1> USE DEF GInv
<1>1. UNCHANGED << setup, server, telegram, discord, cron, progress, handled,
                   posts, excused, failures >>
  BY DEF UpdateArrives
<1>2. platform.sent + 1 \in Nat
  BY DEF Types
<1>3. /\ platform' \in [sent: Nat, confirmed: Nat]
      /\ platform'.confirmed = platform.confirmed
  BY <1>2 DEF UpdateArrives, Types
<1>4. Types'
  BY <1>1, <1>3 DEF Types
<1>5. InHand'
  BY <1>1, <1>3 DEF InHand, Update
<1> QED
  BY <1>1, <1>4, <1>5, LifecycleFrame, ProgressFrame

(* What Telegram forgets on a poll was handled: the offset of a polling     *)
(* loop is past handled updates only.                                       *)
LEMMA ConfirmedFacts ==
    ASSUME Types, InHand, telegram.pc = "poll"
    PROVE  /\ Confirmed \in [sent: Nat, confirmed: Nat]
           /\ Confirmed.sent = platform.sent
           /\ 1 .. Confirmed.confirmed \subseteq handled
<1>1. /\ platform \in [sent: Nat, confirmed: Nat]
      /\ telegram.offset \in Nat /\ platform.confirmed \in Nat
  BY DEF Types, Poller
<1>2. 1 .. platform.confirmed \subseteq handled
  BY DEF InHand
<1>3. 1 .. telegram.offset - 1 \subseteq handled
  BY DEF InHand
<1>4. CASE telegram.offset > platform.confirmed + 1
  <2>1. Confirmed = [platform EXCEPT !.confirmed = telegram.offset - 1]
    BY <1>4 DEF Confirmed
  <2>2. telegram.offset - 1 \in Nat
    BY <1>1, <1>4
  <2>3. /\ Confirmed \in [sent: Nat, confirmed: Nat]
        /\ Confirmed.sent = platform.sent
        /\ Confirmed.confirmed = telegram.offset - 1
    BY <1>1, <2>1, <2>2
  <2> QED
    BY <1>3, <2>3
<1>5. CASE ~ telegram.offset > platform.confirmed + 1
  <2>1. Confirmed = [platform EXCEPT !.confirmed = platform.confirmed]
    BY <1>5 DEF Confirmed
  <2>2. /\ Confirmed \in [sent: Nat, confirmed: Nat]
        /\ Confirmed.sent = platform.sent
        /\ Confirmed.confirmed = platform.confirmed
    BY <1>1, <2>1
  <2> QED
    BY <1>2, <2>2
<1> QED
  BY <1>4, <1>5

(* A poll brings what is not confirmed, in order.                           *)
LEMMA AnswerKeeps ==
    ASSUME GInv, PollAnswered
    PROVE  GInv'
<1> USE DEF GInv
<1>1. UNCHANGED << setup, server, discord, cron, progress, handled, posts,
                   excused, failures >>
  BY DEF PollAnswered
<1>2. telegram \in Poller /\ telegram.pc = "poll" /\ telegram.running
  BY DEF PollAnswered, Types, Poller
<1>3. /\ platform' \in [sent: Nat, confirmed: Nat]
      /\ 1 .. platform'.confirmed \subseteq handled
  BY <1>2, ConfirmedFacts DEF PollAnswered
<1> DEFINE n == platform.sent - platform'.confirmed
           from == platform'.confirmed
           batch == [i \in 1 .. n |-> from + i]
<1>4. from \in Nat /\ n \in Int
  BY <1>3 DEF Types
<1>5. telegram' = [telegram EXCEPT !.pc = "batch", !.batch = batch]
  BY DEF PollAnswered
<1> HIDE DEF n, from
<1>6. /\ batch \in Seq(Nat)
      /\ \A i \in 1 .. Len(batch) : batch[i] = from + i
  <2>1. CASE n \in Nat
    <3>1. batch \in [1 .. n -> Nat]
      BY <1>4, <2>1
    <3>2. batch \in Seq(Nat) /\ Len(batch) = n
      BY <2>1, <3>1
    <3>3. \A i \in 1 .. n : batch[i] = from + i
      OBVIOUS
    <3> HIDE DEF batch
    <3> QED
      BY <3>2, <3>3
  <2>2. CASE n \notin Nat
    <3>1. 1 .. n = {}
      BY <1>4, <2>2
    <3>2. batch = << >>
      BY <3>1
    <3> HIDE DEF batch
    <3> QED
      BY <3>2
  <2> QED
    BY <2>1, <2>2
<1> HIDE DEF batch
<1>7. /\ telegram' \in Poller /\ telegram'.pc = "batch"
      /\ telegram'.offset = telegram.offset /\ telegram'.batch = batch
      /\ telegram'.running = telegram.running /\ telegram'.held = telegram.held
  BY <1>2, <1>5, <1>6 DEF Poller, PollerPhases
<1>8. \A i \in 1 .. Len(batch) :
         /\ batch[i] = batch[1] + i - 1
         /\ 1 .. batch[1] - 1 \subseteq handled
  <2> SUFFICES ASSUME NEW i \in 1 .. Len(batch)
               PROVE  /\ batch[i] = batch[1] + i - 1
                      /\ 1 .. batch[1] - 1 \subseteq handled
    OBVIOUS
  <2>1. batch[i] = from + i
    BY <1>6
  <2>2. batch[1] = from + 1
    BY <1>6
  <2>3. batch[1] - 1 = from
    BY <1>4, <2>2
  <2> QED
    BY <1>3, <1>4, <2>1, <2>2, <2>3 DEF from
<1>9. InHand'
  BY <1>1, <1>2, <1>3, <1>7, <1>8 DEF InHand
<1>10. Types'
  BY <1>1, <1>3, <1>7 DEF Types, Poller
<1>11. Lifecycle'
  BY <1>1, <1>2, <1>7, PollerLifecycle
<1> QED
  BY <1>1, <1>9, <1>10, <1>11, ProgressFrame

(* A poll that fails may have confirmed as well.                            *)
LEMMA FailureKeeps ==
    ASSUME GInv, PollFails
    PROVE  GInv'
<1> USE DEF GInv
<1>1. UNCHANGED << setup, server, discord, cron, progress, handled, posts, excused >>
  BY DEF PollFails
<1>2. telegram \in Poller /\ telegram.pc = "poll" /\ failures + 1 \in Nat
  BY DEF PollFails, Types, Poller
<1>3. telegram' = [telegram EXCEPT !.pc = "sleep"] /\ failures' = failures + 1
  BY DEF PollFails
<1>4. /\ platform' \in [sent: Nat, confirmed: Nat]
      /\ 1 .. platform'.confirmed \subseteq handled
  <2>1. CASE platform' = platform
    BY <2>1 DEF Types, InHand
  <2>2. CASE platform' = Confirmed
    BY <1>2, <2>2, ConfirmedFacts
  <2> QED
    BY <2>1, <2>2 DEF PollFails
<1>5. /\ telegram' \in Poller /\ telegram'.pc = "sleep"
      /\ telegram'.offset = telegram.offset /\ telegram'.held = telegram.held
  BY <1>2, <1>3 DEF Poller, PollerPhases
<1>6. InHand'
  BY <1>1, <1>2, <1>4, <1>5 DEF InHand
<1>7. Types'
  BY <1>1, <1>2, <1>3, <1>4, <1>5 DEF Types, Poller
<1>8. Lifecycle'
  BY <1>1, <1>2, <1>5, PollerLifecycle
<1> QED
  BY <1>1, <1>6, <1>7, <1>8, ProgressFrame

(* The loop goes on to a poll with an empty batch, or is off.               *)
LEMMA AgainFacts ==
    ASSUME NEW p \in Poller
    PROVE  /\ Again(p) \in Poller
           /\ Again(p).pc = IF p.running THEN "poll" ELSE "off"
           /\ Again(p).running = p.running /\ Again(p).offset = p.offset
           /\ Again(p).held = p.held
<1> DEFINE next == IF p.running THEN "poll" ELSE "off"
<1>1. Again(p) = [p EXCEPT !.pc = next, !.batch = << >>]
  BY DEF Again
<1>2. next \in PollerPhases /\ << >> \in Seq(Nat)
  BY DEF PollerPhases
<1> HIDE DEF next
<1>3. /\ Again(p) \in Poller /\ Again(p).pc = next
      /\ Again(p).running = p.running /\ Again(p).offset = p.offset
      /\ Again(p).held = p.held
  BY <1>1, <1>2 DEF Poller
<1> QED
  BY <1>3 DEF next

(* The sleep ends.                                                          *)
LEMMA WakeKeeps ==
    ASSUME GInv, Wake
    PROVE  GInv'
<1> USE DEF GInv
<1>1. UNCHANGED << setup, server, platform, discord, cron, progress, handled,
                   posts, excused, failures >>
  BY DEF Wake
<1>2. telegram \in Poller /\ telegram.pc \in {"poll", "sleep"}
  BY DEF Wake, Types, Poller
<1>3. telegram' = Again(telegram)
  BY DEF Wake
<1>4. /\ telegram' \in Poller
      /\ telegram'.pc = IF telegram.running THEN "poll" ELSE "off"
      /\ telegram'.running = telegram.running /\ telegram'.held = telegram.held
      /\ telegram'.offset = telegram.offset
  BY <1>2, <1>3, AgainFacts
<1>5. InHand'
  BY <1>1, <1>2, <1>4 DEF InHand
<1>6. Types'
  BY <1>1, <1>4 DEF Types, Poller
<1>7. Lifecycle'
  BY <1>1, <1>2, <1>4, PollerLifecycle
<1> QED
  BY <1>1, <1>5, <1>6, <1>7, ProgressFrame

(* What is known when the loop is about to take, or has in hand, the next   *)
(* update of a batch.                                                       *)
LEMMA NextUpdate ==
    ASSUME Types, InHand, telegram.pc \in {"batch", "handle"},
           telegram.batch # << >>
    PROVE  /\ telegram \in Poller /\ Update \in Nat /\ Update + 1 \in Nat
           /\ Tail(telegram.batch) \in Seq(Nat)
           /\ 1 .. Update - 1 \subseteq handled
           /\ \A i \in 1 .. Len(Tail(telegram.batch)) :
                 Tail(telegram.batch)[i] = Update + i
           /\ PastUpdate \in Poller /\ PastUpdate.pc = telegram.pc
           /\ PastUpdate.offset = Update + 1
           /\ PastUpdate.batch = telegram.batch
           /\ PastUpdate.running = telegram.running
           /\ PastUpdate.held = telegram.held
<1> DEFINE batch == telegram.batch
<1>1. telegram \in Poller /\ batch \in Seq(Nat) /\ batch # << >>
  BY DEF Types, Poller
<1>2. \A i \in 1 .. Len(batch) : /\ batch[i] = batch[1] + i - 1
                                 /\ 1 .. batch[1] - 1 \subseteq handled
  BY DEF InHand
<1>3. Update = batch[1]
  BY DEF Update
<1> HIDE DEF batch
<1>4. Len(batch) \in Nat /\ Len(batch) >= 1 /\ batch[1] \in Nat
  BY <1>1
<1>5. Update \in Nat /\ Update + 1 \in Nat
  BY <1>3, <1>4
<1>6. 1 .. Update - 1 \subseteq handled
  BY <1>2, <1>3, <1>4
<1>7. /\ Tail(batch) \in Seq(Nat) /\ Len(Tail(batch)) = Len(batch) - 1
      /\ \A i \in 1 .. Len(batch) - 1 : Tail(batch)[i] = batch[i + 1]
  BY <1>1
<1>8. ASSUME NEW i \in 1 .. Len(Tail(batch))
      PROVE  Tail(batch)[i] = Update + i
  <2>1. i \in 1 .. Len(batch) - 1 /\ i + 1 \in 1 .. Len(batch)
    BY <1>4, <1>7
  <2>2. Tail(batch)[i] = batch[i + 1]
    BY <1>7, <2>1
  <2>3. batch[i + 1] = batch[1] + (i + 1) - 1
    BY <1>2, <2>1
  <2> QED
    BY <1>3, <1>4, <2>1, <2>2, <2>3
<1>9. /\ PastUpdate \in Poller /\ PastUpdate.pc = telegram.pc
      /\ PastUpdate.offset = Update + 1
      /\ PastUpdate.batch = telegram.batch
      /\ PastUpdate.running = telegram.running
      /\ PastUpdate.held = telegram.held
  BY <1>1, <1>5 DEF PastUpdate, Poller
<1> QED
  BY <1>1, <1>5, <1>6, <1>7, <1>8, <1>9 DEF batch

(* The batch goes on with the next update once the one before it is         *)
(* handled.                                                                 *)
LEMMA BatchGoesOn ==
    ASSUME Types, InHand, telegram.pc \in {"batch", "handle"},
           telegram.batch # << >>,
           handled' = handled \cup {Update}, platform' = platform,
           telegram'.pc = "batch", telegram'.offset = Update + 1,
           telegram'.batch = Tail(telegram.batch)
    PROVE  InHand'
<1> DEFINE rest == Tail(telegram.batch)
<1>1. /\ Update \in Nat /\ 1 .. Update - 1 \subseteq handled
      /\ rest \in Seq(Nat)
      /\ \A i \in 1 .. Len(rest) : rest[i] = Update + i
  BY NextUpdate
<1>2. telegram'.batch = rest
  OBVIOUS
<1> HIDE DEF rest
<1>3. 1 .. Update \subseteq handled'
  BY <1>1
<1>4. (Update + 1) - 1 = Update
  BY <1>1
<1>5. 1 .. telegram'.offset - 1 \subseteq handled'
  BY <1>3, <1>4
<1>6. ASSUME NEW i \in 1 .. Len(rest)
      PROVE  /\ rest[i] = rest[1] + i - 1
             /\ 1 .. rest[1] - 1 \subseteq handled'
  <2>1. Len(rest) \in Nat
    BY <1>1
  <2>2. rest[i] = Update + i /\ 1 \in 1 .. Len(rest)
    BY <1>1, <2>1
  <2>3. rest[1] = Update + 1
    BY <1>1, <2>2
  <2> QED
    BY <1>1, <1>3, <1>4, <2>2, <2>3
<1>7. 1 .. platform'.confirmed \subseteq handled'
  BY DEF InHand
<1> QED
  BY <1>2, <1>5, <1>6, <1>7 DEF InHand

(* A wanted update is in hand: the offset is past it, the update is not     *)
(* handled yet, and the poller does not poll until it is.                   *)
LEMMA HandleKeeps ==
    ASSUME GInv, HandleUpdate
    PROVE  GInv'
<1> USE DEF GInv
<1>1. UNCHANGED << setup, server, platform, discord, cron, progress, handled,
                   posts, excused, failures >>
  BY DEF HandleUpdate
<1>2. telegram.pc = "batch" /\ telegram.batch # << >>
  BY DEF HandleUpdate
<1>3. telegram' = [PastUpdate EXCEPT !.pc = "handle"]
  BY DEF HandleUpdate
<1>4. /\ PastUpdate \in Poller /\ PastUpdate.batch = telegram.batch
      /\ PastUpdate.offset = Update + 1 /\ telegram \in Poller
      /\ PastUpdate.held = telegram.held
  BY <1>2, NextUpdate
<1>5. /\ telegram' \in Poller /\ telegram'.pc = "handle"
      /\ telegram'.held = telegram.held
      /\ telegram'.batch = telegram.batch /\ telegram'.offset = Update + 1
  BY <1>3, <1>4 DEF Poller, PollerPhases
<1>6. InHand'
  BY <1>1, <1>2, <1>5 DEF InHand, Update
<1>7. Types'
  BY <1>1, <1>5 DEF Types, Poller
<1>8. Lifecycle'
  BY <1>1, <1>2, <1>5, PollerLifecycle
<1> QED
  BY <1>1, <1>6, <1>7, <1>8, ProgressFrame

(* An update nobody wants is handled at once; one that was in hand is when  *)
(* its dispatch has ended.                                                  *)
LEMMA HandledKeeps ==
    ASSUME GInv, DropUpdate \/ UpdateHandled
    PROVE  GInv'
<1> USE DEF GInv
<1>1. UNCHANGED << setup, server, platform, discord, cron, progress, posts,
                   excused, failures >>
  BY DEF DropUpdate, UpdateHandled
<1>2. /\ telegram.pc \in {"batch", "handle"} /\ telegram.batch # << >>
      /\ handled' = handled \cup {Update}
  BY DEF DropUpdate, UpdateHandled, InHand
<1>3. /\ telegram \in Poller /\ PastUpdate \in Poller
      /\ Tail(telegram.batch) \in Seq(Nat)
      /\ PastUpdate.pc = telegram.pc /\ PastUpdate.offset = Update + 1
      /\ PastUpdate.batch = telegram.batch /\ PastUpdate.held = telegram.held
  BY <1>2, NextUpdate
<1>4. /\ telegram' \in Poller /\ telegram'.pc = "batch"
      /\ telegram'.held = telegram.held
      /\ telegram'.batch = Tail(telegram.batch)
      /\ telegram'.offset = Update + 1
  <2>1. CASE DropUpdate
    <3>1. telegram' = [PastUpdate EXCEPT !.batch = Tail(PastUpdate.batch)]
          /\ telegram.pc = "batch"
      BY <2>1 DEF DropUpdate
    <3> QED
      BY <1>3, <3>1 DEF Poller
  <2>2. CASE UpdateHandled
    <3>1. /\ telegram' = [telegram EXCEPT !.pc = "batch",
                                          !.batch = Tail(telegram.batch)]
          /\ telegram.pc = "handle"
      BY <2>2 DEF UpdateHandled
    <3>2. telegram.offset = Update + 1
      BY <3>1 DEF InHand
    <3> QED
      BY <1>3, <3>1, <3>2 DEF Poller, PollerPhases
  <2> QED
    BY <2>1, <2>2
<1>5. InHand'
  BY <1>1, <1>2, <1>4, BatchGoesOn
<1>6. Types'
  BY <1>1, <1>4 DEF Types, Poller
<1>7. Lifecycle'
  BY <1>1, <1>2, <1>4, PollerLifecycle
<1> QED
  BY <1>1, <1>5, <1>6, <1>7, ProgressFrame

(* The loop leaves a batch that is done, or that a stop cut off: then it is *)
(* off, and the offset that went past an update in vain is never sent.      *)
LEMMA EndBatchKeeps ==
    ASSUME GInv, EndBatch
    PROVE  GInv'
<1> USE DEF GInv
<1>1. UNCHANGED << setup, server, platform, discord, cron, progress, handled,
                   posts, excused, failures >>
  BY DEF EndBatch
<1>2. telegram.pc = "batch" /\ telegram \in Poller
  BY DEF EndBatch, Types, Poller
<1>3. CASE telegram.batch = << >>
  <2>1. telegram' = Again(telegram)
    BY <1>3 DEF EndBatch
  <2>2. /\ telegram' \in Poller
        /\ telegram'.pc = IF telegram.running THEN "poll" ELSE "off"
        /\ telegram'.running = telegram.running
        /\ telegram'.offset = telegram.offset /\ telegram'.held = telegram.held
    BY <1>2, <2>1, AgainFacts
  <2>3. InHand'
    BY <1>1, <1>2, <2>2 DEF InHand
  <2>4. Types'
    BY <1>1, <2>2 DEF Types, Poller
  <2>5. Lifecycle'
    BY <1>1, <1>2, <2>2, PollerLifecycle
  <2> QED
    BY <1>1, <2>3, <2>4, <2>5, ProgressFrame
<1>4. CASE telegram.batch # << >>
  <2>1. telegram' = Again(PastUpdate) /\ ~ telegram.running
    BY <1>4 DEF EndBatch
  <2>2. /\ PastUpdate \in Poller /\ ~ PastUpdate.running
        /\ PastUpdate.held = telegram.held
    BY <1>2, <1>4, <2>1, NextUpdate
  <2>3. /\ telegram' \in Poller /\ telegram'.pc = "off"
        /\ ~ telegram'.running /\ telegram'.held = telegram.held
    BY <2>1, <2>2, AgainFacts
  <2>4. InHand'
    BY <1>1, <2>3 DEF InHand
  <2>5. Types'
    BY <1>1, <2>3 DEF Types, Poller
  <2>6. Lifecycle'
    BY <1>1, <1>2, <2>3, PollerLifecycle
  <2> QED
    BY <1>1, <2>4, <2>5, <2>6, ProgressFrame
<1> QED
  BY <1>3, <1>4

(* A timer that fires may be armed again, never one that was not armed.     *)
LEMMA CronKeeps ==
    ASSUME GInv, CronStep
    PROVE  GInv'
<1> USE DEF GInv
<1>1. UNCHANGED << setup, server, telegram, platform, discord, progress,
                   handled, posts, excused, failures >>
  BY DEF CronStep, CronFires, CronSkips, CronEmitEnds
<1>2. PICK armed \in SUBSET cron.armed, flying \in SUBSET Tasks :
         cron' = [cron EXCEPT !.armed = armed, !.inFlight = flying]
  <2>0. cron.armed \subseteq Events /\ cron.inFlight \subseteq Tasks
    BY DEF Types
  <2>1. CASE CronFires
    <3>1. PICK job \in cron.armed :
             \E armed \in Rearmed(job) : \E t \in Tasks :
                cron' = [cron EXCEPT !.armed = armed, !.inFlight = @ \cup {t}]
      BY <2>1 DEF CronFires, NextDispatch, Copies
    <3>2. PICK armed \in Rearmed(job), t \in Tasks :
             cron' = [cron EXCEPT !.armed = armed, !.inFlight = @ \cup {t}]
      BY <3>1
    <3>3. armed \in SUBSET cron.armed
      BY DEF Rearmed
    <3>4. cron.inFlight \cup {t} \in SUBSET Tasks
      BY <2>0
    <3> QED
      BY <3>2, <3>3, <3>4
  <2>2. CASE CronSkips
    <3>0. PICK job \in cron.armed : \E armed \in Rearmed(job) :
             cron' = [cron EXCEPT !.armed = armed]
      BY <2>2 DEF CronSkips
    <3>1. PICK armed \in Rearmed(job) : cron' = [cron EXCEPT !.armed = armed]
      BY <3>0
    <3>2. armed \in SUBSET cron.armed
      BY DEF Rearmed
    <3>3. cron' = [cron EXCEPT !.armed = armed, !.inFlight = cron.inFlight]
      BY <3>1 DEF Types
    <3> QED
      BY <2>0, <3>2, <3>3
  <2>3. CASE CronEmitEnds
    <3>1. PICK t \in cron.inFlight :
             cron' = [cron EXCEPT !.inFlight = @ \ {t}]
      BY <2>3 DEF CronEmitEnds
    <3>2. cron' = [cron EXCEPT !.armed = cron.armed,
                               !.inFlight = cron.inFlight \ {t}]
      BY <3>1 DEF Types
    <3> QED
      BY <2>0, <3>2
  <2> QED
    BY <2>1, <2>2, <2>3 DEF CronStep
<1>3. cron' \in [armed: SUBSET Events, stopped: BOOLEAN, inFlight: SUBSET Tasks]
      /\ cron'.armed = armed
  BY <1>2 DEF Types
<1>4. Types'
  BY <1>1, <1>3 DEF Types
<1>5. Lifecycle'
  BY <1>1, <1>2, <1>3 DEF Lifecycle, Quiet
<1> QED
  BY <1>1, <1>4, <1>5, InHandFrame, ProgressFrame

-----------------------------------------------------------------------------
(* The progress observer pays for every message.                            *)

Weight(stage) == IF stage \in Claiming THEN 1 ELSE 0

(* A call that goes to another stage changes the claimants of its own key   *)
(* by what the two stages weigh.                                            *)
LEMMA StageWeighs ==
    ASSUME Types, setup' = setup, NEW c \in DOMAIN setup.progress,
           NEW x \in Stages,
           progress'.stage = [progress.stage EXCEPT ![c] = x]
    PROVE  \A k \in Events :
              /\ Cardinality(Claimants(k)) \in Nat
              /\ Cardinality(Claimants(k)') \in Nat
              /\ k # KeyOf(c) =>
                    Cardinality(Claimants(k)') = Cardinality(Claimants(k))
              /\ k = KeyOf(c) =>
                    Cardinality(Claimants(k)') + Weight(progress.stage[c])
                      = Cardinality(Claimants(k)) + Weight(x)
<1> SUFFICES ASSUME NEW k \in Events
             PROVE  /\ Cardinality(Claimants(k)) \in Nat
                    /\ Cardinality(Claimants(k)') \in Nat
                    /\ k # KeyOf(c) =>
                         Cardinality(Claimants(k)') = Cardinality(Claimants(k))
                    /\ k = KeyOf(c) =>
                         Cardinality(Claimants(k)') + Weight(progress.stage[c])
                           = Cardinality(Claimants(k)) + Weight(x)
  OBVIOUS
<1> DEFINE before == Claimants(k)
           after == Claimants(k)'
<1>1. c \in Calls /\ progress.stage \in [Calls -> Stages] /\ IsFiniteSet(Calls)
  BY GatewaysAssumption DEF Types
<1>2. before \subseteq Calls /\ after \subseteq Calls
  BY DEF Claimants
<1>3. IsFiniteSet(before) /\ IsFiniteSet(after)
  <2> HIDE DEF before, after
  <2> QED
    BY <1>1, <1>2, FS_Subset, Zenon
<1>4. \A d \in Calls : d # c => (d \in after <=> d \in before)
  BY <1>1 DEF Claimants, KeyOf
<1>5. c \in before <=> k = KeyOf(c) /\ progress.stage[c] \in Claiming
  BY <1>1 DEF Claimants
<1>6. c \in after <=> k = KeyOf(c) /\ x \in Claiming
  BY <1>1 DEF Claimants, KeyOf
<1> HIDE DEF before, after
<1>7. Cardinality(before) \in Nat /\ Cardinality(after) \in Nat
  BY <1>3, FS_CardinalityType, Zenon
<1>8. CASE c \in before /\ c \in after
  <2>1. before = after
    BY <1>2, <1>4, <1>8
  <2> QED
    BY <1>5, <1>6, <1>7, <1>8, <2>1 DEF before, after, Weight
<1>9. CASE c \notin before /\ c \notin after
  <2>1. before = after
    BY <1>2, <1>4, <1>9
  <2>2. k = KeyOf(c) => Weight(x) = 0 /\ Weight(progress.stage[c]) = 0
    BY <1>5, <1>6, <1>9 DEF Weight
  <2> QED
    BY <1>7, <2>1, <2>2 DEF before, after
<1>10. CASE c \in before /\ c \notin after
  <2>1. after = before \ {c}
    BY <1>2, <1>4, <1>10
  <2>2. Cardinality(after) = Cardinality(before) - 1
    BY <1>3, <1>10, <2>1, FS_RemoveElement
  <2>3. k = KeyOf(c) /\ Weight(x) = 0 /\ Weight(progress.stage[c]) = 1
    BY <1>5, <1>6, <1>10 DEF Weight
  <2> QED
    BY <1>7, <2>2, <2>3 DEF before, after
<1>11. CASE c \notin before /\ c \in after
  <2>1. after = before \cup {c}
    BY <1>2, <1>4, <1>11
  <2>2. Cardinality(after) = Cardinality(before) + 1
    BY <1>3, <1>11, <2>1, FS_AddElement
  <2>3. k = KeyOf(c) /\ Weight(x) = 1 /\ Weight(progress.stage[c]) = 0
    BY <1>5, <1>6, <1>11 DEF Weight
  <2> QED
    BY <1>7, <2>2, <2>3 DEF before, after
<1> QED
  BY <1>8, <1>9, <1>10, <1>11

(* What storing k drops from the cache is excused.                          *)
LEMMA StoredPays ==
    ASSUME Types, NEW k \in Events
    PROVE  LET cache == progress.bindings
               paid == Excuse(Dropped(cache, k))
           IN  /\ paid \in [Events -> Nat]
               /\ \A j \in Events :
                     excused[j] + (IF j = k THEN 1 ELSE HeldIn(cache, j))
                       <= paid[j] + HeldIn(Stored(cache, k), j)
<1> DEFINE cache == progress.bindings
           paid == Excuse(Dropped(cache, k))
<1>1. excused \in [Events -> Nat]
  BY DEF Types
<1>2. ASSUME NEW j \in Events
      PROVE  /\ paid[j] = excused[j]
                          + (IF j \in Dropped(cache, k) THEN 1 ELSE 0)
             /\ paid[j] \in Nat
  BY <1>1 DEF Excuse
<1>3. paid \in [Events -> Nat]
  BY <1>2 DEF Excuse
<1>4. ASSUME NEW j \in Events
      PROVE  excused[j] + (IF j = k THEN 1 ELSE HeldIn(cache, j))
               <= paid[j] + HeldIn(Stored(cache, k), j)
  <2>1. excused[j] \in Nat
    BY <1>1
  <2>2. j \in Dropped(cache, k) <=> /\ j = k \/ Bound(cache, j)
                                    /\ ~ Bound(Stored(cache, k), j)
    BY DEF Dropped
  <2> HIDE DEF cache, paid
  <2> QED
    BY <1>2, <2>1, <2>2 DEF HeldIn
<1> QED
  BY <1>3, <1>4

Observer == [bindings: Seq(Events), stage: [Calls -> Stages]]

(* A step of the observer concerns nothing but its cache, its calls, its    *)
(* messages and its excuses.                                                *)
LEMMA ObserverFrame ==
    ASSUME GInv,
           UNCHANGED << setup, server, telegram, platform, discord, cron, handled >>,
           progress' \in Observer, posts' \in [Events -> Nat],
           excused' \in [Events -> Nat], failures' \in Nat,
           KeysOnce', Paid'
    PROVE  GInv'
<1>1. Types'
  BY DEF GInv, Types, Observer
<1> QED
  BY <1>1, LifecycleFrame, InHandFrame DEF GInv

(* What the observer knows of a call and its key.                           *)
LEMMA CallFacts ==
    ASSUME GInv, NEW c \in DOMAIN setup.progress
    PROVE  /\ c \in Calls /\ KeyOf(c) \in Events
           /\ progress \in Observer /\ progress.stage \in [Calls -> Stages]
           /\ progress.bindings \in Seq(Events) /\ Once(progress.bindings)
           /\ posts \in [Events -> Nat] /\ excused \in [Events -> Nat]
           /\ \A k \in Events : Held(k) \in {0, 1}
           /\ failures \in Nat /\ failures + 1 \in Nat
  BY GatewaysAssumption
  DEF GInv, Types, KeysOnce, KeyOf, Observer, Held, HeldIn

(* A call keeps the account of its key when the message it posts, and the   *)
(* claim it goes on with, cost no more than the claim it had, the excuses   *)
(* it gives and the binding it stores.                                      *)
LEMMA PaidAgain ==
    ASSUME GInv, NEW c \in DOMAIN setup.progress, NEW x \in Stages,
           setup' = setup,
           progress'.stage = [progress.stage EXCEPT ![c] = x],
           posts' \in [Events -> Nat], excused' \in [Events -> Nat],
           \A j \in Events : j # KeyOf(c) =>
               /\ posts'[j] = posts[j]
               /\ excused[j] + Held(j) <= excused'[j] + Held(j)',
           \A j \in Events : j = KeyOf(c) =>
               (posts'[j] + Weight(x)) + (excused[j] + Held(j))
                 <= (posts[j] + Weight(progress.stage[c]))
                      + (excused'[j] + Held(j)')
    PROVE  Paid'
<1> SUFFICES ASSUME NEW j \in Events
             PROVE  (posts[j] + Cardinality(Claimants(j)) <= excused[j] + Held(j))'
  BY DEF Paid
<1> DEFINE now == Cardinality(Claimants(j))
           next == Cardinality(Claimants(j)')
           held == Held(j)
           later == Held(j)'
           wx == Weight(x)
           ws == Weight(progress.stage[c])
<1>1. /\ now \in Nat /\ next \in Nat
      /\ j # KeyOf(c) => next = now
      /\ j = KeyOf(c) => next + ws = now + wx
  BY StageWeighs DEF GInv
<1>2. posts[j] + now <= excused[j] + held
  BY DEF GInv, Paid
<1>3. /\ posts[j] \in Nat /\ excused[j] \in Nat
      /\ posts'[j] \in Nat /\ excused'[j] \in Nat
      /\ held \in {0, 1} /\ later \in {0, 1} /\ wx \in {0, 1} /\ ws \in {0, 1}
  BY DEF GInv, Types, Held, HeldIn, Weight
<1>4. /\ j # KeyOf(c) => /\ posts'[j] = posts[j]
                         /\ excused[j] + held <= excused'[j] + later
      /\ j = KeyOf(c) =>
           (posts'[j] + wx) + (excused[j] + held)
             <= (posts[j] + ws) + (excused'[j] + later)
  OBVIOUS
<1> HIDE DEF now, next, held, later, wx, ws
<1>5. posts'[j] + next <= excused'[j] + later
  <2>1. CASE j # KeyOf(c)
    BY <1>1, <1>2, <1>3, <1>4, <2>1
  <2>2. CASE j = KeyOf(c)
    BY <1>1, <1>2, <1>3, <1>4, <2>2
  <2> QED
    BY <2>1, <2>2
<1> QED
  BY <1>5 DEF next, later

(* A claim: the first call of a key takes the binding, and what that drops  *)
(* is excused.                                                              *)
LEMMA ClaimKeeps ==
    ASSUME GInv, NEW c \in DOMAIN setup.progress, Claim(c)
    PROVE  GInv'
<1> DEFINE k == KeyOf(c)
           cache == progress.bindings
           x == IF Bound(cache, k) THEN "done" ELSE "resolve"
<1>1. UNCHANGED << setup, server, telegram, platform, discord, cron, handled,
                   posts, failures >>
  BY DEF Claim
<1>2. /\ progress.stage[c] = "idle"
      /\ progress' = [bindings |-> Stored(cache, k),
                      stage |-> [progress.stage EXCEPT ![c] = x]]
      /\ excused' = Excuse(Dropped(cache, k))
  BY DEF Claim
<1>3. /\ c \in Calls /\ k \in Events /\ cache \in Seq(Events) /\ Once(cache)
      /\ progress.stage \in [Calls -> Stages]
      /\ posts \in [Events -> Nat] /\ excused \in [Events -> Nat]
      /\ failures \in Nat
  BY CallFacts
<1>4. Types
  BY DEF GInv
<1>5. Stored(cache, k) \in Seq(Events) /\ Once(Stored(cache, k))
  BY <1>3, <1>4, StoredKeeps DEF Types
<1>6. x \in Stages
  BY DEF Stages
<1>7. /\ progress' \in Observer /\ progress'.bindings = Stored(cache, k)
      /\ progress'.stage = [progress.stage EXCEPT ![c] = x]
  BY <1>2, <1>3, <1>5, <1>6 DEF Observer
<1>8. KeysOnce'
  BY <1>5, <1>7 DEF KeysOnce, Once
<1>9. /\ excused' \in [Events -> Nat]
      /\ \A j \in Events :
            excused[j] + (IF j = k THEN 1 ELSE HeldIn(cache, j))
              <= excused'[j] + HeldIn(Stored(cache, k), j)
  BY <1>2, <1>3, <1>4, StoredPays
<1>10. \A j \in Events : /\ Held(j) = HeldIn(cache, j)
                          /\ Held(j)' = HeldIn(Stored(cache, k), j)
  BY <1>7 DEF Held, HeldIn, Bound
<1>11. Weight(progress.stage[c]) = 0
  BY <1>2 DEF Weight, Claiming
<1>12. ASSUME NEW j \in Events, j # k
       PROVE  /\ posts'[j] = posts[j]
              /\ excused[j] + Held(j) <= excused'[j] + Held(j)'
  BY <1>1, <1>9, <1>10, <1>12
<1>13. ASSUME NEW j \in Events, j = k
       PROVE  (posts'[j] + Weight(x)) + (excused[j] + Held(j))
                <= (posts[j] + Weight(progress.stage[c]))
                     + (excused'[j] + Held(j)')
  <2> DEFINE held == HeldIn(cache, j)
             later == HeldIn(Stored(cache, k), j)
             wx == Weight(x)
  <2>1. wx + held = 1 /\ wx \in {0, 1} /\ held \in {0, 1} /\ later \in {0, 1}
    BY <1>13 DEF Weight, Claiming, HeldIn
  <2>2. excused[j] + 1 <= excused'[j] + later
    BY <1>9, <1>13
  <2>3. posts[j] \in Nat /\ excused[j] \in Nat /\ excused'[j] \in Nat
    BY <1>3, <1>9
  <2> HIDE DEF held, later, wx
  <2>4. (posts[j] + wx) + (excused[j] + held) <= (posts[j] + 0) + (excused'[j] + later)
    BY <2>1, <2>2, <2>3
  <2> QED
    BY <1>1, <1>10, <1>11, <2>4 DEF held, later, wx
<1> HIDE DEF k, x
<1>14. Paid'
  BY <1>1, <1>3, <1>6, <1>7, <1>9, <1>12, <1>13, PaidAgain DEF k
<1> QED
  BY <1>1, <1>3, <1>7, <1>8, <1>9, <1>14, ObserverFrame

(* The channel is there, or the claim is given up or kept for good.         *)
LEMMA ResolveKeeps ==
    ASSUME GInv, NEW c \in DOMAIN setup.progress, ResolveChannel(c)
    PROVE  GInv'
<1> DEFINE k == KeyOf(c)
           cache == progress.bindings
<1>1. UNCHANGED << setup, server, telegram, platform, discord, cron, handled,
                   posts, excused >>
  BY DEF ResolveChannel
<1>2. /\ c \in Calls /\ k \in Events /\ cache \in Seq(Events) /\ Once(cache)
      /\ progress \in Observer /\ progress.stage \in [Calls -> Stages]
      /\ posts \in [Events -> Nat] /\ excused \in [Events -> Nat]
      /\ \A j \in Events : Held(j) \in {0, 1}
      /\ failures \in Nat /\ failures + 1 \in Nat
  BY CallFacts
<1>3. progress.stage[c] = "resolve" /\ failures' \in Nat
  BY <1>2 DEF ResolveChannel
<1>4. /\ Without(cache, k) \in Seq(Events) /\ Once(Without(cache, k))
      /\ \A j : Bound(Without(cache, k), j) <=> Bound(cache, j) /\ j # k
  BY <1>2, WithoutKeeps
<1>5. PICK x \in {"send", "done"}, next \in {cache, Without(cache, k)} :
         /\ progress' \in Observer /\ progress'.bindings = next
         /\ progress'.stage = [progress.stage EXCEPT ![c] = x]
         /\ x = "send" => next = cache
  <2>1. CASE progress' = [progress EXCEPT !.stage[c] = "send"]
    <3>1. /\ progress' \in Observer /\ progress'.bindings = cache
          /\ progress'.stage = [progress.stage EXCEPT ![c] = "send"]
      BY <1>2, <2>1 DEF Observer, Stages
    <3> QED
      BY <3>1
  <2>2. CASE progress' = [progress EXCEPT !.stage[c] = "done"]
    <3>1. /\ progress' \in Observer /\ progress'.bindings = cache
          /\ progress'.stage = [progress.stage EXCEPT ![c] = "done"]
      BY <1>2, <2>2 DEF Observer, Stages
    <3> QED
      BY <3>1
  <2>3. CASE progress' = [bindings |-> Without(cache, k),
                          stage |-> [progress.stage EXCEPT ![c] = "done"]]
    <3>1. /\ progress' \in Observer /\ progress'.bindings = Without(cache, k)
          /\ progress'.stage = [progress.stage EXCEPT ![c] = "done"]
      BY <1>2, <1>4, <2>3 DEF Observer, Stages
    <3> QED
      BY <3>1
  <2> QED
    BY <2>1, <2>2, <2>3 DEF ResolveChannel
<1>6. KeysOnce'
  BY <1>2, <1>4, <1>5 DEF KeysOnce, Once
<1>7. ASSUME NEW j \in Events
      PROVE  /\ Held(j)' \in {0, 1}
             /\ j # k => Held(j)' = Held(j)
             /\ x = "send" => Held(j)' = Held(j)
  BY <1>4, <1>5 DEF Held, HeldIn, Bound
<1>8. x \in Stages /\ Weight(progress.stage[c]) = 1
      /\ Weight(x) = (IF x = "send" THEN 1 ELSE 0)
  BY <1>3 DEF Weight, Claiming, Stages
<1>9. ASSUME NEW j \in Events, j # k
      PROVE  /\ posts'[j] = posts[j]
             /\ excused[j] + Held(j) <= excused'[j] + Held(j)'
  <2>1. Held(j)' = Held(j) /\ Held(j) \in Nat /\ excused[j] \in Nat
    BY <1>2, <1>7, <1>9
  <2> QED
    BY <1>1, <2>1
<1>10. ASSUME NEW j \in Events, j = k
       PROVE  (posts'[j] + Weight(x)) + (excused[j] + Held(j))
                <= (posts[j] + Weight(progress.stage[c]))
                     + (excused'[j] + Held(j)')
  <2> DEFINE held == Held(j)
             later == Held(j)'
             wx == Weight(x)
  <2>1. /\ held \in {0, 1} /\ later \in {0, 1} /\ wx \in {0, 1}
        /\ wx = 1 => later = held
    BY <1>2, <1>7, <1>8
  <2>2. posts[j] \in Nat /\ excused[j] \in Nat
    BY <1>2
  <2> HIDE DEF held, later, wx
  <2>3. (posts[j] + wx) + (excused[j] + held) <= (posts[j] + 1) + (excused[j] + later)
    BY <2>1, <2>2
  <2> QED
    BY <1>1, <1>8, <2>3 DEF held, later, wx
<1> HIDE DEF k
<1>11. Paid'
  BY <1>1, <1>2, <1>5, <1>8, <1>9, <1>10, PaidAgain DEF k
<1> QED
  BY <1>1, <1>2, <1>3, <1>5, <1>6, <1>11, ObserverFrame

(* A message is posted by a call that gives its claim up, or with an excuse *)
(* when the post is reported as failed.                                     *)
LEMMA PostKeeps ==
    ASSUME GInv, NEW c \in DOMAIN setup.progress, PostProgress(c)
    PROVE  GInv'
<1> DEFINE k == KeyOf(c)
<1>1. UNCHANGED << setup, server, telegram, platform, discord, cron, handled >>
  BY DEF PostProgress
<1>2. /\ c \in Calls /\ k \in Events
      /\ progress \in Observer /\ progress.stage \in [Calls -> Stages]
      /\ progress.bindings \in Seq(Events) /\ Once(progress.bindings)
      /\ posts \in [Events -> Nat] /\ excused \in [Events -> Nat]
      /\ \A j \in Events : Held(j) \in {0, 1}
      /\ failures \in Nat /\ failures + 1 \in Nat
  BY CallFacts
<1>3. progress.stage[c] = "send" /\ failures' \in Nat
  BY <1>2 DEF PostProgress
<1>4. posts[k] + 1 \in Nat /\ excused[k] + 1 \in Nat
  BY <1>2
<1>5. PICK x \in {"sent", "failed"} :
         /\ progress' = [progress EXCEPT !.stage[c] = x]
         /\ \/ posts' = posts /\ excused' = excused /\ x = "failed"
            \/ /\ posts' = [posts EXCEPT ![k] = @ + 1]
               /\ excused' = excused /\ x = "sent"
            \/ /\ posts' = [posts EXCEPT ![k] = @ + 1]
               /\ excused' = [excused EXCEPT ![k] = @ + 1] /\ x = "failed"
  BY DEF PostProgress
<1>6. x \in Stages /\ Weight(progress.stage[c]) = 1
      /\ Weight(x) = (IF x = "failed" THEN 1 ELSE 0)
  BY <1>3 DEF Weight, Claiming, Stages
<1>7. /\ progress' \in Observer /\ progress'.bindings = progress.bindings
      /\ progress'.stage = [progress.stage EXCEPT ![c] = x]
  BY <1>2, <1>5, <1>6 DEF Observer
<1>8. posts' \in [Events -> Nat] /\ excused' \in [Events -> Nat]
  BY <1>2, <1>4, <1>5
<1>9. KeysOnce'
  BY <1>2, <1>7 DEF KeysOnce, Once
<1>10. \A j \in Events : Held(j)' = Held(j)
  BY <1>7 DEF Held, HeldIn, Bound
<1>11. ASSUME NEW j \in Events, j # k
       PROVE  /\ posts'[j] = posts[j]
              /\ excused[j] + Held(j) <= excused'[j] + Held(j)'
  <2>1. posts'[j] = posts[j] /\ excused'[j] = excused[j]
    BY <1>2, <1>5, <1>11
  <2>2. Held(j) \in {0, 1} /\ excused[j] \in Nat
    BY <1>2
  <2>3. \A n \in Nat, h \in {0, 1} : n + h <= n + h
    OBVIOUS
  <2> QED
    BY <1>10, <2>1, <2>2, <2>3
<1>12. ASSUME NEW j \in Events, j = k
       PROVE  (posts'[j] + Weight(x)) + (excused[j] + Held(j))
                <= (posts[j] + Weight(progress.stage[c]))
                     + (excused'[j] + Held(j)')
  <2> DEFINE held == Held(j)
             wx == Weight(x)
  <2>0. held \in {0, 1}
    BY <1>2
  <2>1. held \in Nat /\ posts[j] \in Nat /\ excused[j] \in Nat
    <3> HIDE DEF held
    <3> QED
      BY <1>2, <2>0
  <2>2. \/ posts'[j] = posts[j] /\ excused'[j] = excused[j] /\ wx = 1
        \/ posts'[j] = posts[j] + 1 /\ excused'[j] = excused[j] /\ wx = 0
        \/ posts'[j] = posts[j] + 1 /\ excused'[j] = excused[j] + 1 /\ wx = 1
    BY <1>2, <1>5, <1>6, <1>12
  <2> HIDE DEF held, wx
  <2>3. (posts'[j] + wx) + (excused[j] + held) <= (posts[j] + 1) + (excused'[j] + held)
    BY <2>1, <2>2
  <2> QED
    BY <1>6, <1>10, <2>3 DEF held, wx
<1> HIDE DEF k
<1>13. Paid'
  BY <1>1, <1>6, <1>7, <1>8, <1>11, <1>12, PaidAgain DEF k
<1> QED
  BY <1>1, <1>3, <1>7, <1>8, <1>9, <1>13, ObserverFrame

(* A call ends: its binding is stored again, or its claim given up.         *)
LEMMA EndKeeps ==
    ASSUME GInv, NEW c \in DOMAIN setup.progress, EndProgress(c)
    PROVE  GInv'
<1> DEFINE k == KeyOf(c)
           cache == progress.bindings
           sent == progress.stage[c] = "sent"
           next == IF sent THEN Stored(cache, k) ELSE Without(cache, k)
<1>1. UNCHANGED << setup, server, telegram, platform, discord, cron, handled,
                   posts, failures >>
  BY DEF EndProgress
<1>2. /\ c \in Calls /\ k \in Events /\ cache \in Seq(Events) /\ Once(cache)
      /\ progress.stage \in [Calls -> Stages]
      /\ posts \in [Events -> Nat] /\ excused \in [Events -> Nat]
      /\ \A j \in Events : Held(j) \in {0, 1}
      /\ failures \in Nat
  BY CallFacts
<1>3. /\ progress.stage[c] \in {"sent", "failed"}
      /\ progress' = [bindings |-> next,
                      stage |-> [progress.stage EXCEPT ![c] = "done"]]
      /\ excused' = IF sent THEN Excuse(Dropped(cache, k)) ELSE excused
  BY DEF EndProgress
<1>4. Types
  BY DEF GInv
<1>5. /\ Without(cache, k) \in Seq(Events) /\ Once(Without(cache, k))
      /\ \A j : Bound(Without(cache, k), j) <=> Bound(cache, j) /\ j # k
  BY <1>2, WithoutKeeps
<1>6. Stored(cache, k) \in Seq(Events) /\ Once(Stored(cache, k))
  BY <1>2, <1>4, StoredKeeps DEF Types
<1>7. /\ Excuse(Dropped(cache, k)) \in [Events -> Nat]
      /\ \A j \in Events :
            excused[j] + (IF j = k THEN 1 ELSE HeldIn(cache, j))
              <= Excuse(Dropped(cache, k))[j] + HeldIn(Stored(cache, k), j)
  BY <1>2, <1>4, StoredPays
<1>8. next \in Seq(Events) /\ Once(next)
  BY <1>5, <1>6
<1>9. /\ progress' \in Observer /\ progress'.bindings = next
      /\ progress'.stage = [progress.stage EXCEPT ![c] = "done"]
  <2> HIDE DEF next
  <2> QED
    BY <1>2, <1>3, <1>8 DEF Observer, Stages
<1>10. excused' \in [Events -> Nat]
  BY <1>2, <1>3, <1>7
<1>11. KeysOnce'
  BY <1>8, <1>9 DEF KeysOnce, Once
<1>12. /\ Weight("done") = 0
       /\ Weight(progress.stage[c]) = (IF sent THEN 0 ELSE 1)
       /\ "done" \in Stages
  BY <1>3 DEF Weight, Claiming, Stages
<1>13. \A j \in Events : /\ Held(j) = HeldIn(cache, j)
                         /\ Held(j)' = HeldIn(next, j)
  BY <1>9 DEF Held, HeldIn, Bound
<1>14. ASSUME NEW j \in Events
       PROVE  \/ sent /\ excused[j] + Held(j) <= excused'[j] + Held(j)'
              \/ /\ ~ sent /\ excused'[j] = excused[j]
                 /\ Held(j)' = (IF j = k THEN 0 ELSE Held(j))
  <2>1. CASE sent
    <3>1. excused[j] + (IF j = k THEN 1 ELSE Held(j)) <= excused'[j] + Held(j)'
      BY <1>3, <1>7, <1>13, <2>1
    <3>2. Held(j) \in {0, 1} /\ Held(j)' \in {0, 1} /\ excused[j] \in Nat
          /\ excused'[j] \in Nat
      BY <1>2, <1>10, <1>13 DEF HeldIn
    <3> DEFINE held == Held(j)
               later == Held(j)'
    <3> HIDE DEF held, later
    <3>3. excused[j] + held <= excused'[j] + later
      <4>1. held \in {0, 1} /\ later \in {0, 1}
        BY <3>2 DEF held, later
      <4>2. excused[j] + (IF j = k THEN 1 ELSE held) <= excused'[j] + later
        BY <3>1 DEF held, later
      <4> QED
        BY <3>2, <4>1, <4>2
    <3> QED
      BY <2>1, <3>3 DEF held, later
  <2>2. CASE ~ sent
    BY <1>3, <1>5, <1>13, <2>2 DEF HeldIn
  <2> QED
    BY <2>1, <2>2
<1> DEFINE ws == Weight(progress.stage[c])
<1>15. ASSUME NEW j \in Events, j # k
       PROVE  /\ posts'[j] = posts[j]
              /\ excused[j] + Held(j) <= excused'[j] + Held(j)'
  <2>1. CASE sent
    BY <1>1, <1>14, <2>1
  <2>2. CASE ~ sent
    <3>1. Held(j)' = Held(j) /\ excused'[j] = excused[j]
      BY <1>14, <1>15, <2>2
    <3>2. Held(j) \in Nat /\ excused[j] \in Nat
      BY <1>2
    <3> QED
      BY <1>1, <3>1, <3>2
  <2> QED
    BY <2>1, <2>2
<1>16. ASSUME NEW j \in Events, j = k
       PROVE  (posts'[j] + Weight("done")) + (excused[j] + Held(j))
                <= (posts[j] + Weight(progress.stage[c]))
                     + (excused'[j] + Held(j)')
  <2> DEFINE held == Held(j)
             later == Held(j)'
  <2>1. /\ held \in {0, 1} /\ later \in {0, 1} /\ ws \in {0, 1}
        /\ posts[j] \in Nat /\ excused[j] \in Nat /\ excused'[j] \in Nat
    BY <1>2, <1>10, <1>12, <1>13 DEF HeldIn
  <2>2. \/ excused[j] + held <= excused'[j] + later
        \/ ws = 1 /\ excused'[j] = excused[j] /\ later = 0
    BY <1>12, <1>14, <1>16
  <2> HIDE DEF held, later, ws
  <2>3. (posts[j] + 0) + (excused[j] + held) <= (posts[j] + ws) + (excused'[j] + later)
    BY <2>1, <2>2
  <2> QED
    BY <1>1, <1>12, <2>3 DEF held, later, ws
<1> HIDE DEF k
<1>17. Paid'
  BY <1>1, <1>2, <1>9, <1>10, <1>12, <1>15, <1>16, PaidAgain DEF k
<1> QED
  BY <1>1, <1>2, <1>9, <1>10, <1>11, <1>17, ObserverFrame

(* A binding that expires is excused.                                       *)
LEMMA ExpiryKeeps ==
    ASSUME GInv, BindingExpires
    PROVE  GInv'
<1>1. PICK k \in ToSet(progress.bindings) :
         /\ failures' = failures + 1
         /\ progress' = [progress EXCEPT !.bindings = Without(@, k)]
         /\ excused' = [excused EXCEPT ![k] = @ + 1]
         /\ UNCHANGED << setup, server, telegram, platform, discord, cron,
                         handled, posts >>
  BY DEF BindingExpires
<1> DEFINE cache == progress.bindings
<1>2. /\ cache \in Seq(Events) /\ Once(cache) /\ progress \in Observer
      /\ posts \in [Events -> Nat] /\ excused \in [Events -> Nat]
      /\ failures \in Nat /\ failures + 1 \in Nat
  BY DEF GInv, Types, KeysOnce, Observer
<1>3. k \in Events
  BY <1>1, <1>2 DEF ToSet
<1>4. /\ Without(cache, k) \in Seq(Events) /\ Once(Without(cache, k))
      /\ \A j : Bound(Without(cache, k), j) <=> Bound(cache, j) /\ j # k
  BY <1>2, WithoutKeeps
<1>5. /\ progress' \in Observer /\ progress'.bindings = Without(cache, k)
      /\ progress'.stage = progress.stage
  BY <1>1, <1>2, <1>4 DEF Observer
<1>6. KeysOnce'
  BY <1>4, <1>5 DEF KeysOnce, Once
<1>7. excused' \in [Events -> Nat]
  <2>1. excused[k] + 1 \in Nat
    BY <1>2, <1>3
  <2> QED
    BY <1>1, <1>2, <2>1
<1>8. Paid'
  <2> SUFFICES ASSUME NEW j \in Events
               PROVE  (posts[j] + Cardinality(Claimants(j)) <= excused[j] + Held(j))'
    BY DEF Paid
  <2> DEFINE now == Cardinality(Claimants(j))
             held == Held(j)
             later == Held(j)'
  <2>1. Claimants(j)' = Claimants(j)
    BY <1>1, <1>5 DEF Claimants, KeyOf
  <2>2. now \in Nat
    <3>1. IsFiniteSet(Calls) /\ Claimants(j) \subseteq Calls
      BY GatewaysAssumption DEF Claimants
    <3> QED
      BY <3>1, FS_Subset, FS_CardinalityType, Zenon
  <2>3. posts[j] + now <= excused[j] + held
    BY DEF GInv, Paid
  <2>4. held \in {0, 1} /\ later \in {0, 1} /\ (j # k => later = held)
    BY <1>4, <1>5 DEF Held, HeldIn, Bound
  <2>5. /\ posts[j] \in Nat /\ excused[j] \in Nat /\ posts'[j] = posts[j]
        /\ excused'[j] = (IF j = k THEN excused[j] + 1 ELSE excused[j])
    BY <1>1, <1>2
  <2> HIDE DEF now, held, later
  <2>6. posts'[j] + now <= excused'[j] + later
    BY <2>2, <2>3, <2>4, <2>5
  <2> QED
    BY <2>1, <2>6 DEF now, later
<1> QED
  BY <1>1, <1>2, <1>5, <1>6, <1>7, <1>8, ObserverFrame

-----------------------------------------------------------------------------

(* Every step of the server, the platforms, the gateways, the observer and  *)
(* the dispatches keeps the invariant.                                      *)
LEMMA NextGInv == GInv /\ [GatewaysNext]_<< vars, gatewayVars >> => GInv'
<1> SUFFICES ASSUME GInv, [GatewaysNext]_<< vars, gatewayVars >> PROVE GInv'
  OBVIOUS
<1>1. CASE CallListener \/ MessageComes \/ \E t \in Tasks : DispatchStep(t)
  BY <1>1, DispatchKeeps
<1>2. CASE ServerStep
  BY <1>2, CallKeeps, ReturnKeeps, StartKeeps, FlagKeeps, StopKeeps DEF ServerStep
<1>3. CASE UpdateArrives \/ PollFails
  BY <1>3, ArrivalKeeps, FailureKeeps
<1>4. CASE PollerStep
  BY <1>4, AnswerKeeps, WakeKeeps, HandleKeeps, HandledKeeps, EndBatchKeeps
  DEF PollerStep
<1>5. CASE CronStep
  BY <1>5, CronKeeps
<1>6. CASE ProgressStep
  BY <1>6, ClaimKeeps, ResolveKeeps, PostKeeps, EndKeeps, ExpiryKeeps
  DEF ProgressStep
<1>7. CASE UNCHANGED << vars, gatewayVars >>
  <2>1. UNCHANGED << setup, server, telegram, platform, discord, cron, progress,
                     handled, posts, excused, failures >>
    BY <1>7 DEF gatewayVars
  <2>2. Types'
    BY <2>1 DEF GInv, Types
  <2> QED
    BY <2>1, <2>2, LifecycleFrame, InHandFrame, ProgressFrame DEF GInv
<1> QED
  BY <1>1, <1>2, <1>3, <1>4, <1>5, <1>6, <1>7 DEF GatewaysNext

(* The inductive invariant holds in every state of every run.               *)
THEOREM GatewaysInvariant == GatewaysSpec => []GInv
  BY InitGInv, NextGInv, PTL DEF GatewaysSpec

(* Telegram forgets an update only when its handling has ended, over stops  *)
(* in the middle of a batch, restarts without an offset and requests that   *)
(* fail, for any number of updates in any order of chats.                   *)
THEOREM GatewaysConfirmedAreHandled == GatewaysSpec => []ConfirmedAreHandled
<1>1. GInv => ConfirmedAreHandled
  BY DEF GInv, InHand, ConfirmedAreHandled
<1> QED
  BY <1>1, GatewaysInvariant, PTL

(* Once stop() has returned, whatever start() had reached before it was     *)
(* called, no gateway polls, is connected or has a timer armed, for any     *)
(* list of gateways: provided that no start was under way when the stop     *)
(* came, and that no start has replaced a poller or a scheduler.            *)
THEOREM GatewaysStopQuiesces == GatewaysSpec => []StopQuiesces
<1>1. GInv => StopQuiesces
  BY DEF GInv, Lifecycle, Quiet, Kinds, StopQuiesces, IsStopped, AllQuiet
<1> QED
  BY <1>1, GatewaysInvariant, PTL

(* A progress message is posted again only with an excuse, for any number   *)
(* of calls and keys and any size of the cache, none included.              *)
THEOREM GatewaysProgressOnce == GatewaysSpec => []ProgressOnce
<1>1. GInv => ProgressOnce
  <2> SUFFICES ASSUME GInv, NEW k \in Events PROVE posts[k] <= 1 + excused[k]
    BY DEF ProgressOnce
  <2>1. posts[k] + Cardinality(Claimants(k)) <= excused[k] + Held(k)
    BY DEF GInv, Paid
  <2>2. Cardinality(Claimants(k)) \in Nat
    <3>1. IsFiniteSet(Calls) /\ Claimants(k) \subseteq Calls
      BY GatewaysAssumption DEF Claimants
    <3> QED
      BY <3>1, FS_Subset, FS_CardinalityType, Zenon
  <2>3. posts[k] \in Nat /\ excused[k] \in Nat /\ Held(k) \in {0, 1}
    BY DEF GInv, Types, Held, HeldIn
  <2> QED
    BY <2>1, <2>2, <2>3
<1> QED
  BY <1>1, GatewaysInvariant, PTL
=============================================================================
