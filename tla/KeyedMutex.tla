----------------------------- MODULE KeyedMutex -----------------------------
(***************************************************************************)
(* The per-key mutex of packages/core/src/utils/keyed_mutex.ts.  The app   *)
(* serialises run, send, resume, recovery and timer firing of one run id    *)
(* with it; the runtime server serialises one conversation's dispatches.    *)
(*                                                                         *)
(* A task is one call of run(key, fn).  The code keeps, per key, the tail   *)
(* of a chain of promises; a task awaits the chain it found there and is    *)
(* itself the new tail.  The promise `chain` of a task settles one step     *)
(* after both the promise before it settled and the task released its own, *)
(* which is what the variable settled records: everything between two       *)
(* awaits is one action, and a promise settles in an action of its own.     *)
(***************************************************************************)
EXTENDS Naturals

CONSTANTS
    Tasks,      \* the calls of run(key, fn)
    Keys,       \* the keys they may name
    NoTask      \* the absent map entry, undefined in the code

ASSUME NoTaskAssumption == NoTask \notin Tasks

VARIABLES
    pc,         \* where each call is: "idle", "waiting", "running", "done"
    key,        \* the key a submitted call named
    previous,   \* the chain the call found in the map when it was submitted
    locks,      \* the map: key -> the call whose chain is the tail
    settled,    \* the calls whose chain promise has settled
    turn,       \* history: the call's place in the order of submissions
    submitted   \* history: how many calls were submitted

vars == <<pc, key, previous, locks, settled, turn, submitted>>

Init ==
    /\ pc = [t \in Tasks |-> "idle"]
    /\ key \in [Tasks -> Keys]
    /\ previous = [t \in Tasks |-> NoTask]
    /\ locks = [k \in Keys |-> NoTask]
    /\ settled = {}
    /\ turn = [t \in Tasks |-> 0]
    /\ submitted = 0

(* What `await previous?.catch(...)` waits for. *)
PreviousSettled(t) == previous[t] = NoTask \/ previous[t] \in settled

(* run() up to its first await: read the tail, become the tail. *)
Submit(t) ==
    /\ pc[t] = "idle"
    /\ pc' = [pc EXCEPT ![t] = "waiting"]
    /\ previous' = [previous EXCEPT ![t] = locks[key[t]]]
    /\ locks' = [locks EXCEPT ![key[t]] = t]
    /\ submitted' = submitted + 1
    /\ turn' = [turn EXCEPT ![t] = submitted + 1]
    /\ UNCHANGED <<key, settled>>

(* The await resumes and fn() is called. *)
Start(t) ==
    /\ pc[t] = "waiting"
    /\ PreviousSettled(t)
    /\ pc' = [pc EXCEPT ![t] = "running"]
    /\ UNCHANGED <<key, previous, locks, settled, turn, submitted>>

(* Variant: the finally block deletes the entry whoever is the tail.          *)
FinishDeletesAnyEntry(t) ==
    /\ pc[t] = "running"
    /\ pc' = [pc EXCEPT ![t] = "done"]
    /\ locks' = [locks EXCEPT ![key[t]] = NoTask]
    /\ UNCHANGED <<key, previous, settled, turn, submitted>>

(* Variant: the entry is never deleted.                                       *)
FinishKeepsEntry(t) ==
    /\ pc[t] = "running"
    /\ pc' = [pc EXCEPT ![t] = "done"]
    /\ locks' = locks
    /\ UNCHANGED <<key, previous, settled, turn, submitted>>

(* fn() returned or threw, and the finally block runs: the call releases    *)
(* its promise and deletes the map entry when it is still the tail.         *)
Finish(t) ==
    /\ pc[t] = "running"
    /\ pc' = [pc EXCEPT ![t] = "done"]
    /\ locks' = [locks EXCEPT ![key[t]] = IF @ = t THEN NoTask ELSE @]
    /\ UNCHANGED <<key, previous, settled, turn, submitted>>

(* The chain promise of a released call settles, after the one before it.   *)
Settle(t) ==
    /\ pc[t] = "done"
    /\ t \notin settled
    /\ PreviousSettled(t)
    /\ settled' = settled \cup {t}
    /\ UNCHANGED <<pc, key, previous, locks, turn, submitted>>

Next == \E t \in Tasks : Submit(t) \/ Start(t) \/ Finish(t) \/ Settle(t)

(* Promise callbacks always run, and every fn() is assumed to end.  Nothing *)
(* makes a caller submit.                                                   *)
Fairness == \A t \in Tasks : WF_vars(Start(t)) /\ WF_vars(Finish(t)) /\ WF_vars(Settle(t))

Spec == Init /\ [][Next]_vars

FairSpec == Spec /\ Fairness

-----------------------------------------------------------------------------

(* The shape of the state. *)
TypeOK ==
    /\ pc \in [Tasks -> {"idle", "waiting", "running", "done"}]
    /\ key \in [Tasks -> Keys]
    /\ previous \in [Tasks -> Tasks \cup {NoTask}]
    /\ locks \in [Keys -> Tasks \cup {NoTask}]
    /\ settled \subseteq Tasks
    /\ turn \in [Tasks -> Nat]
    /\ submitted \in Nat

Pending(t) == pc[t] \in {"waiting", "running"}

(* Two calls naming the same key are never both inside fn(): what every     *)
(* caller of runLocks.run relies on, although the map entry is deleted and  *)
(* recreated while earlier chains are still settling.                       *)
MutualExclusion ==
    \A t, u \in Tasks :
        pc[t] = "running" /\ pc[u] = "running" /\ key[t] = key[u] => t = u

(* Calls naming one key enter fn() in the order in which they were made:    *)
(* whoever is inside, or has been, was submitted before everyone waiting.   *)
SubmissionOrder ==
    \A t, u \in Tasks :
        /\ key[t] = key[u]
        /\ pc[t] \in {"running", "done"}
        /\ pc[u] = "waiting"
        => turn[t] < turn[u]

(* The map holds an entry for a key exactly while a call naming it is       *)
(* pending: the entry is deleted once its chain drains, so the map does not *)
(* grow, and never while somebody still waits behind it.                    *)
MapDrains ==
    \A k \in Keys : locks[k] = NoTask <=> \A t \in Tasks : key[t] = k => ~Pending(t)

=============================================================================
