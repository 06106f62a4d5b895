----------------------------- MODULE SerialLanes -----------------------------
(***************************************************************************)
(* What a per-key mutex promises: one lane per key, a first-in first-out    *)
(* queue of calls of which only the head may be inside its critical         *)
(* section.  packages/core/src/utils/keyed_mutex.ts says the same of itself *)
(* ("tasks for the same key run one at a time in submission order").        *)
(***************************************************************************)
EXTENDS Sequences

CONSTANTS Tasks, Keys

VARIABLES
    lane,       \* key -> its calls that have not finished, oldest first
    inside      \* the calls whose fn() is running

Init == lane = [k \in Keys |-> <<>>] /\ inside = {}

Enqueue(k, t) ==
    /\ lane' = [lane EXCEPT ![k] = Append(@, t)]
    /\ UNCHANGED inside

Enter(k) ==
    /\ lane[k] # <<>>
    /\ Head(lane[k]) \notin inside
    /\ inside' = inside \cup {Head(lane[k])}
    /\ UNCHANGED lane

Leave(k) ==
    /\ lane[k] # <<>>
    /\ Head(lane[k]) \in inside
    /\ inside' = inside \ {Head(lane[k])}
    /\ lane' = [lane EXCEPT ![k] = Tail(@)]

Next == \E k \in Keys : Enter(k) \/ Leave(k) \/ \E t \in Tasks : Enqueue(k, t)

(* The head of a lane enters and leaves. *)
Spec ==
    /\ Init
    /\ [][Next]_<<lane, inside>>
    /\ \A k \in Keys : WF_<<lane, inside>>(Enter(k)) /\ WF_<<lane, inside>>(Leave(k))
=============================================================================
