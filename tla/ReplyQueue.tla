----------------------------- MODULE ReplyQueue -----------------------------
(***************************************************************************)
(* What the outbox promises each target: the replies offered to it are a   *)
(* queue, served from its head.  The head may be received more than once,  *)
(* and is left only after it was received; nothing else is ever sent.      *)
(* (packages/core/src/runtime_server.ts; design-docs/hook-system.md,       *)
(* "Runtime Outbox": at-least-once but retryable.)                         *)
(***************************************************************************)
EXTENDS Naturals, Sequences

CONSTANT Targets   \* where replies may go

VARIABLES offered,   \* how many replies are in the queue of a target, served
                     \* ones included
          served,    \* how many of them are recorded as delivered
          received   \* the positions of the replies the target received

vars == << offered, served, received >>

Init ==
  /\ offered = [t \in Targets |-> 0]
  /\ served = [t \in Targets |-> 0]
  /\ received = [t \in Targets |-> << >>]

Offer(t) ==
  /\ offered' = [offered EXCEPT ![t] = @ + 1]
  /\ UNCHANGED << served, received >>

Send(t) ==
  /\ served[t] < offered[t]
  /\ received' = [received EXCEPT ![t] = Append(@, served[t] + 1)]
  /\ UNCHANGED << offered, served >>

Serve(t) ==
  /\ received[t] # << >> /\ received[t][Len(received[t])] = served[t] + 1
  /\ served' = [served EXCEPT ![t] = @ + 1]
  /\ UNCHANGED << offered, received >>

Next == \E t \in Targets : Offer(t) \/ Send(t) \/ Serve(t)

Spec == Init /\ [][Next]_vars
=============================================================================
