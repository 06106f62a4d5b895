-------------------------- MODULE MCCheckpointRun --------------------------
(* Instances of CheckpointRun for TLC.                                      *)
EXTENDS CheckpointRun

(* A conversation that never ends: one effect and one reply per input.      *)
Chat == [nodes |-> << "await", "effect", "assistant" >>, loopStart |-> 1,
         canExit |-> FALSE]

(* A conversation whose condition may end it.                               *)
Talk == [nodes |-> << "system", "inbox", "await", "assistant" >>,
         loopStart |-> 3, canExit |-> TRUE]

(* A straight line through an input and a durable sleep.                    *)
Reminder == [nodes |-> << "system", "await", "sleep", "assistant" >>,
             loopStart |-> 5, canExit |-> FALSE]

(* A graph that takes no input, as an event or a schedule starts it.        *)
Notice == [nodes |-> << "system", "sleep", "assistant" >>, loopStart |-> 4,
           canExit |-> FALSE]

(* The same with two sleeps, the second armed while the sweep that fired    *)
(* the first is in flight.                                                  *)
Drip == [nodes |-> << "sleep", "assistant", "sleep" >>, loopStart |-> 4,
         canExit |-> FALSE]

On(graph, limit, kept) ==
  [nodes |-> graph.nodes, loopStart |-> graph.loopStart,
   canExit |-> graph.canExit, maxIterations |-> limit, cached |-> kept]

(* Every graph on both kinds of store, with room in the loops for both      *)
(* inputs, and a conversation without.                                      *)
AllSetups == {On(g, 3, kept) : g \in {Chat, Talk, Reminder, Drip},
                               kept \in BOOLEAN}
             \cup {On(Notice, 3, TRUE), On(Chat, 2, FALSE)}

(* One answer to one input, on a store that reads a fresh copy of the run.  *)
Answer == [nodes |-> << "inbox", "assistant" >>, loopStart |-> 3,
           canExit |-> FALSE]

OneAnswer == {On(Answer, 3, FALSE)}

=============================================================================
