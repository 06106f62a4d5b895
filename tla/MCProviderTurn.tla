-------------------------- MODULE MCProviderTurn ---------------------------
(***************************************************************************)
(* Instances of ProviderTurn for TLC.                                      *)
(***************************************************************************)
EXTENDS ProviderTurn

(* A durable turn of each provider with one restart or none, Claude         *)
(* sessions that fork, and threads from the options and from the session.   *)
Durable(p, again, most, id, forks) ==
  [provider |-> p, restart |-> again, max |-> most, thread |-> id,
   recording |-> TRUE, keep |-> TRUE, fork |-> forks]

AllSetups ==
  {Durable("codex", TRUE, 1, "new", FALSE), Durable("codex", TRUE, 2, "auto", FALSE),
   Durable("codex", FALSE, 1, "fixed", FALSE),
   Durable("claude", TRUE, 1, "new", TRUE), Durable("claude", TRUE, 1, "auto", FALSE),
   [Durable("codex", TRUE, 1, "auto", FALSE) EXCEPT !.recording = FALSE]}
=============================================================================
