--------------------------- MODULE MCCodexClient ---------------------------
(***************************************************************************)
(* Instances of CodexClient for TLC.                                       *)
(***************************************************************************)
EXTENDS CodexClient

CONSTANTS a, b

Both == {a, b}

Transport(users, lines, together, same, most) ==
  [callers |-> users, line |-> lines, batched |-> together, collide |-> same,
   limit |-> most]

(* A shared client, one with a caller of its own whose frames arrive        *)
(* together, a server that numbers like the client, and a line transport    *)
(* with a server that does and one that does not.                           *)
AllSetups == {Transport(Both, FALSE, FALSE, FALSE, 2),
              Transport({a}, FALSE, TRUE, FALSE, 3),
              Transport({a}, FALSE, FALSE, TRUE, 3),
              Transport(Both, TRUE, FALSE, FALSE, 3),
              Transport(Both, TRUE, FALSE, TRUE, 3)}
=============================================================================
