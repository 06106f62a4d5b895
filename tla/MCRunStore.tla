----------------------------- MODULE MCRunStore -----------------------------
(***************************************************************************)
(* Instances of RunStore for TLC.                                          *)
(***************************************************************************)
EXTENDS RunStore

Setup(kind, marks, renames, deletes, faults, crashes) ==
  [kind |-> kind, marks |-> marks, renames |-> renames, deletes |-> deletes,
   records |-> kind \in {"postgres", "memory"}, faults |-> faults, crashes |-> crashes]

(* Who may call at the same time on which store: on Redis nobody, on        *)
(* Postgres either a server that marks or a worker that deletes, and        *)
(* everybody where a write is one step.  SQLite dies or fails, not both.    *)
AllSetups ==
  {Setup("postgres", TRUE, FALSE, FALSE, 1, 0),
   Setup("postgres", FALSE, FALSE, TRUE, 1, 0),
   Setup("libsql", TRUE, FALSE, TRUE, 0, 1),
   Setup("redis", FALSE, FALSE, TRUE, 1, 1),
   Setup("sqlite", TRUE, TRUE, TRUE, 0, 1),
   Setup("sqlite", FALSE, TRUE, TRUE, 1, 0),
   Setup("memory", TRUE, TRUE, TRUE, 0, 0)}

=============================================================================
