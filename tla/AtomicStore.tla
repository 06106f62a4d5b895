----------------------------- MODULE AtomicStore -----------------------------
(***************************************************************************)
(* What a run store promises about one run: every call takes effect at one *)
(* moment between its question and its answer, as a whole and only what it *)
(* names.  An error leaves open whether it did, and so does a crash.       *)
(***************************************************************************)
EXTENDS Sequences

CONSTANTS
  Clients,    \* who calls the store
  Ops,        \* the calls they may make
  Blank,      \* the tables of a run that does not exist
  NewRow      \* the row of a run that was just created

VARIABLES
  tables,     \* what is stored of the run
  asked       \* the call of each client: its state and what it asks for

vars == << tables, asked >>

-----------------------------------------------------------------------------
(* What a call makes of the tables, as the suite every store has to pass    *)
(* asserts it.                                                              *)

Has == tables.row # Blank.row

(* A run is created without entries, whatever its id was used for before.   *)
Created == [Blank EXCEPT !.row = NewRow]

(* A patch changes the fields it names.                                     *)
Patched(op) ==
  [tables EXCEPT !.row =
     [f \in DOMAIN @ |-> IF f \in op.fields THEN op.row[f] ELSE @[f]]]

(* Inputs are read back in the order of their offsets.                      *)
InputAppended(op) == [tables EXCEPT !.inbox = @ \cup {op.n}]

(* Deltas are chained in the order they were appended.                      *)
DeltaAppended(op) == [tables EXCEPT !.deltas = Append(@, op.n)]

(* One value per key, the last one that was given.                          *)
Upserted(op) == [tables EXCEPT !.cells[op.table] = op.n]

(* A record that is appended again stays as it is.                          *)
RecordAppended(op) == [tables EXCEPT !.records = @ \cup {op.n}]

(* Nothing of a run outlives its deletion.                                  *)
Deleted == Blank

Changed(op) ==
  CASE op.what = "patch"  -> Patched(op)
    [] op.what = "inbox"  -> InputAppended(op)
    [] op.what = "delta"  -> DeltaAppended(op)
    [] op.what = "cell"   -> Upserted(op)
    [] op.what = "record" -> RecordAppended(op)

(* Only a run that exists can be changed.                                   *)
Effect(op) ==
  CASE op.what = "create" -> Created
    [] op.what = "delete" -> Deleted
    [] OTHER              -> IF Has THEN Changed(op) ELSE tables

-----------------------------------------------------------------------------

Quiet == [state |-> "idle"]

Asking(c, op, state) == asked' = [asked EXCEPT ![c] = [state |-> state, op |-> op]]
Answered(c, state) == asked' = [asked EXCEPT ![c] = [state |-> state]]

Init == tables = Blank /\ asked = [c \in Clients |-> Quiet]

Ask(c) ==
  /\ asked[c].state \in {"idle", "ok", "error"}
  /\ \E op \in Ops : Asking(c, op, "asked")
  /\ UNCHANGED tables

Take(c) ==
  /\ asked[c].state = "asked"
  /\ tables' = Effect(asked[c].op)
  /\ Asking(c, asked[c].op, "taken") \/ Answered(c, "ok") \/ Answered(c, "error")

Answer(c) ==
  /\ asked[c].state = "taken"
  /\ Answered(c, "ok") \/ Answered(c, "error")
  /\ UNCHANGED tables

Refuse(c) ==
  /\ asked[c].state = "asked"
  /\ Answered(c, "error")
  /\ UNCHANGED tables

(* A process that opens the store again finds all that was stored.          *)
Crash ==
  /\ asked' = [c \in Clients |-> Quiet]
  /\ UNCHANGED tables

Next ==
  \/ \E c \in Clients : Ask(c) \/ Take(c) \/ Answer(c) \/ Refuse(c)
  \/ Crash

Spec == Init /\ [][Next]_vars

=============================================================================
