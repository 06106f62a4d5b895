------------------------------- MODULE RunStore -------------------------------
(***************************************************************************)
(* The stores of durable runs, and the calls a process makes to them about *)
(* one run.                                                                *)
(*                                                                         *)
(* Postgres and libSQL keep a run in tables and every write is one         *)
(* statement, except patch, which selects and updates.  Redis keeps one    *)
(* document, which a write loads, changes and saves, and a set of the ids. *)
(* SQLite and the memory store keep the objects they return; SQLite writes *)
(* its tables as well and reads them when a process starts.                *)
(*                                                                         *)
(* Five parts of the process call at the same time: the worker that holds  *)
(* the lock of the run, the recorder of its execution, the server that     *)
(* marks deliveries, executeCheckpointRun, which renames the agent, and a  *)
(* reader.  None of the last three holds the lock.                         *)
(***************************************************************************)
EXTENDS Integers, Sequences, FiniteSets

CONSTANTS
  Backends,      \* the kind of store and what may happen, see BackendType
  Cells,         \* tables with a value per key, each reduced to one key
  MaxInputs,     \* inputs of a run
  MaxRecords,    \* records of a run
  MaxJobs        \* what the worker does

Kinds == {"postgres", "libsql", "redis", "sqlite", "memory"}
Sql == {"postgres", "libsql"}
Keeps == {"sqlite", "memory"}

(* marks: the server marks deliveries; renames: executeCheckpointRun is     *)
(* called; deletes: runs are deleted; faults, crashes: how many.            *)
BackendType ==
  [kind: Kinds, marks: BOOLEAN, renames: BOOLEAN, deletes: BOOLEAN,
   records: BOOLEAN, faults: Nat, crashes: Nat]

ASSUME StoreAssumption ==
  /\ Backends \subseteq BackendType
  /\ Cells \subseteq {"once", "outbox", "threads", "timers"} /\ "outbox" \in Cells
  /\ {MaxInputs, MaxRecords, MaxJobs} \subseteq Nat

Writers == {"worker", "recorder", "server", "setter"}

(* Of the row only what the properties tell apart.                          *)
RunRow == [cursor: 0..MaxInputs, status: {"none", "open", "done"},
        name: {"none", "agent", "renamed"}]
NoRunRow == [cursor |-> 0, status |-> "none", name |-> "none"]
NewRow == [cursor |-> 0, status |-> "open", name |-> "agent"]

Blank ==
  [row |-> NoRunRow, deltas |-> << >>, inbox |-> {}, records |-> {},
   cells |-> [t \in Cells |-> 0]]

(* A call of the store: a patch names fields and their values, an entry of  *)
(* a table its place n.                                                     *)
Call(what) ==
  [what |-> what, fields |-> {}, row |-> NoRunRow, table |-> "none", n |-> 0]
Entry(what, n) == [Call(what) EXCEPT !.n = n]
Cell(t, n) == [Call("cell") EXCEPT !.table = t, !.n = n]
Patch(fields, row) == [Call("patch") EXCEPT !.fields = fields, !.row = row]

VARIABLES
  backend,
  rows,      \* what the database has, or the document of the run
  live,      \* the object a store keeps
  index,     \* Redis lists the run among its ids
  calls,     \* the call of each writer
  todo,      \* what the worker calls next
  jobs,      \* what the worker has begun
  reading,   \* the reader
  span,      \* whether a create was answered, or a delete, or neither
  left       \* faults and crashes that may still happen

store == << rows, live, index >>
storeVars == << backend, store, calls, todo, jobs, reading, span, left >>

View == IF backend.kind \in Keeps THEN live ELSE rows
Exists(t) == t.row # NoRunRow
Listed == IF backend.kind = "redis" THEN index ELSE Exists(View)

(* The version of the session the deltas amount to, in the order of their   *)
(* numbers: one that brings nothing new is skipped.                         *)
Version(deltas) ==
  LET after[i \in 0..Len(deltas)] ==
        IF i = 0 THEN 0
        ELSE IF after[i - 1] >= deltas[i] THEN after[i - 1] ELSE deltas[i]
  IN  after[Len(deltas)]

(***************************************************************************)
(* What a write makes of a run.                                            *)
(***************************************************************************)

(* The variant that takes every field from the patch.                       *)
MergedBlindly(seen, op) == op.row

(* The named fields from the patch, the others as they were read.           *)
Merged(seen, op) ==
  [f \in DOMAIN seen |-> IF f \in op.fields THEN op.row[f] ELSE seen[f]]

InsertRun(t) == [t EXCEPT !.row = NewRow]

(* ON CONFLICT DO NOTHING: an offset that is there stays as it is.          *)
InsertInbox(t, op) == [t EXCEPT !.inbox = @ \union {op.n}]

(* The next number is the largest one plus one.                             *)
InsertDelta(t, op) == [t EXCEPT !.deltas = Append(@, op.n)]

UpsertCell(t, op) == [t EXCEPT !.cells[op.table] = op.n]

InsertRecord(t, op) == [t EXCEPT !.records = @ \union {op.n}]

(* The variant that leaves out a table.                                     *)
DeleteForgetsTimers(t) == [Blank EXCEPT !.cells["timers"] = t.cells["timers"]]

(* A transaction over all tables.                                           *)
DeleteRows(t) == Blank

(* The row goes, and the keys that refer to it take the rest along.         *)
DeleteCascade(t) == Blank

SqlWritten(t, op) ==
  CASE op.what = "create" -> InsertRun(t)
    [] op.what = "inbox"  -> InsertInbox(t, op)
    [] op.what = "delta"  -> InsertDelta(t, op)
    [] op.what = "cell"   -> UpsertCell(t, op)
    [] op.what = "record" -> InsertRecord(t, op)
    [] op.what = "delete" ->
         IF backend.kind = "postgres" THEN DeleteRows(t) ELSE DeleteCascade(t)

(* A primary key that is taken, or, where keys are declared, an entry of a  *)
(* run that is not there.                                                   *)
Refused(t, op) ==
  \/ op.what = "create" /\ Exists(t)
  \/ backend.kind = "libsql" /\ ~Exists(t)
       /\ op.what \in {"inbox", "delta", "cell", "record"}

NewDoc == [Blank EXCEPT !.row = NewRow]

DocPatched(doc, op) == [doc EXCEPT !.row = Merged(doc.row, op)]

DocAppended(doc, op) ==
  CASE op.what = "inbox"  -> [doc EXCEPT !.inbox = @ \union {op.n}]
    [] op.what = "delta"  -> [doc EXCEPT !.deltas = Append(@, op.n)]

DocUpserted(doc, op) ==
  CASE op.what = "cell"   -> [doc EXCEPT !.cells[op.table] = op.n]
    [] op.what = "record" -> [doc EXCEPT !.records = @ \union {op.n}]

DocWritten(doc, op) ==
  CASE op.what = "patch"             -> DocPatched(doc, op)
    [] op.what \in {"inbox", "delta"} -> DocAppended(doc, op)
    [] OTHER                         -> DocUpserted(doc, op)

(* The kept object.  An entry whose place is taken is not pushed again, and *)
(* a delta that brings nothing new is dropped.                              *)
ObjectChanged(run, op) ==
  CASE op.what = "patch"  -> [run EXCEPT !.row = Merged(run.row, op)]
    [] op.what = "inbox"  -> [run EXCEPT !.inbox = @ \union {op.n}]
    [] op.what = "delta"  -> IF Version(run.deltas) >= op.n THEN run
                             ELSE [run EXCEPT !.deltas = Append(@, op.n)]
    [] op.what = "cell"   -> [run EXCEPT !.cells[op.table] = op.n]
    [] op.what = "record" -> [run EXCEPT !.records = @ \union {op.n}]

ObjectWritten(run, op) ==
  CASE op.what = "create" -> NewDoc
    [] op.what = "delete" -> Blank
    [] OTHER              -> IF Exists(run) THEN ObjectChanged(run, op) ELSE run

-----------------------------------------------------------------------------
(* Questions and answers.                                                   *)

State(c) == calls[c].state
Op(c) == calls[c].op
Free(c) == State(c) \in {"idle", "ok", "error"}
At(c, state) == calls' = [calls EXCEPT ![c].state = state]
AtRest(state) == [state |-> state, op |-> Call("none"), seen |-> Blank]

(* From a create that was answered to the question to delete it a run is    *)
(* there; from the answer to that to the next create it is not.             *)
SpanAfter(c, state) ==
  span' = IF Op(c).what \in {"create", "delete"} /\ state = "ok"
          THEN Op(c).what ELSE span

Ends(c, state) ==
  /\ calls' = [calls EXCEPT ![c] = AtRest(state)]
  /\ SpanAfter(c, state)

(* A write that reads first, and is over if there is nothing to change.     *)
Loads(c, seen) ==
  IF Exists(rows)
  THEN calls' = [calls EXCEPT ![c].state = "loaded", ![c].seen = seen]
  ELSE calls' = [calls EXCEPT ![c] = AtRest("ok")]

Ask(c, op) ==
  /\ Free(c)
  /\ calls' = [calls EXCEPT ![c] = [state |-> "asked", op |-> op, seen |-> Blank]]
  /\ span' = IF op.what \in {"create", "delete"} THEN "unknown" ELSE span
  /\ UNCHANGED << backend, store, reading, left >>

NoRead == [got |-> Blank, rest |-> << >>, undisturbed |-> TRUE]

StoreInit ==
  /\ backend \in Backends
  /\ rows = Blank /\ live = Blank /\ index = FALSE
  /\ calls = [c \in Writers |-> AtRest("idle")]
  /\ todo = << >> /\ jobs = 0
  /\ reading = NoRead
  /\ span = "delete"
  /\ left = [faults |-> backend.faults, crashes |-> backend.crashes]

-----------------------------------------------------------------------------
(* Who calls.                                                               *)

AllFields == {"cursor", "status", "name"}

(* append: the next offset, and a run that was done is open again.          *)
Appending ==
  << Entry("inbox", Cardinality(View.inbox)) >>
  \o (IF View.row.status = "done"
      THEN << Patch({"status"}, [View.row EXCEPT !.status = "open"]) >>
      ELSE << >>)

(* persistRun after every input was consumed: a delta if the session grew,  *)
(* and then the whole row.                                                  *)
Persisting(status) ==
  LET n == Cardinality(View.inbox)
  IN  (IF Version(View.deltas) < n THEN << Entry("delta", n) >> ELSE << >>)
      \o << Patch(AllFields, [View.row EXCEPT !.cursor = n, !.status = status]) >>

(* The worker begins one thing at a time, under the lock of the run; what   *)
(* the recorder was given is drained before the lock is released.           *)
Begin(list) ==
  /\ Free("worker") /\ todo = << >> /\ jobs < MaxJobs
  /\ jobs' = jobs + 1
  /\ todo' = Tail(list)
  /\ Ask("worker", Head(list))

Create == Free("recorder") /\ Begin(<< Call("create") >>)

AppendInput ==
  /\ Exists(View) /\ Cardinality(View.inbox) < MaxInputs
  /\ Begin(Appending)

Persist ==
  /\ Exists(View)
  /\ \E status \in {"open", "done"} : Begin(Persisting(status))

(* A memo, a timer that is armed and then fired, a provider thread.         *)
Upsert ==
  /\ Exists(View)
  /\ \E t \in Cells \ {"outbox"}, n \in 1..2 : Begin(<< Cell(t, n) >>)

Delete ==
  /\ backend.deletes /\ Exists(View) /\ Free("recorder")
  /\ Begin(<< Call("delete") >>)

(* The next call of what was begun, if the last one succeeded.              *)
GoOn ==
  /\ todo # << >> /\ State("worker") = "ok"
  /\ todo' = Tail(todo)
  /\ Ask("worker", Head(todo))
  /\ UNCHANGED jobs

GiveUp ==
  /\ todo # << >> /\ State("worker") = "error"
  /\ todo' = << >>
  /\ UNCHANGED << backend, store, calls, jobs, reading, span, left >>

(* While the worker executes the run, in the order of the records.          *)
Record ==
  /\ backend.records /\ Exists(View)
  /\ Cardinality(View.records) < MaxRecords
  /\ Op("worker").what \notin {"create", "delete"}
  /\ Ask("recorder", Entry("record", Cardinality(View.records)))
  /\ UNCHANGED << todo, jobs >>

(* An entry that is prepared, and then one that is marked as delivered: the *)
(* run was read, and the lock is not held.                                  *)
Mark ==
  /\ backend.marks /\ Exists(View) /\ View.cells["outbox"] < 2
  /\ Ask("server", Cell("outbox", View.cells["outbox"] + 1))
  /\ UNCHANGED << todo, jobs >>

(* executeCheckpointRun names the agent of a run that exists.               *)
Rename ==
  /\ backend.renames /\ Exists(View) /\ State("setter") = "idle"
  /\ Ask("setter", Patch({"name"}, [View.row EXCEPT !.name = "renamed"]))
  /\ UNCHANGED << todo, jobs >>

-----------------------------------------------------------------------------
(* Postgres and libSQL.                                                     *)

OnlyStore == UNCHANGED << backend, todo, jobs, reading >>

Statement(c) ==
  /\ backend.kind \in Sql /\ State(c) = "asked" /\ Op(c).what # "patch"
  /\ ~Refused(rows, Op(c))
  /\ rows' = SqlWritten(rows, Op(c))
  /\ reading' = [reading EXCEPT !.undisturbed =
                   @ /\ (reading.rest = << >> \/ Exists(rows) = Exists(rows'))]
  /\ Ends(c, "ok")
  /\ UNCHANGED << backend, todo, jobs, live, index, left >>

RefuseStatement(c) ==
  /\ backend.kind \in Sql /\ State(c) = "asked"
  /\ Refused(rows, Op(c))
  /\ Ends(c, "error")
  /\ OnlyStore /\ UNCHANGED << store, left >>

(* patch reads the row to fill in the fields it does not name.              *)
SelectRun(c) ==
  /\ backend.kind \in Sql /\ State(c) = "asked" /\ Op(c).what = "patch"
  /\ Loads(c, [Blank EXCEPT !.row = rows.row])
  /\ OnlyStore /\ UNCHANGED << store, span, left >>

UpdateRun(c) ==
  /\ backend.kind \in Sql /\ State(c) = "loaded"
  /\ rows' = IF Exists(rows)
             THEN [rows EXCEPT !.row = Merged(calls[c].seen.row, Op(c))] ELSE rows
  /\ Ends(c, "ok")
  /\ OnlyStore /\ UNCHANGED << live, index, left >>

-----------------------------------------------------------------------------
(* Redis.                                                                   *)

LoadDoc(c) ==
  /\ backend.kind = "redis" /\ State(c) = "asked"
  /\ Op(c).what \notin {"create", "delete"}
  /\ Loads(c, rows)
  /\ OnlyStore /\ UNCHANGED << store, span, left >>

SaveDoc(c) ==
  /\ backend.kind = "redis" /\ State(c) = "loaded"
  /\ rows' = DocWritten(calls[c].seen, Op(c))
  /\ Ends(c, "ok")
  /\ OnlyStore /\ UNCHANGED << live, index, left >>

(* A new document is set and then listed, whatever the id had before.       *)
SetDoc(c) ==
  /\ backend.kind = "redis" /\ State(c) = "asked" /\ Op(c).what = "create"
  /\ rows' = NewDoc
  /\ At(c, "taken")
  /\ OnlyStore /\ UNCHANGED << live, index, span, left >>

(* A document is deleted and then taken off the list.                       *)
DeleteDoc(c) ==
  /\ backend.kind = "redis" /\ State(c) = "asked" /\ Op(c).what = "delete"
  /\ rows' = Blank
  /\ At(c, "taken")
  /\ OnlyStore /\ UNCHANGED << live, index, span, left >>

IndexDoc(c) ==
  /\ State(c) = "taken"
  /\ index' = (Op(c).what = "create")
  /\ Ends(c, "ok")
  /\ OnlyStore /\ UNCHANGED << rows, live, left >>

-----------------------------------------------------------------------------
(* The stores that keep their objects.                                      *)

ObjectWrite(c) ==
  /\ backend.kind = "memory" /\ State(c) = "asked"
  /\ live' = ObjectWritten(live, Op(c))
  /\ Ends(c, "ok")
  /\ OnlyStore /\ UNCHANGED << rows, index, left >>

(* The statement runs only for an object that is there.                     *)
SqliteWritten(t, op) ==
  IF ~Exists(live) /\ op.what \notin {"create", "delete"} THEN t
  ELSE CASE op.what = "patch" -> [t EXCEPT !.row = Merged(live.row, op)]
         [] OTHER             -> SqlWritten(t, op)

SqliteWrite(c) ==
  /\ backend.kind = "sqlite" /\ State(c) = "asked"
  /\ ~Refused(rows, Op(c))
  /\ rows' = SqliteWritten(rows, Op(c))
  /\ live' = ObjectWritten(live, Op(c))
  /\ Ends(c, "ok")
  /\ OnlyStore /\ UNCHANGED << index, left >>

SqliteRefuses(c) ==
  /\ backend.kind = "sqlite" /\ State(c) = "asked"
  /\ Refused(rows, Op(c))
  /\ Ends(c, "error")
  /\ OnlyStore /\ UNCHANGED << store, left >>

(* A patch has changed the object when its statement fails.                 *)
SqlitePatchFails(c) ==
  /\ backend.kind = "sqlite" /\ State(c) = "asked" /\ Op(c).what = "patch"
  /\ left.faults > 0
  /\ left' = [left EXCEPT !.faults = @ - 1]
  /\ live' = ObjectWritten(live, Op(c))
  /\ Ends(c, "error")
  /\ OnlyStore /\ UNCHANGED << rows, index >>

-----------------------------------------------------------------------------
(* Faults.                                                                  *)

(* A statement or command that fails changes nothing; the ones before it    *)
(* stay done.  That a remote store applies one and the answer is lost is    *)
(* left out here; CheckpointRun has it (Unsaved).                           *)
Fails(c) ==
  /\ left.faults > 0 /\ backend.kind # "memory"
  /\ State(c) \in {"asked", "loaded", "taken"}
  /\ ~(backend.kind = "sqlite" /\ Op(c).what = "patch")
  /\ left' = [left EXCEPT !.faults = @ - 1]
  /\ Ends(c, "error")
  /\ OnlyStore /\ UNCHANGED store

(* The process dies, and the next one reads what SQLite has.  The runs of a *)
(* store in memory end with it.                                             *)
ProcessDies ==
  /\ left.crashes > 0 /\ backend.kind # "memory"
  /\ left' = [left EXCEPT !.crashes = @ - 1]
  /\ calls' = [c \in Writers |-> AtRest("idle")]
  /\ todo' = << >>
  /\ reading' = NoRead
  /\ live' = IF backend.kind = "sqlite" THEN rows ELSE live
  /\ UNCHANGED << backend, rows, index, jobs, span >>

-----------------------------------------------------------------------------
(* The reader.                                                              *)

(* The variant that selects the row last.                                   *)
RowLast == << "deltas", "inbox", "row" >>

(* One select after the other, the row of the run first.  The tables whose  *)
(* entries say nothing about another one are left out.                      *)
TableOrder == << "row", "deltas", "inbox" >>

OnlyReading == UNCHANGED << backend, store, calls, todo, jobs, span, left >>

StartRead ==
  /\ backend.kind \in Sql /\ reading.rest = << >> /\ Exists(rows)
  /\ reading' = [NoRead EXCEPT !.rest = TableOrder]
  /\ OnlyReading

(* What is known after the next select.                                     *)
Known == [reading.got EXCEPT ![Head(reading.rest)] = rows[Head(reading.rest)]]

(* A run whose row is not there is undefined; the last select completes the *)
(* answer.                                                                  *)
ReadTable ==
  /\ reading.rest # << >>
  /\ reading' = IF Len(reading.rest) = 1
                   \/ (Head(reading.rest) = "row" /\ ~Exists(rows))
                THEN NoRead
                ELSE [reading EXCEPT !.got = Known, !.rest = Tail(@)]
  /\ OnlyReading

StoreNext ==
  \/ Create \/ AppendInput \/ Persist \/ Upsert \/ Delete \/ GoOn \/ GiveUp
  \/ Record \/ Mark \/ Rename
  \/ \E c \in Writers :
       \/ Statement(c) \/ RefuseStatement(c) \/ SelectRun(c) \/ UpdateRun(c)
       \/ LoadDoc(c) \/ SaveDoc(c) \/ SetDoc(c) \/ DeleteDoc(c) \/ IndexDoc(c)
       \/ ObjectWrite(c) \/ SqliteWrite(c) \/ SqliteRefuses(c)
       \/ SqlitePatchFails(c) \/ Fails(c)
  \/ ProcessDies
  \/ StartRead \/ ReadTable

StoreSpec == StoreInit /\ [][StoreNext]_storeVars

-----------------------------------------------------------------------------
(* Properties.                                                              *)

Tables ==
  [row: RunRow, deltas: Seq(1..MaxInputs), inbox: SUBSET (0..MaxInputs - 1),
   records: SUBSET (0..MaxRecords - 1), cells: [Cells -> 0..2]]

(* The shape of the state.                                                  *)
StoreTypeOK ==
  /\ backend \in Backends
  /\ rows \in Tables /\ live \in Tables /\ index \in BOOLEAN
  /\ \A c \in Writers :
       State(c) \in {"idle", "asked", "loaded", "taken", "ok", "error"}
  /\ reading.got \in Tables /\ reading.undisturbed \in BOOLEAN
  /\ span \in {"create", "delete", "unknown"}

(* What a reader put together from several selects, while the worker went   *)
(* on: the recovery scan, the timer sweep and the server read a run without *)
(* its lock, from PostgresRunStore.reconstructRun or its libSQL twin.  The  *)
(* cursor it sees is covered by the inputs and by the session it sees,      *)
(* unless the run was created or deleted meanwhile.                         *)
TornReadSafe ==
  (Len(reading.rest) = 1 /\ reading.undisturbed) =>
    /\ Known.row.cursor <= Cardinality(Known.inbox)
    /\ Known.row.cursor <= Version(Known.deltas)

(* entries() finds the runs that are there, which is what recovery, timers  *)
(* and deliveries are driven by: a run from the answer to create until it   *)
(* is to be deleted, whatever else fails and whenever the process dies.     *)
(* After the answer to delete nothing of it is left, for a run of the same  *)
(* name would find it.                                                      *)
ListedAsStored ==
  /\ span = "create" => Exists(View) /\ Listed
  /\ span = "delete" => View = Blank /\ ~Listed


-----------------------------------------------------------------------------
(* What a store promises, see AtomicStore.                                  *)

NewRows == {r \in RunRow : r.status # "none"}

(* The calls the writers make.                                              *)
AllCalls ==
  {Call("create"), Call("delete")}
  \cup {Patch(f, r) : f \in {AllFields, {"status"}, {"name"}}, r \in NewRows}
  \cup {Entry("inbox", n) : n \in 0..MaxInputs - 1}
  \cup {Entry("delta", n) : n \in 1..MaxInputs}
  \cup {Entry("record", n) : n \in 0..MaxRecords - 1}
  \cup {Cell(t, n) : t \in Cells, n \in 1..2}

Asked(c) ==
  CASE Free(c)             -> [state |-> State(c)]
    [] State(c) = "loaded" -> [state |-> "asked", op |-> Op(c)]
    [] OTHER               -> [state |-> State(c), op |-> Op(c)]

Abstract == INSTANCE AtomicStore WITH
  Clients <- Writers, Ops <- AllCalls,
  tables <- View, asked <- [c \in Writers |-> Asked(c)]

(* Every write of a store takes effect at one moment, as a whole, and       *)
(* changes what it names and nothing else, over writers that overlap where  *)
(* the store allows it, statements that fail and processes that die.  What  *)
(* SQLite keeps after a failed patch is seen until the process dies.        *)
ActsAtomically == Abstract!Spec

=============================================================================
