----------------------------- MODULE StoreProofs -----------------------------
(***************************************************************************)
(* Proofs about the stores of durable runs and the lease that guards them, *)
(* for every value of the constants.                                       *)
(*                                                                         *)
(* RunStore: what a store returns is what its runs were written with,      *)
(* whatever a reader of several statements sees in between, and every call *)
(* takes effect at one moment, as AtomicStore has it.                      *)
(*                                                                         *)
(* Deployment: what deploy() leaves behind, and who may come to hold the   *)
(* lease.                                                                  *)
(*                                                                         *)
(* StoreLease: fencing tokens are monotonic, belong to one holder, and     *)
(* only the holder of a live lease writes.                                 *)
(***************************************************************************)
EXTENDS RunStore, Deployment, StoreLease, FiniteSetTheorems, SequenceTheorems, TLAPS

-----------------------------------------------------------------------------
(* The stores.                                                              *)

(* Where a call may still write to a run that was deleted, or bring back    *)
(* what it had read of it, nobody calls while the worker deletes: on        *)
(* Postgres no server that marks, on Redis neither a server nor             *)
(* executeCheckpointRun.                                                    *)
NoLateWriters ==
  \A b \in Backends : b.deletes =>
    /\ b.kind \in {"postgres", "redis"} => ~ b.marks
    /\ b.kind = "redis" => ~ b.renames

(* A write that reads first overlaps with no other one of the same fields:  *)
(* on Postgres and libSQL only the worker patches, on Redis only it calls.  *)
(* What SQLite keeps when a patch failed is not lost, for it does not die.  *)
NoOverlap ==
  \A b \in Backends :
    /\ b.kind \in Sql => ~ b.renames
    /\ b.kind = "redis" => ~ b.marks /\ ~ b.renames /\ ~ b.records
    /\ b.kind = "sqlite" => b.faults = 0 \/ b.crashes = 0

(* On Postgres and libSQL nobody renames the agent of a run while it may be *)
(* deleted and created again.                                               *)
NoStaleRenames ==
  \A b \in Backends : b.kind \in Sql /\ b.deletes => ~ b.renames

Busy(c) == State(c) \in {"asked", "loaded", "taken"}

Writes == {"inbox", "delta", "cell", "record", "patch"}

(* The calls there are.                                                     *)
StoreOps == AllCalls \cup {Call("none")}

(* What they name is in its bounds, and a patch leaves a run that exists.   *)
Bounded ==
  {op \in [what : Writes \cup {"none", "create", "delete"}, fields : SUBSET AllFields,
           row : RunRow, table : Cells \cup {"none"}, n : Nat] :
     /\ op.what = "inbox" => op.n \in 0 .. MaxInputs - 1
     /\ op.what = "delta" => op.n \in 1 .. MaxInputs
     /\ op.what = "record" => op.n \in 0 .. MaxRecords - 1
     /\ op.what = "cell" => op.table \in Cells /\ op.n \in 0 .. 2
     /\ op.what = "patch" => op.row.status # "none"}

(* A run has a row with a status, or none at all.                           *)
Runs == {t \in Tables : t.row.status = "none" => t.row = NoRunRow}

StoreCalls ==
  [state : {"idle", "asked", "loaded", "taken", "ok", "error"}, op : StoreOps, seen : Runs]

(* The selects the reader has left.                                         *)
OneLeft == <<"inbox">>
TwoLeft == <<"deltas", "inbox">>

Readings ==
  [got : Tables, undisturbed : BOOLEAN, rest : {<< >>, OneLeft, TwoLeft, TableOrder}]

StoreTypes ==
  /\ backend \in Backends
  /\ rows \in Runs /\ live \in Runs /\ index \in BOOLEAN
  /\ calls \in [Writers -> StoreCalls]
  /\ todo \in Seq(StoreOps) /\ Len(todo) <= 1
  /\ reading \in Readings
  /\ span \in {"create", "delete", "unknown"}

(* Who calls what, and how far.                                             *)
Roles ==
  /\ \A c \in Writers : Free(c) => Op(c).what = "none"
  /\ \A c \in Writers : Busy(c) =>
       /\ c = "recorder" => Op(c).what = "record" /\ backend.records
       /\ c = "server" => Op(c).what = "cell" /\ backend.marks
       /\ c = "setter" => /\ Op(c).what = "patch" /\ backend.renames
                          /\ "cursor" \notin Op(c).fields
       /\ Op(c).what # "none"
       /\ Op(c).what \in {"create", "delete"} => c = "worker"
       /\ Op(c).what = "delete" => backend.deletes
  /\ \A c \in Writers : State(c) = "loaded" =>
       /\ backend.kind \in Sql => Op(c).what = "patch"
       /\ backend.kind \in Sql \cup {"redis"}
       /\ Op(c).what \in Writes /\ Exists(calls[c].seen)
  /\ \A c \in Writers : State(c) = "taken" =>
       backend.kind = "redis" /\ Op(c).what \in {"create", "delete"}
  /\ todo # << >> => todo[1].what = "patch"
  /\ Op("worker").what \in {"create", "delete"} => Free("recorder") /\ todo = << >>

(* Redis has done the first half of a create, or of a delete.               *)
HalfDone(t) ==
  State("worker") = "taken" =>
    /\ Op("worker").what = "create" => Exists(t)
    /\ Op("worker").what = "delete" => t = Blank

(* What the answers to create and delete say of the run, and who may still  *)
(* be calling.                                                              *)
Spans ==
  /\ HalfDone(rows)
  /\ span # "unknown" => Op("worker").what \notin {"create", "delete"}
  /\ span = "create" => Exists(View) /\ Listed
  /\ span = "delete" =>
       /\ View = Blank /\ ~ Listed
       /\ Free("worker") /\ todo = << >> /\ Free("recorder")
       /\ backend.kind \in {"postgres", "redis"} => Free("server")
       /\ backend.kind = "redis" => Free("setter")
  /\ backend.kind = "sqlite" =>
       /\ Exists(live) <=> Exists(rows)
       /\ span = "delete" => rows = Blank

StoreIInv == StoreTypes /\ Roles /\ Spans

(* What a write starts from is what is there: all of a run or nothing.      *)
Whole ==
  /\ Exists(View) \/ View = Blank
  /\ backend.kind = "postgres" =>
       \A c \in Writers : Busy(c) /\ Op(c).what \in Writes \ {"patch"} => Exists(rows)
  /\ \A c \in Writers : State(c) = "loaded" =>
       /\ Exists(rows) /\ calls[c].seen.row = rows.row
       /\ backend.kind = "redis" => calls[c].seen = rows
  /\ backend.kind \in Keeps /\ Op("worker").what = "delta" =>
       ~ Version(live.deltas) >= Op("worker").n
  /\ backend.kind = "sqlite" /\ backend.faults = 0 => rows = live
  /\ left \in [faults : Nat, crashes : Nat]
  /\ backend.faults = 0 => left.faults = 0
  /\ backend.crashes = 0 => left.crashes = 0

(* A cursor that the inputs, and the session, of a run cover.               *)
HasInputs(k, t) == k <= Cardinality(t.inbox)
HasSession(k, t) == k <= Version(t.deltas)
Within(k, t) == HasInputs(k, t) /\ HasSession(k, t)

(* The cursors that the row has and may get: what a patch has read, what    *)
(* the worker patches, and what it patches after the delta it asks for.     *)
RowCovered == Within(rows.row.cursor, rows)

SeenCovered ==
  \A c \in Writers : State(c) = "loaded" => Within(calls[c].seen.row.cursor, rows)

PatchCovered ==
  Op("worker").what = "patch" /\ "cursor" \in Op("worker").fields =>
    Within(Op("worker").row.cursor, rows)

NextCovered ==
  todo # << >> /\ State("worker") # "error" /\ "cursor" \in todo[1].fields =>
    /\ HasInputs(todo[1].row.cursor, rows)
    /\ \/ HasSession(todo[1].row.cursor, rows)
       \/ /\ State("worker") = "asked" /\ Op("worker").what = "delta"
          /\ todo[1].row.cursor <= Op("worker").n

Cursors ==
  backend.kind \in Sql => RowCovered /\ SeenCovered /\ PatchCovered /\ NextCovered

(* What the reader has.                                                     *)
Reads ==
  /\ reading.rest # << >> => backend.kind \in Sql
  /\ reading.rest # << >> /\ reading.undisturbed => Exists(rows)
  /\ reading.rest = TwoLeft /\ reading.undisturbed =>
       Within(reading.got.row.cursor, rows)
  /\ reading.rest = OneLeft /\ reading.undisturbed =>
       /\ HasInputs(reading.got.row.cursor, rows)
       /\ reading.got.row.cursor <= Version(reading.got.deltas)

-----------------------------------------------------------------------------
(* What runs and calls are made of.                                         *)

LEMMA RowsOfRuns ==
  /\ NoRunRow \in RunRow /\ NoRunRow.status = "none" /\ NoRunRow.cursor = 0
  /\ NewRow \in RunRow /\ NewRow.status = "open" /\ NewRow.cursor = 0
  /\ NewRow # NoRunRow
<1>1. 0 \in 0 .. MaxInputs
  BY StoreAssumption
<1> QED
  BY <1>1 DEF NoRunRow, NewRow, RunRow

(* The fields of a run that is changed in one of them.                      *)
LEMMA RunsAreRuns ==
  ASSUME NEW t \in Runs
  PROVE  /\ t.row \in RunRow /\ t.deltas \in Seq(1 .. MaxInputs)
         /\ t.inbox \in SUBSET (0 .. MaxInputs - 1)
         /\ t.records \in SUBSET (0 .. MaxRecords - 1)
         /\ t.cells \in [Cells -> 0 .. 2]
         /\ Exists(t) <=> t.row.status # "none"
         /\ \A r \in RunRow : r = NoRunRow \/ r.status # "none" =>
              [t EXCEPT !.row = r] \in Runs /\ [t EXCEPT !.row = r].row = r
         /\ \A d \in Seq(1 .. MaxInputs) : [t EXCEPT !.deltas = d] \in Runs
         /\ \A i \in SUBSET (0 .. MaxInputs - 1) : [t EXCEPT !.inbox = i] \in Runs
         /\ \A i \in SUBSET (0 .. MaxRecords - 1) : [t EXCEPT !.records = i] \in Runs
         /\ \A f \in [Cells -> 0 .. 2] : [t EXCEPT !.cells = f] \in Runs
BY RowsOfRuns DEF Runs, Tables, Exists

LEMMA BlankIsRun ==
  /\ Blank \in Runs /\ ~ Exists(Blank)
  /\ NewDoc \in Runs /\ Exists(NewDoc) /\ NewDoc.row = NewRow
<1>1. [t \in Cells |-> 0] \in [Cells -> 0 .. 2]
  OBVIOUS
<1>2. << >> \in Seq(1 .. MaxInputs)
  OBVIOUS
<1>3. Blank \in Runs /\ ~ Exists(Blank)
  BY <1>1, <1>2, RowsOfRuns DEF Blank, Runs, Tables, Exists
<1>4. NewDoc \in Runs /\ NewDoc.row = NewRow
  BY <1>3, RowsOfRuns, RunsAreRuns DEF NewDoc
<1> QED
  BY <1>3, <1>4, RowsOfRuns DEF Exists

(* The calls of the program.                                                *)
LEMMA CallIsOp ==
  ASSUME NEW w \in {"none", "create", "delete"}
  PROVE  Call(w) \in StoreOps \cap Bounded /\ Call(w).what = w
<1>1. Call(w) \in [what : Writes \cup {"none", "create", "delete"}, fields : SUBSET AllFields,
                   row : RunRow, table : Cells \cup {"none"}, n : Nat]
  BY RowsOfRuns DEF Call
<1>2. Call(w) \in Bounded /\ Call(w).what = w
  BY <1>1 DEF Call, Bounded
<1>3. Call(w) \in StoreOps
  BY DEF StoreOps, AllCalls
<1> QED
  BY <1>2, <1>3

LEMMA EntryIsOp ==
  ASSUME NEW w \in {"inbox", "delta", "record"}, NEW k \in Nat,
         w = "inbox" => k \in 0 .. MaxInputs - 1,
         w = "delta" => k \in 1 .. MaxInputs,
         w = "record" => k \in 0 .. MaxRecords - 1
  PROVE  Entry(w, k) \in StoreOps \cap Bounded /\ Entry(w, k).what = w /\ Entry(w, k).n = k
<1>1. Entry(w, k) = [what |-> w, fields |-> {}, row |-> NoRunRow, table |-> "none", n |-> k]
  BY DEF Entry, Call
<1>2. Entry(w, k) \in [what : Writes \cup {"none", "create", "delete"}, fields : SUBSET AllFields,
                       row : RunRow, table : Cells \cup {"none"}, n : Nat]
  BY <1>1, RowsOfRuns DEF Writes
<1> QED
  BY <1>1, <1>2 DEF StoreOps, AllCalls, Bounded

LEMMA CellIsOp ==
  ASSUME NEW t \in Cells, NEW k \in 1 .. 2
  PROVE  Cell(t, k) \in StoreOps \cap Bounded /\ Cell(t, k).what = "cell"
<1>1. Cell(t, k) = [what |-> "cell", fields |-> {}, row |-> NoRunRow, table |-> t, n |-> k]
  <2>1. [Call("cell") EXCEPT !.table = t]
          = [what |-> "cell", fields |-> {}, row |-> NoRunRow, table |-> t, n |-> 0]
    BY DEF Call
  <2>2. Cell(t, k) = [[Call("cell") EXCEPT !.table = t] EXCEPT !.n = k]
    BY DEF Cell
  <2> QED
    BY <2>1, <2>2
<1>2. Cell(t, k) \in [what : Writes \cup {"none", "create", "delete"}, fields : SUBSET AllFields,
                      row : RunRow, table : Cells \cup {"none"}, n : Nat]
  BY <1>1, RowsOfRuns DEF Writes
<1> QED
  BY <1>1, <1>2 DEF StoreOps, AllCalls, Bounded

LEMMA PatchIsOp ==
  ASSUME NEW f \in {AllFields, {"status"}, {"name"}}, NEW r \in RunRow, r.status # "none"
  PROVE  /\ Patch(f, r) \in StoreOps \cap Bounded /\ Patch(f, r).what = "patch"
         /\ Patch(f, r).fields = f /\ Patch(f, r).row = r
<1>1. Patch(f, r) = [what |-> "patch", fields |-> f, row |-> r, table |-> "none", n |-> 0]
  <2>1. [Call("patch") EXCEPT !.fields = f]
          = [what |-> "patch", fields |-> f, row |-> NoRunRow, table |-> "none", n |-> 0]
    BY DEF Call
  <2>2. Patch(f, r) = [[Call("patch") EXCEPT !.fields = f] EXCEPT !.row = r]
    BY DEF Patch
  <2> QED
    BY <2>1, <2>2
<1>2. f \in SUBSET AllFields /\ r \in NewRows
  BY DEF AllFields, NewRows
<1>3. Patch(f, r) \in [what : Writes \cup {"none", "create", "delete"}, fields : SUBSET AllFields,
                       row : RunRow, table : Cells \cup {"none"}, n : Nat]
  BY <1>1, <1>2 DEF Writes
<1>4. Patch(f, r) \in StoreOps
  <2>1. Patch(f, r) \in {Patch(g, q) : g \in {AllFields, {"status"}, {"name"}}, q \in NewRows}
    BY <1>2
  <2> QED
    BY <2>1 DEF StoreOps, AllCalls
<1> QED
  BY <1>1, <1>3, <1>4 DEF Bounded

LEMMA OpsAreInBounds == StoreOps \subseteq Bounded
<1> SUFFICES ASSUME NEW op \in StoreOps PROVE op \in Bounded
  OBVIOUS
<1>1. CASE op \in {Call("none"), Call("create"), Call("delete")}
  BY <1>1, CallIsOp
<1>2. CASE \E f \in {AllFields, {"status"}, {"name"}}, r \in NewRows : op = Patch(f, r)
  <2>1. PICK f \in {AllFields, {"status"}, {"name"}}, r \in NewRows : op = Patch(f, r)
    BY <1>2
  <2>2. r \in RunRow /\ r.status # "none"
    BY DEF NewRows
  <2> QED
    BY <2>1, <2>2, PatchIsOp
<1>3. CASE \/ \E num \in 0 .. MaxInputs - 1 : op = Entry("inbox", num)
           \/ \E num \in 1 .. MaxInputs : op = Entry("delta", num)
           \/ \E num \in 0 .. MaxRecords - 1 : op = Entry("record", num)
  BY <1>3, EntryIsOp, StoreAssumption
<1>4. CASE \E t \in Cells, num \in 1 .. 2 : op = Cell(t, num)
  BY <1>4, CellIsOp
<1> QED
  BY <1>1, <1>2, <1>3, <1>4 DEF StoreOps, AllCalls

(* What the writes make of a run.                                           *)
LEMMA MergedRow ==
  ASSUME NEW r \in RunRow, NEW op \in StoreOps, op.what = "patch"
  PROVE  /\ Merged(r, op) \in RunRow
         /\ r.status # "none" => Merged(r, op).status # "none"
         /\ Merged(r, op).cursor =
              IF "cursor" \in op.fields THEN op.row.cursor ELSE r.cursor
<1>1. op.row \in RunRow /\ op.row.status # "none"
  BY OpsAreInBounds DEF Bounded
<1>2. DOMAIN r = {"cursor", "status", "name"}
  BY DEF RunRow
<1>3. Merged(r, op) = [cursor |-> IF "cursor" \in op.fields THEN op.row.cursor ELSE r.cursor,
                       status |-> IF "status" \in op.fields THEN op.row.status ELSE r.status,
                       name |-> IF "name" \in op.fields THEN op.row.name ELSE r.name]
  BY <1>2 DEF Merged
<1> QED
  BY <1>1, <1>3 DEF RunRow

LEMMA OpsAreBounded ==
  ASSUME NEW op \in StoreOps
  PROVE  /\ op.n \in Nat
         /\ op.what = "inbox" => op.n \in 0 .. MaxInputs - 1
         /\ op.what = "delta" => op.n \in 1 .. MaxInputs
         /\ op.what = "record" => op.n \in 0 .. MaxRecords - 1
         /\ op.what = "cell" => op.table \in Cells /\ op.n \in 0 .. 2
         /\ op.what \in Writes \cup {"none", "create", "delete"}
BY OpsAreInBounds DEF Bounded

(* One entry more.                                                          *)
LEMMA EntriesFit ==
  ASSUME NEW t \in Runs, NEW op \in StoreOps
  PROVE  /\ op.what = "inbox" => /\ [t EXCEPT !.inbox = @ \union {op.n}] \in Runs
                                 /\ [t EXCEPT !.inbox = @ \union {op.n}].row = t.row
                                 /\ [t EXCEPT !.inbox = @ \union {op.n}].inbox = t.inbox \cup {op.n}
                                 /\ [t EXCEPT !.inbox = @ \union {op.n}].deltas = t.deltas
         /\ op.what = "delta" => /\ [t EXCEPT !.deltas = Append(@, op.n)] \in Runs
                                 /\ [t EXCEPT !.deltas = Append(@, op.n)].row = t.row
                                 /\ [t EXCEPT !.deltas = Append(@, op.n)].inbox = t.inbox
                                 /\ [t EXCEPT !.deltas = Append(@, op.n)].deltas = Append(t.deltas, op.n)
         /\ op.what = "cell" => /\ [t EXCEPT !.cells[op.table] = op.n] \in Runs
                                /\ [t EXCEPT !.cells[op.table] = op.n].row = t.row
                                /\ [t EXCEPT !.cells[op.table] = op.n].inbox = t.inbox
                                /\ [t EXCEPT !.cells[op.table] = op.n].deltas = t.deltas
         /\ op.what = "record" => /\ [t EXCEPT !.records = @ \union {op.n}] \in Runs
                                  /\ [t EXCEPT !.records = @ \union {op.n}].row = t.row
                                  /\ [t EXCEPT !.records = @ \union {op.n}].inbox = t.inbox
                                  /\ [t EXCEPT !.records = @ \union {op.n}].deltas = t.deltas
<1>1. t \in Tables
  BY DEF Runs
<1>2. CASE op.what = "inbox"
  <2>1. t.inbox \cup {op.n} \in SUBSET (0 .. MaxInputs - 1)
    BY <1>2, RunsAreRuns, OpsAreBounded
  <2> QED
    BY <1>1, <1>2, <2>1, RunsAreRuns DEF Tables
<1>3. CASE op.what = "delta"
  <2>1. Append(t.deltas, op.n) \in Seq(1 .. MaxInputs)
    BY <1>3, RunsAreRuns, OpsAreBounded
  <2> QED
    BY <1>1, <1>3, <2>1, RunsAreRuns DEF Tables
<1>4. CASE op.what = "cell"
  <2>1. [t.cells EXCEPT ![op.table] = op.n] \in [Cells -> 0 .. 2]
    BY <1>4, RunsAreRuns, OpsAreBounded
  <2>2. [t EXCEPT !.cells[op.table] = op.n] = [t EXCEPT !.cells = [t.cells EXCEPT ![op.table] = op.n]]
    BY <1>1 DEF Tables
  <2> QED
    BY <1>1, <1>4, <2>1, <2>2, RunsAreRuns DEF Tables
<1>5. CASE op.what = "record"
  <2>1. t.records \cup {op.n} \in SUBSET (0 .. MaxRecords - 1)
    BY <1>5, RunsAreRuns, OpsAreBounded
  <2> QED
    BY <1>1, <1>5, <2>1, RunsAreRuns DEF Tables
<1> QED
  BY <1>2, <1>3, <1>4, <1>5

LEMMA PatchFits ==
  ASSUME NEW t \in Runs, NEW op \in StoreOps, op.what = "patch", NEW r \in Runs,
         Exists(r)
  PROVE  /\ [t EXCEPT !.row = Merged(r.row, op)] \in Runs
         /\ Exists([t EXCEPT !.row = Merged(r.row, op)])
<1>1. Merged(r.row, op) \in RunRow /\ Merged(r.row, op).status # "none"
  BY RunsAreRuns, MergedRow
<1> QED
  BY <1>1, RunsAreRuns, RowsOfRuns DEF Exists

LEMMA SqlWrites ==
  ASSUME NEW t \in Runs, NEW op \in StoreOps, op.what \notin {"none", "patch"}
  PROVE  /\ SqlWritten(t, op) \in Runs
         /\ op.what = "create" => /\ SqlWritten(t, op).row = NewRow
                                  /\ Exists(SqlWritten(t, op))
                                  /\ SqlWritten(t, op).inbox = t.inbox
                                  /\ SqlWritten(t, op).deltas = t.deltas
         /\ op.what = "delete" => SqlWritten(t, op) = Blank
         /\ op.what \in Writes => /\ SqlWritten(t, op).row = t.row
                                  /\ Exists(SqlWritten(t, op)) <=> Exists(t)
                                  /\ SqlWritten(t, op).inbox =
                                       IF op.what = "inbox" THEN t.inbox \cup {op.n} ELSE t.inbox
                                  /\ SqlWritten(t, op).deltas =
                                       IF op.what = "delta" THEN Append(t.deltas, op.n) ELSE t.deltas
<1>1. CASE op.what = "create"
  <2>1. SqlWritten(t, op) = [t EXCEPT !.row = NewRow]
    BY <1>1 DEF SqlWritten, InsertRun
  <2>2. [t EXCEPT !.row = NewRow].inbox = t.inbox /\ [t EXCEPT !.row = NewRow].deltas = t.deltas
    BY DEF Runs, Tables
  <2> QED
    BY <1>1, <2>1, <2>2, RunsAreRuns, RowsOfRuns DEF Exists, Writes
<1>2. CASE op.what = "delete"
  BY <1>2, BlankIsRun DEF SqlWritten, DeleteRows, DeleteCascade, Writes
<1>3. CASE op.what = "inbox"
  <2> DEFINE u == [t EXCEPT !.inbox = @ \union {op.n}]
  <2>1. SqlWritten(t, op) = u
    BY <1>3 DEF SqlWritten, InsertInbox
  <2>2. u \in Runs /\ u.row = t.row
    BY <1>3, EntriesFit
  <2>3. u.inbox = t.inbox \cup {op.n} /\ u.deltas = t.deltas
    BY <1>3, EntriesFit
  <2> HIDE DEF u
  <2> QED
    BY <1>3, <2>1, <2>2, <2>3 DEF Exists
<1>4. CASE op.what = "delta"
  <2> DEFINE u == [t EXCEPT !.deltas = Append(@, op.n)]
  <2>1. SqlWritten(t, op) = u
    BY <1>4 DEF SqlWritten, InsertDelta
  <2>2. u \in Runs /\ u.row = t.row
    BY <1>4, EntriesFit
  <2>3. u.inbox = t.inbox /\ u.deltas = Append(t.deltas, op.n)
    BY <1>4, EntriesFit
  <2> HIDE DEF u
  <2> QED
    BY <1>4, <2>1, <2>2, <2>3 DEF Exists
<1>5. CASE op.what = "cell"
  <2> DEFINE u == [t EXCEPT !.cells[op.table] = op.n]
  <2>1. SqlWritten(t, op) = u
    BY <1>5 DEF SqlWritten, UpsertCell
  <2>2. u \in Runs /\ u.row = t.row
    BY <1>5, EntriesFit
  <2>3. u.inbox = t.inbox /\ u.deltas = t.deltas
    BY <1>5, EntriesFit
  <2> HIDE DEF u
  <2> QED
    BY <1>5, <2>1, <2>2, <2>3 DEF Exists
<1>6. CASE op.what = "record"
  <2> DEFINE u == [t EXCEPT !.records = @ \union {op.n}]
  <2>1. SqlWritten(t, op) = u
    BY <1>6 DEF SqlWritten, InsertRecord
  <2>2. u \in Runs /\ u.row = t.row
    BY <1>6, EntriesFit
  <2>3. u.inbox = t.inbox /\ u.deltas = t.deltas
    BY <1>6, EntriesFit
  <2> HIDE DEF u
  <2> QED
    BY <1>6, <2>1, <2>2, <2>3 DEF Exists
<1> QED
  BY <1>1, <1>2, <1>3, <1>4, <1>5, <1>6, OpsAreBounded DEF Writes

LEMMA DocWrites ==
  ASSUME NEW t \in Runs, Exists(t), NEW op \in StoreOps, op.what \in Writes
  PROVE  DocWritten(t, op) \in Runs /\ Exists(DocWritten(t, op))
<1>1. CASE op.what = "patch"
  BY <1>1, PatchFits DEF DocWritten, DocPatched
<1>2. CASE op.what # "patch"
  BY <1>2, EntriesFit DEF DocWritten, DocAppended, DocUpserted, Writes, Exists
<1> QED
  BY <1>1, <1>2

LEMMA ObjectWrites ==
  ASSUME NEW t \in Runs, NEW op \in StoreOps, op.what # "none"
  PROVE  /\ ObjectWritten(t, op) \in Runs
         /\ op.what = "create" => Exists(ObjectWritten(t, op))
         /\ op.what = "delete" => ObjectWritten(t, op) = Blank
         /\ op.what \in Writes =>
              /\ Exists(ObjectWritten(t, op)) <=> Exists(t)
              /\ ~ Exists(t) => ObjectWritten(t, op) = t
<1>1. CASE op.what \in {"create", "delete"}
  BY <1>1, BlankIsRun DEF ObjectWritten, Writes
<1>2. CASE op.what \in Writes /\ ~ Exists(t)
  BY <1>2 DEF ObjectWritten, Writes
<1>3. CASE op.what \in Writes /\ Exists(t)
  <2>1. ObjectWritten(t, op) = ObjectChanged(t, op)
    BY <1>3 DEF ObjectWritten, Writes
  <2>2. ObjectChanged(t, op) \in Runs /\ Exists(ObjectChanged(t, op))
    <3>1. CASE op.what = "patch"
      BY <1>3, <3>1, PatchFits DEF ObjectChanged
    <3>2. CASE op.what = "delta"
      BY <1>3, <3>2, EntriesFit DEF ObjectChanged, Exists
    <3>3. CASE op.what \in {"inbox", "cell", "record"}
      BY <1>3, <3>3, EntriesFit DEF ObjectChanged, Exists
    <3> QED
      BY <1>3, <3>1, <3>2, <3>3 DEF Writes
  <2> QED
    BY <1>3, <2>1, <2>2 DEF Writes
<1> QED
  BY <1>1, <1>2, <1>3, OpsAreBounded

LEMMA SqliteWrites ==
  ASSUME live \in Runs, NEW t \in Runs, Exists(live) <=> Exists(t),
         NEW op \in StoreOps, op.what # "none"
  PROVE  /\ SqliteWritten(t, op) \in Runs
         /\ op.what = "create" => Exists(SqliteWritten(t, op))
         /\ op.what = "delete" => SqliteWritten(t, op) = Blank
         /\ op.what \in Writes =>
              /\ Exists(SqliteWritten(t, op)) <=> Exists(t)
              /\ ~ Exists(t) => SqliteWritten(t, op) = t
<1>1. CASE op.what \in Writes /\ ~ Exists(t)
  BY <1>1 DEF SqliteWritten, Writes
<1>2. CASE op.what = "patch" /\ Exists(t)
  BY <1>2, PatchFits DEF SqliteWritten
<1>3. CASE op.what \in {"create", "delete"}
  BY <1>3, SqlWrites DEF SqliteWritten, Writes
<1>4. CASE op.what \in Writes \ {"patch"} /\ Exists(t)
  BY <1>4, SqlWrites DEF SqliteWritten, Writes
<1> QED
  BY <1>1, <1>2, <1>3, <1>4, OpsAreBounded

-----------------------------------------------------------------------------
(* What the steps have in common.                                           *)

LEMMA RestIsCall ==
  ASSUME NEW st \in {"idle", "ok", "error"}
  PROVE  /\ AtRest(st) \in StoreCalls
         /\ AtRest(st).state = st /\ AtRest(st).op.what = "none"
<1>1. Call("none") \in StoreOps /\ Call("none").what = "none"
  BY CallIsOp
<1> QED
  BY <1>1, BlankIsRun DEF AtRest, StoreCalls

LEMMA AskedCall ==
  ASSUME StoreTypes, NEW c \in Writers, NEW op \in StoreOps, Ask(c, op)
  PROVE  /\ calls' \in [Writers -> StoreCalls]
         /\ calls'[c].state = "asked" /\ calls'[c].op = op
         /\ \A d \in Writers : d # c => calls'[d] = calls[d]
<1> DEFINE k == [state |-> "asked", op |-> op, seen |-> Blank]
<1>1. k \in StoreCalls /\ k.state = "asked" /\ k.op = op
  BY BlankIsRun DEF StoreCalls
<1>2. calls' = [calls EXCEPT ![c] = k]
  BY DEF Ask
<1> HIDE DEF k
<1> QED
  BY <1>1, <1>2 DEF StoreTypes

LEMMA EndedCall ==
  ASSUME StoreTypes, NEW c \in Writers, NEW st \in {"ok", "error"},
         calls' = [calls EXCEPT ![c] = AtRest(st)]
  PROVE  /\ calls' \in [Writers -> StoreCalls]
         /\ calls'[c].state = st /\ calls'[c].op.what = "none"
         /\ \A d \in Writers : d # c => calls'[d] = calls[d]
BY RestIsCall DEF StoreTypes

LEMMA Stands ==
  ASSUME StoreTypes, NEW c \in Writers
  PROVE  /\ Op(c) \in StoreOps /\ calls[c].seen \in Runs
         /\ State(c) \in {"idle", "asked", "loaded", "taken", "ok", "error"}
         /\ Busy(c) <=> ~ Free(c)
         /\ backend.kind \in Kinds /\ {backend.marks, backend.renames, backend.deletes} \subseteq BOOLEAN
         /\ View \in Runs
<1>1. calls[c] \in StoreCalls /\ backend \in BackendType
  BY StoreAssumption DEF StoreTypes
<1> QED
  BY <1>1 DEF StoreTypes, StoreCalls, Op, State, Busy, Free, BackendType, View

(* A call begins.                                                           *)
LEMMA AskKeeps ==
  ASSUME StoreTypes, Roles, Spans, NEW c \in Writers, NEW op \in StoreOps, Ask(c, op),
         todo' \in Seq(StoreOps), Len(todo') <= 1,
         todo' # << >> => todo'[1].what = "patch",
         op.what # "none",
         c = "recorder" => /\ op.what = "record" /\ backend.records
                           /\ Op("worker").what \notin {"create", "delete"},
         c = "server" => op.what = "cell" /\ backend.marks,
         c = "setter" => op.what = "patch" /\ backend.renames /\ "cursor" \notin op.fields,
         c # "worker" => todo' = todo,
         op.what \in {"create", "delete"} => c = "worker" /\ Free("recorder") /\ todo' = << >>,
         op.what = "delete" => backend.deletes,
         op.what \notin {"create", "delete"} => span # "delete"
  PROVE  StoreTypes' /\ Roles' /\ Spans'
<1>1. /\ calls' \in [Writers -> StoreCalls]
      /\ calls'[c].state = "asked" /\ calls'[c].op = op
      /\ \A d \in Writers : d # c => calls'[d] = calls[d]
  BY AskedCall
<1>2. /\ UNCHANGED << backend, rows, live, index, reading, left >>
      /\ span' = IF op.what \in {"create", "delete"} THEN "unknown" ELSE span
  BY DEF Ask, store
<1>3. StoreTypes'
  BY <1>1, <1>2 DEF StoreTypes
<1>4. Roles'
  BY <1>1, <1>2 DEF Roles, Writers, Free, Busy, State, Op, Writes
<1>5. View' = View /\ Listed' = Listed
  BY <1>2 DEF View, Listed
<1>6. Spans'
  BY <1>1, <1>2, <1>5 DEF Spans, HalfDone, Free, State, Op, Writers
<1> QED
  BY <1>3, <1>4, <1>6

(* A call ends.                                                             *)
LEMMA EndKeeps ==
  ASSUME StoreTypes, Roles, Spans, NoLateWriters,
         NEW c \in Writers, Busy(c), NEW st \in {"ok", "error"}, Ends(c, st),
         UNCHANGED << backend, todo >>, rows' \in Runs, live' \in Runs, index' \in BOOLEAN,
         reading' \in Readings,
         c # "worker" => HalfDone(rows'),
         span' = "create" => Exists(View') /\ Listed',
         span' = "delete" => View' = Blank /\ ~ Listed',
         backend.kind = "sqlite" => /\ Exists(live') <=> Exists(rows')
                                    /\ span' = "delete" => rows' = Blank
  PROVE  StoreTypes' /\ Roles' /\ Spans'
<1>1. /\ calls' \in [Writers -> StoreCalls]
      /\ calls'[c].state = st /\ calls'[c].op.what = "none"
      /\ \A d \in Writers : d # c => calls'[d] = calls[d]
  BY EndedCall DEF Ends
<1>2. span' = IF Op(c).what \in {"create", "delete"} /\ st = "ok" THEN Op(c).what ELSE span
  BY DEF Ends, SpanAfter
<1>3. Op(c) \in StoreOps /\ Op(c).what \in Writes \cup {"none", "create", "delete"}
  BY Stands, OpsAreBounded
<1>4. StoreTypes'
  BY <1>1, <1>2 DEF StoreTypes
<1>5. Roles'
  BY <1>1 DEF Roles, Writers, Free, Busy, State, Op, Writes
<1>6. span' # "unknown" => calls'["worker"].op.what \notin {"create", "delete"}
  BY <1>1, <1>2 DEF Spans, Roles, Op, Writers
<1>7. span' = "delete" =>
        /\ calls'["worker"].state \in {"idle", "ok", "error"}
        /\ calls'["recorder"].state \in {"idle", "ok", "error"} /\ todo' = << >>
        /\ backend.kind \in {"postgres", "redis"} => calls'["server"].state \in {"idle", "ok", "error"}
        /\ backend.kind = "redis" => calls'["setter"].state \in {"idle", "ok", "error"}
  <2>1. CASE span = "delete"
    BY <1>1, <2>1 DEF Spans, Free, State, Writers
  <2>2. CASE span # "delete" /\ span' = "delete"
    <3>1. c = "worker" /\ Op(c).what = "delete" /\ backend.deletes
      BY <1>2, <2>2 DEF Roles
    <3>2. Free("recorder") /\ todo = << >>
      BY <3>1 DEF Roles
    <3>3. backend \in Backends
      BY DEF StoreTypes
    <3>4. /\ backend.kind \in {"postgres", "redis"} => Free("server")
          /\ backend.kind = "redis" => Free("setter")
      BY <3>1, <3>3, Stands DEF NoLateWriters, Roles, Writers
    <3> QED
      BY <1>1, <3>1, <3>2, <3>4 DEF Free, State, Writers
  <2> QED
    BY <2>1, <2>2
<1>8. HalfDone(rows)'
  BY <1>1 DEF HalfDone, State, Op, Writers
<1>9. Spans'
  BY <1>6, <1>7, <1>8 DEF Spans, Free, State, Op
<1> QED
  BY <1>4, <1>5, <1>9

-----------------------------------------------------------------------------
(* The version of a session is the largest of its deltas.  It is computed   *)
(* along their sequence, so what it is follows by induction on the place.   *)

(* A set of numbers that is not empty has a least one: < is well founded.   *)
LEMMA LeastNumber ==
  ASSUME NEW T, T \subseteq Nat, T # {}
  PROVE  \E x \in T : \A y \in T : x <= y
<1> DEFINE R == {p \in Nat \X Nat : p[1] < p[2]}
<1>1. R = OpToRel(<, Nat)
  BY DEF OpToRel
<1>2. IsWellFoundedOn(R, Nat)
  BY <1>1, NatLessThanWellFounded
<1>3. PICK x \in T : \A y \in T : ~ (<< y, x >> \in R)
  BY <1>2, WFMin
<1>4. \A y \in T : << y, x >> \in Nat \X Nat /\ x \in Nat /\ y \in Nat
  BY <1>3
<1>5. \A y \in T : ~ (y < x)
  BY <1>3, <1>4
<1> QED
  BY <1>4, <1>5

(* A set that has 0, and the successor of each number it has, has them all. *)
LEMMA NumbersFollow ==
  ASSUME NEW T, 0 \in T, \A k \in Nat : k \in T => k + 1 \in T
  PROVE  Nat \subseteq T
<1> DEFINE U == Nat \ T
<1> SUFFICES ASSUME U # {} PROVE FALSE
  OBVIOUS
<1>1. PICK x \in U : \A y \in U : x <= y
  <2>1. U \subseteq Nat
    OBVIOUS
  <2> HIDE DEF U
  <2> QED
    BY <2>1, LeastNumber
<1>2. x \in Nat /\ x # 0
  BY <1>1
<1>3. x - 1 \in Nat /\ (x - 1) + 1 = x /\ ~ x <= x - 1
  BY <1>2
<1>4. x - 1 \in T
  BY <1>1, <1>3
<1>5. x \in T
  BY <1>3, <1>4
<1> QED
  BY <1>1, <1>5

Larger(m, num) == IF m >= num THEN m ELSE num

Chains(f, d, num) ==
  f = [i \in 0 .. num |-> IF i = 0 THEN 0
                          ELSE IF f[i - 1] >= d[i] THEN f[i - 1] ELSE d[i]]

ChainOf(d, num) == CHOOSE f : Chains(f, d, num)

LEMMA VersionIsChain ==
  ASSUME NEW d
  PROVE  Version(d) = ChainOf(d, Len(d))[Len(d)]
BY DEF Version, ChainOf, Chains

LEMMA ChainsExist ==
  ASSUME NEW d, NEW num \in Nat
  PROVE  \E f : Chains(f, d, num)
<1> DEFINE T == {k \in Nat : \E f : Chains(f, d, k)}
<1>1. 0 \in T
  <2>1. Chains([i \in 0 .. 0 |-> 0], d, 0)
    BY DEF Chains
  <2> QED
    BY <2>1
<1>2. ASSUME NEW k \in Nat, k \in T PROVE k + 1 \in T
  <2>1. PICK f : Chains(f, d, k)
    BY <1>2
  <2> DEFINE m == k + 1
             v == IF f[k] >= d[m] THEN f[k] ELSE d[m]
             g == [i \in 0 .. m |-> IF i = m THEN v ELSE f[i]]
             h == [i \in 0 .. m |-> IF i = 0 THEN 0
                                    ELSE IF g[i - 1] >= d[i] THEN g[i - 1] ELSE d[i]]
  <2>2. ASSUME NEW i \in 0 .. m PROVE g[i] = h[i]
    <3>1. CASE i = m
      <4>1. i # 0 /\ i - 1 \in 0 .. m /\ i - 1 # m /\ i - 1 = k
        BY <3>1
      <4>2. g[i - 1] = f[k] /\ g[i] = v
        BY <3>1, <4>1
      <4> QED
        BY <3>1, <4>1, <4>2
    <3>2. CASE i # 0 /\ i # m
      <4>1. i \in 0 .. k /\ i - 1 \in 0 .. m /\ i - 1 # m
        BY <3>2
      <4>2. g[i - 1] = f[i - 1] /\ g[i] = f[i]
        BY <3>2, <4>1
      <4>3. f[i] = IF f[i - 1] >= d[i] THEN f[i - 1] ELSE d[i]
        BY <2>1, <3>2, <4>1 DEF Chains
      <4> QED
        BY <3>2, <4>2, <4>3
    <3>3. CASE i = 0 /\ i # m
      <4>1. 0 \in 0 .. k
        OBVIOUS
      <4>2. f[0] = 0
        BY <2>1, <4>1 DEF Chains
      <4> QED
        BY <3>3, <4>2
    <3> QED
      BY <3>1, <3>2, <3>3
  <2>3. g = h
    BY <2>2
  <2>4. Chains(g, d, m)
    BY <2>3 DEF Chains
  <2> QED
    BY <2>4
<1>3. Nat \subseteq T
  <2> HIDE DEF T
  <2> QED
    BY <1>1, <1>2, NumbersFollow
<1> QED
  BY <1>3

LEMMA ChainGrows ==
  ASSUME NEW d, NEW num \in Nat
  PROVE  /\ ChainOf(d, num)[0] = 0
         /\ \A k \in 0 .. num - 1 :
              ChainOf(d, num)[k + 1] = Larger(ChainOf(d, num)[k], d[k + 1])
<1> DEFINE f == ChainOf(d, num)
<1>1. Chains(f, d, num)
  BY ChainsExist DEF ChainOf
<1> HIDE DEF f
<1>2. f[0] = 0
  BY <1>1 DEF Chains
<1>3. ASSUME NEW k \in 0 .. num - 1
      PROVE  f[k + 1] = Larger(f[k], d[k + 1])
  <2>1. k + 1 \in 0 .. num /\ k + 1 # 0 /\ (k + 1) - 1 = k
    OBVIOUS
  <2> QED
    BY <1>1, <2>1 DEF Chains, Larger
<1> QED
  BY <1>2, <1>3 DEF f

LEMMA ChainIsNumber ==
  ASSUME NEW d \in Seq(Nat), NEW num \in Nat, num <= Len(d)
  PROVE  \A k \in 0 .. num : ChainOf(d, num)[k] \in Nat
<1> DEFINE f == ChainOf(d, num)
           T == {k \in Nat : k <= num => f[k] \in Nat}
<1>1. f[0] = 0 /\ \A k \in 0 .. num - 1 : f[k + 1] = Larger(f[k], d[k + 1])
  BY ChainGrows
<1> HIDE DEF f
<1>2. 0 \in T
  BY <1>1
<1>3. ASSUME NEW k \in Nat, k \in T PROVE k + 1 \in T
  <2> SUFFICES ASSUME k + 1 <= num PROVE f[k + 1] \in Nat
    OBVIOUS
  <2>1. k \in 0 .. num - 1 /\ f[k] \in Nat /\ d[k + 1] \in Nat
    BY <1>3
  <2> QED
    BY <1>1, <2>1 DEF Larger
<1>4. Nat \subseteq T
  <2> HIDE DEF T
  <2> QED
    BY <1>2, <1>3, NumbersFollow
<1>5. \A k \in 0 .. num : f[k] \in Nat
  BY <1>4
<1> QED
  BY <1>5 DEF f

LEMMA DeltasAreNumbers ==
  ASSUME NEW t \in Runs
  PROVE  t.deltas \in Seq(Nat)
<1> DEFINE d == t.deltas
<1>1. d \in Seq(1 .. MaxInputs)
  BY RunsAreRuns
<1> HIDE DEF d
<1>2. Len(d) \in Nat /\ \A i \in 1 .. Len(d) : d[i] \in Nat
  BY <1>1, StoreAssumption
<1>3. d = [i \in 1 .. Len(d) |-> d[i]]
  BY <1>1
<1>4. d \in [1 .. Len(d) -> Nat]
  BY <1>2, <1>3
<1> QED
  BY <1>2, <1>4 DEF d

LEMMA VersionIsNumber ==
  ASSUME NEW d \in Seq(Nat)
  PROVE  Version(d) \in Nat
<1>1. Len(d) \in Nat /\ Len(d) \in 0 .. Len(d)
  OBVIOUS
<1> QED
  BY <1>1, VersionIsChain, ChainIsNumber

LEMMA VersionOfNone == Version(<< >>) = 0
<1>1. Len(<< >>) = 0
  OBVIOUS
<1>2. ChainOf(<< >>, 0)[0] = 0
  BY ChainGrows
<1> QED
  BY <1>1, <1>2, VersionIsChain

LEMMA VersionOfMore ==
  ASSUME NEW d \in Seq(Nat), NEW x \in Nat
  PROVE  Version(Append(d, x)) = Larger(Version(d), x)
<1> DEFINE num == Len(d)
           e == Append(d, x)
           f == ChainOf(d, num)
           g == ChainOf(e, num + 1)
           T == {k \in Nat : k <= num => g[k] = f[k]}
<1>1. num \in Nat /\ num + 1 \in Nat /\ Len(e) = num + 1 /\ e[num + 1] = x
  OBVIOUS
<1>2. \A k \in 0 .. num - 1 : e[k + 1] = d[k + 1]
  OBVIOUS
<1>3. Version(d) = f[num] /\ Version(e) = g[num + 1]
  BY <1>1, VersionIsChain
<1>4. f[0] = 0 /\ \A k \in 0 .. num - 1 : f[k + 1] = Larger(f[k], d[k + 1])
  BY <1>1, ChainGrows
<1>5. g[0] = 0 /\ \A k \in 0 .. num : g[k + 1] = Larger(g[k], e[k + 1])
  <2>1. (num + 1) - 1 = num
    BY <1>1
  <2> HIDE DEF e, num
  <2> QED
    BY <1>1, <2>1, ChainGrows
<1> HIDE DEF e, f, g, num
<1>6. 0 \in T
  BY <1>4, <1>5
<1>7. ASSUME NEW k \in Nat, k \in T PROVE k + 1 \in T
  <2> SUFFICES ASSUME k + 1 <= num PROVE g[k + 1] = f[k + 1]
    OBVIOUS
  <2>1. k \in 0 .. num - 1 /\ k \in 0 .. num /\ g[k] = f[k]
    BY <1>1, <1>7
  <2> QED
    BY <1>2, <1>4, <1>5, <2>1
<1>8. Nat \subseteq T
  <2> HIDE DEF T
  <2> QED
    BY <1>6, <1>7, NumbersFollow
<1>9. g[num] = f[num] /\ num \in 0 .. num
  BY <1>1, <1>8
<1>10. g[num + 1] = Larger(f[num], x)
  BY <1>1, <1>5, <1>9
<1> QED
  BY <1>3, <1>10 DEF e

-----------------------------------------------------------------------------
(* Who calls.                                                               *)

(* The lists of calls the worker begins with.                               *)
LEMMA HeadAndTail ==
  ASSUME NEW S, NEW q \in Seq(S), q # << >>
  PROVE  /\ Tail(q) \in Seq(S) /\ Len(Tail(q)) = Len(q) - 1
         /\ \A i \in 1 .. Len(q) - 1 : Tail(q)[i] = q[i + 1]
         /\ Head(q) = q[1]
OBVIOUS

LEMMA Lists ==
  ASSUME NEW S, NEW a \in S, NEW b \in S
  PROVE  /\ Head(<< a >>) = a /\ Tail(<< a >>) = << >>
         /\ Head(<< a >> \o << b >>) = a /\ Tail(<< a >> \o << b >>) = << b >>
         /\ << a >> \o << >> = << a >> /\ << >> \o << b >> = << b >>
         /\ << b >> \in Seq(S) /\ Len(<< b >>) <= 1 /\ << b >>[1] = b
         /\ << >> \in Seq(S) /\ Len(<< >>) <= 1
<1>1. Head(<< a >>) = a /\ Tail(<< a >>) = << >>
  OBVIOUS
<1> DEFINE x == << a >>
           y == << b >>
           z == x \o y
<1>2. x \in Seq(S) /\ Len(x) = 1 /\ x[1] = a
  OBVIOUS
<1>3. y \in Seq(S) /\ Len(y) = 1 /\ y[1] = b
  OBVIOUS
<1> HIDE DEF x, y
<1>4. z \in Seq(S) /\ Len(z) = 2 /\ z[1] = a /\ z[2] = b
  <2>1. /\ z \in Seq(S) /\ Len(z) = Len(x) + Len(y)
        /\ \A i \in 1 .. Len(x) + Len(y) :
             z[i] = IF i <= Len(x) THEN x[i] ELSE y[i - Len(x)]
    BY <1>2, <1>3, ConcatProperties
  <2> HIDE DEF z
  <2> QED
    BY <1>2, <1>3, <2>1
<1> HIDE DEF z
<1>5. Head(z) = a /\ Tail(z) \in Seq(S) /\ Len(Tail(z)) = 1 /\ Tail(z)[1] = b
  BY <1>4, HeadAndTail
<1>6. Tail(z) = y
  <2> DEFINE u == Tail(z)
  <2>1. u \in Seq(S) /\ Len(u) = 1 /\ u[1] = b
    BY <1>5
  <2> HIDE DEF u
  <2>2. \A i \in 1 .. 1 : u[i] = y[i]
    BY <1>3, <2>1
  <2>3. u = y
    BY <1>3, <2>1, <2>2, SeqEqual
  <2> QED
    BY <2>3 DEF u
<1>7. << a >> \o << >> = << a >> /\ << >> \o << b >> = << b >>
  OBVIOUS
<1>8. << >> \in Seq(S) /\ Len(<< >>) <= 1
  OBVIOUS
<1> QED
  BY <1>1, <1>3, <1>5, <1>6, <1>7, <1>8 DEF x, y, z

LEMMA InboxSize ==
  ASSUME NEW t \in Runs
  PROVE  Cardinality(t.inbox) \in 0 .. MaxInputs /\ IsFiniteSet(t.inbox)
<1>1. t.inbox \subseteq 0 .. MaxInputs - 1 /\ MaxInputs \in Nat
  BY RunsAreRuns, StoreAssumption
<1>2. IsFiniteSet(0 .. MaxInputs - 1) /\ Cardinality(0 .. MaxInputs - 1) = MaxInputs
  BY <1>1, FS_Interval
<1>3. IsFiniteSet(t.inbox) /\ Cardinality(t.inbox) <= MaxInputs
  BY <1>1, <1>2, FS_Subset
<1>4. Cardinality(t.inbox) \in Nat
  BY <1>3, FS_CardinalityType
<1> QED
  BY <1>1, <1>3, <1>4

(* What is begun with one call, or with two.                                *)
LEMMA OneCall ==
  ASSUME NEW op \in StoreOps, Begin(<< op >>)
  PROVE  Ask("worker", op) /\ todo' = << >> /\ << >> \in Seq(StoreOps) /\ Len(<< >>) <= 1
BY Lists DEF Begin

LEMMA BeginKeeps ==
  ASSUME StoreTypes, Roles, Spans, NEW first \in StoreOps, NEW rest \in Seq(StoreOps),
         Ask("worker", first), todo' = rest, Len(rest) <= 1,
         rest # << >> => rest[1].what = "patch" /\ first.what \in Writes,
         first.what # "none",
         first.what \in {"create", "delete"} => Free("recorder"),
         first.what = "delete" => backend.deletes,
         first.what \in Writes => Exists(View)
  PROVE  StoreTypes' /\ Roles' /\ Spans'
<1>1. first.what \notin {"create", "delete"} => span # "delete"
  BY OpsAreBounded, BlankIsRun DEF Spans
<1>2. first.what \in {"create", "delete"} => todo' = << >>
  BY DEF Writes
<1> QED
  BY <1>1, <1>2, AskKeeps DEF Writers

LEMMA CreateKeeps ==
  ASSUME StoreTypes, Roles, Spans, Create
  PROVE  StoreTypes' /\ Roles' /\ Spans'
<1>1. Call("create") \in StoreOps /\ Call("create").what = "create"
  BY CallIsOp
<1> QED
  BY <1>1, OneCall, BeginKeeps DEF Create, Writes

LEMMA DeleteKeeps ==
  ASSUME StoreTypes, Roles, Spans, Delete
  PROVE  StoreTypes' /\ Roles' /\ Spans'
<1>1. Call("delete") \in StoreOps /\ Call("delete").what = "delete"
  BY CallIsOp
<1> QED
  BY <1>1, OneCall, BeginKeeps DEF Delete, Writes

(* An input, and a run that was done is open again.                         *)
LEMMA InputIsAsked ==
  ASSUME StoreTypes, AppendInput
  PROVE  \E op \in StoreOps, rest \in Seq(StoreOps) :
           /\ Ask("worker", op) /\ todo' = rest /\ op.what = "inbox" /\ Len(rest) <= 1
           /\ rest # << >> => rest[1].what = "patch" /\ "cursor" \notin rest[1].fields
<1> DEFINE k == Cardinality(View.inbox)
           a == Entry("inbox", k)
           r == [View.row EXCEPT !.status = "open"]
           b == Patch({"status"}, r)
<1>1. View \in Runs /\ k \in 0 .. MaxInputs /\ k < MaxInputs
  BY Stands, InboxSize DEF AppendInput, Writers
<1>2. a \in StoreOps /\ a.what = "inbox"
  BY <1>1, EntryIsOp, StoreAssumption
<1>3. View.row \in RunRow
  BY <1>1, RunsAreRuns
<1>4. r \in RunRow /\ r.status # "none"
  BY <1>3 DEF RunRow
<1>5. b \in StoreOps /\ b.what = "patch" /\ "cursor" \notin b.fields
  <2> HIDE DEF r
  <2> QED
    BY <1>4, PatchIsOp
<1>6. \/ Appending = << a >> \o << b >>
      \/ Appending = << a >> \o << >>
  BY DEF Appending
<1>7. Ask("worker", Head(Appending)) /\ todo' = Tail(Appending)
  BY DEF AppendInput, Begin
<1> HIDE DEF k, a, b, r
<1>8. CASE Appending = << a >> \o << b >>
  <2>1. /\ Head(Appending) = a /\ Tail(Appending) = << b >>
        /\ << b >> \in Seq(StoreOps) /\ Len(<< b >>) <= 1 /\ << b >>[1] = b
    BY <1>2, <1>5, <1>8, Lists
  <2> QED
    BY <1>2, <1>5, <1>7, <2>1
<1>9. CASE Appending = << a >> \o << >>
  <2>1. /\ Head(Appending) = a /\ Tail(Appending) = << >>
        /\ << >> \in Seq(StoreOps) /\ Len(<< >>) <= 1
    BY <1>2, <1>9, Lists
  <2> QED
    BY <1>2, <1>7, <2>1
<1> QED
  BY <1>6, <1>8, <1>9

LEMMA AppendInputKeeps ==
  ASSUME StoreTypes, Roles, Spans, AppendInput
  PROVE  StoreTypes' /\ Roles' /\ Spans'
<1>1. PICK op \in StoreOps, rest \in Seq(StoreOps) :
        /\ Ask("worker", op) /\ todo' = rest /\ op.what = "inbox" /\ Len(rest) <= 1
        /\ rest # << >> => rest[1].what = "patch" /\ "cursor" \notin rest[1].fields
  BY InputIsAsked
<1>2. op.what \in Writes /\ op.what \notin {"none", "create", "delete"}
  BY <1>1 DEF Writes
<1>3. Exists(View)
  BY DEF AppendInput
<1> QED
  BY <1>1, <1>2, <1>3, BeginKeeps

(* The session that covers the inputs, and then the row with their number.  *)
LEMMA PersistIsAsked ==
  ASSUME StoreTypes, Persist
  PROVE  \E op \in StoreOps, rest \in Seq(StoreOps), k \in Nat :
           /\ Ask("worker", op) /\ todo' = rest /\ Len(rest) <= 1
           /\ k = Cardinality(View.inbox)
           /\ \/ /\ op.what = "delta" /\ op.n = k /\ ~ Version(View.deltas) >= k
                 /\ rest # << >> /\ rest[1].what = "patch" /\ rest[1].row.cursor = k
              \/ /\ op.what = "patch" /\ op.row.cursor = k /\ rest = << >>
                 /\ k <= Version(View.deltas)
<1>1. PICK status \in {"open", "done"} : Begin(Persisting(status))
  BY DEF Persist
<1> DEFINE k == Cardinality(View.inbox)
           a == Entry("delta", k)
           r == [View.row EXCEPT !.cursor = k, !.status = status]
           b == Patch(AllFields, r)
           v == Version(View.deltas)
<1>2. View \in Runs /\ k \in 0 .. MaxInputs /\ k \in Nat
  BY Stands, InboxSize, StoreAssumption DEF Writers
<1>3. View.row \in RunRow
  BY <1>2, RunsAreRuns
<1>4. r \in RunRow /\ r.status # "none" /\ r.cursor = k
  BY <1>2, <1>3 DEF RunRow
<1>5. b \in StoreOps /\ b.what = "patch" /\ b.row.cursor = k
  <2> HIDE DEF r
  <2> QED
    BY <1>4, PatchIsOp
<1>6. \/ Persisting(status) = << a >> \o << b >> /\ v < k
      \/ Persisting(status) = << >> \o << b >> /\ ~ v < k
  BY DEF Persisting
<1>7. v \in Nat
  BY <1>2, DeltasAreNumbers, VersionIsNumber
<1>8. Ask("worker", Head(Persisting(status))) /\ todo' = Tail(Persisting(status))
  BY <1>1 DEF Begin
<1>9. CASE Persisting(status) = << a >> \o << b >> /\ v < k
  <2>1. a \in StoreOps /\ a.what = "delta" /\ a.n = k /\ ~ v >= k
    BY <1>2, <1>7, <1>9, EntryIsOp
  <2> HIDE DEF k, a, b, r
  <2>2. Head(Persisting(status)) = a /\ Tail(Persisting(status)) = << b >>
    BY <1>5, <1>9, <2>1, Lists
  <2>3. << b >> \in Seq(StoreOps) /\ Len(<< b >>) <= 1 /\ << b >>[1] = b /\ << b >> # << >>
    BY <1>5, <2>1, Lists
  <2> QED
    BY <1>2, <1>5, <1>8, <2>1, <2>2, <2>3 DEF k
<1>10. CASE Persisting(status) = << >> \o << b >> /\ ~ v < k
  <2>1. k <= v
    BY <1>2, <1>7, <1>10
  <2> HIDE DEF k, a, b, r
  <2>2. Head(Persisting(status)) = b /\ Tail(Persisting(status)) = << >>
        /\ << >> \in Seq(StoreOps) /\ Len(<< >>) <= 1
    BY <1>5, <1>10, Lists
  <2> QED
    BY <1>2, <1>5, <1>8, <2>1, <2>2 DEF k
<1> QED
  BY <1>6, <1>9, <1>10

LEMMA PersistKeeps ==
  ASSUME StoreTypes, Roles, Spans, Persist
  PROVE  StoreTypes' /\ Roles' /\ Spans'
<1>1. PICK op \in StoreOps, rest \in Seq(StoreOps), k \in Nat :
        /\ Ask("worker", op) /\ todo' = rest /\ Len(rest) <= 1
        /\ op.what \in {"delta", "patch"}
        /\ rest # << >> => rest[1].what = "patch"
  BY PersistIsAsked
<1>2. op.what \in Writes /\ op.what \notin {"none", "create", "delete"}
  BY <1>1 DEF Writes
<1>3. Exists(View)
  BY DEF Persist
<1> QED
  BY <1>1, <1>2, <1>3, BeginKeeps

LEMMA UpsertKeeps ==
  ASSUME StoreTypes, Roles, Spans, Upsert
  PROVE  StoreTypes' /\ Roles' /\ Spans'
<1>1. PICK t \in Cells \ {"outbox"}, k \in 1 .. 2 : Begin(<< Cell(t, k) >>)
  BY DEF Upsert
<1>2. Cell(t, k) \in StoreOps /\ Cell(t, k).what = "cell"
  BY CellIsOp
<1>3. Ask("worker", Cell(t, k)) /\ todo' = << >> /\ << >> \in Seq(StoreOps) /\ Len(<< >>) <= 1
  BY <1>1, <1>2, OneCall
<1> QED
  BY <1>2, <1>3, BeginKeeps DEF Upsert, Writes

LEMMA GoOnKeeps ==
  ASSUME StoreTypes, Roles, Spans, GoOn
  PROVE  StoreTypes' /\ Roles' /\ Spans'
<1>1. todo # << >> /\ todo \in Seq(StoreOps) /\ Len(todo) <= 1 /\ todo[1].what = "patch"
  BY DEF GoOn, StoreTypes, Roles
<1>2. Head(todo) = todo[1] /\ todo[1] \in StoreOps
      /\ Tail(todo) = << >>
  BY <1>1
<1>3. Ask("worker", todo[1]) /\ todo' = << >>
  BY <1>2 DEF GoOn
<1>4. span # "delete"
  BY <1>1 DEF Spans
<1> QED
  BY <1>1, <1>2, <1>3, <1>4, AskKeeps DEF Writers

LEMMA GiveUpKeeps ==
  ASSUME StoreTypes, Roles, Spans, todo' = << >>,
         UNCHANGED << backend, store, calls, jobs, reading, span, left >>
  PROVE  StoreTypes' /\ Roles' /\ Spans'
<1>1. UNCHANGED << backend, rows, live, index, calls, reading, span >>
  BY DEF store
<1>2. View' = View /\ Listed' = Listed
  BY <1>1 DEF View, Listed
<1> QED
  BY <1>1, <1>2 DEF StoreTypes, Roles, Spans, HalfDone, Free, Busy, State, Op

(* What the others ask for, of a run that is there.                         *)
LEMMA RecordIsAsked ==
  ASSUME StoreTypes, Record
  PROVE  \E op \in StoreOps : op.what = "record" /\ Ask("recorder", op)
<1> DEFINE k == Cardinality(View.records)
           a == Entry("record", k)
<1>1. View \in Runs
  BY Stands DEF Writers
<1>2. k \in Nat /\ k < MaxRecords
  <2>1. View.records \subseteq 0 .. MaxRecords - 1 /\ MaxRecords \in Nat
    BY <1>1, RunsAreRuns, StoreAssumption
  <2>2. IsFiniteSet(0 .. MaxRecords - 1)
    BY <2>1, FS_Interval
  <2>3. IsFiniteSet(View.records)
    BY <2>1, <2>2, FS_Subset
  <2> QED
    BY <2>3, FS_CardinalityType DEF Record
<1>3. a \in StoreOps /\ a.what = "record"
  BY <1>2, EntryIsOp, StoreAssumption
<1> QED
  BY <1>3 DEF Record

LEMMA MarkIsAsked ==
  ASSUME StoreTypes, Mark
  PROVE  \E op \in StoreOps : op.what = "cell" /\ Ask("server", op)
<1> DEFINE k == View.cells["outbox"] + 1
<1>1. View \in Runs
  BY Stands DEF Writers
<1>2. k \in 1 .. 2 /\ "outbox" \in Cells
  BY <1>1, RunsAreRuns, StoreAssumption DEF Mark
<1>3. Cell("outbox", k) \in StoreOps /\ Cell("outbox", k).what = "cell"
  BY <1>2, CellIsOp
<1> QED
  BY <1>3 DEF Mark

LEMMA RenameIsAsked ==
  ASSUME StoreTypes, Rename
  PROVE  \E op \in StoreOps :
           op.what = "patch" /\ "cursor" \notin op.fields /\ Ask("setter", op)
<1> DEFINE r == [View.row EXCEPT !.name = "renamed"]
           a == Patch({"name"}, r)
<1>1. View \in Runs /\ Exists(View)
  BY Stands DEF Rename, Writers
<1>2. View.row \in RunRow /\ View.row.status # "none"
  BY <1>1, RunsAreRuns
<1>3. r \in RunRow /\ r.status # "none"
  BY <1>2 DEF RunRow
<1>4. a \in StoreOps /\ a.what = "patch" /\ "cursor" \notin a.fields
  <2> HIDE DEF r
  <2> QED
    BY <1>3, PatchIsOp
<1> QED
  BY <1>4 DEF Rename

LEMMA OthersKeep ==
  ASSUME StoreTypes, Roles, Spans, Record \/ Mark \/ Rename
  PROVE  StoreTypes' /\ Roles' /\ Spans'
<1>1. todo' = todo /\ span # "delete"
  BY BlankIsRun DEF Record, Mark, Rename, Spans
<1>2. todo \in Seq(StoreOps) /\ Len(todo) <= 1 /\ (todo # << >> => todo[1].what = "patch")
  BY DEF StoreTypes, Roles
<1>3. CASE Record
  <2>1. PICK op \in StoreOps : op.what = "record" /\ Ask("recorder", op)
    BY <1>3, RecordIsAsked
  <2>2. Op("worker").what \notin {"create", "delete"} /\ backend.records
    BY <1>3 DEF Record
  <2> QED
    BY <1>1, <1>2, <2>1, <2>2, AskKeeps DEF Writers
<1>4. CASE Mark
  <2>1. PICK op \in StoreOps : op.what = "cell" /\ Ask("server", op)
    BY <1>4, MarkIsAsked
  <2>2. backend.marks
    BY <1>4 DEF Mark
  <2> QED
    BY <1>1, <1>2, <2>1, <2>2, AskKeeps DEF Writers
<1>5. CASE Rename
  <2>1. PICK op \in StoreOps :
          op.what = "patch" /\ "cursor" \notin op.fields /\ Ask("setter", op)
    BY <1>5, RenameIsAsked
  <2>2. backend.renames
    BY <1>5 DEF Rename
  <2> QED
    BY <1>1, <1>2, <2>1, <2>2, AskKeeps DEF Writers
<1> QED
  BY <1>3, <1>4, <1>5

-----------------------------------------------------------------------------
(* What the stores do.                                                      *)

LEMMA StatementKeeps ==
  ASSUME StoreTypes, Roles, Spans, NoLateWriters, NEW c \in Writers, Statement(c)
  PROVE  StoreTypes' /\ Roles' /\ Spans'
<1>1. /\ backend.kind \in Sql /\ Busy(c) /\ Op(c).what # "patch"
      /\ ~ Refused(rows, Op(c)) /\ rows' = SqlWritten(rows, Op(c))
      /\ Ends(c, "ok") /\ UNCHANGED << backend, todo, live, index >>
  BY DEF Statement, Busy
<1>2. Op(c) \in StoreOps /\ Op(c).what # "none" /\ rows \in Runs /\ live \in Runs
      /\ index \in BOOLEAN
  BY <1>1, Stands DEF Roles, StoreTypes
<1>3. rows' \in Runs
  BY <1>1, <1>2, SqlWrites
<1>4. /\ View = rows /\ View' = rows' /\ (Listed <=> Exists(rows)) /\ (Listed' <=> Exists(rows'))
      /\ backend.kind # "sqlite"
  BY <1>1 DEF View, Listed, Sql, Keeps
<1>5. span' = IF Op(c).what \in {"create", "delete"} THEN Op(c).what ELSE span
  BY <1>1 DEF Ends, SpanAfter
<1>6. span' = "create" => Exists(rows')
  BY <1>1, <1>2, <1>4, <1>5, SqlWrites, OpsAreBounded DEF Spans
<1>7. span' = "delete" => rows' = Blank
  <2>1. CASE Op(c).what \in {"create", "delete"}
    BY <1>1, <1>2, <1>5, <2>1, SqlWrites
  <2>2. CASE Op(c).what \notin {"create", "delete"} /\ span = "delete"
    <3>1. c \in {"server", "setter"} /\ rows = Blank
      BY <1>1, <1>4, <2>2, Stands DEF Spans, Writers
    <3>2. c = "server" /\ Op(c).what = "cell"
      BY <1>1, <3>1 DEF Roles
    <3>3. backend.kind = "libsql"
      BY <1>1, <2>2, <3>2, Stands DEF Spans, Sql
    <3> QED
      BY <3>1, <3>2, <3>3, <1>1, BlankIsRun DEF Refused
  <2> QED
    BY <1>5, <2>1, <2>2
<1>8. reading' \in Readings
  <2> DEFINE still == reading.undisturbed
                      /\ (reading.rest = << >> \/ Exists(rows) = Exists(rows'))
  <2>1. reading' = [reading EXCEPT !.undisturbed = still] /\ still \in BOOLEAN
    BY DEF Statement, StoreTypes
  <2> HIDE DEF still
  <2> QED
    BY <2>1 DEF StoreTypes, Readings
<1>9. ~ Exists(Blank)
  BY BlankIsRun
<1>10. HalfDone(rows')
  BY <1>1 DEF HalfDone, Roles, Sql, Writers
<1> QED
  BY <1>1, <1>2, <1>3, <1>4, <1>6, <1>7, <1>8, <1>9, <1>10, EndKeeps

(* A call that ends and leaves the store as it is.                          *)
LEMMA NothingWritten ==
  ASSUME StoreTypes, Roles, Spans, NoLateWriters, NEW c \in Writers, Busy(c),
         NEW st \in {"ok", "error"}, Ends(c, st),
         st = "ok" => Op(c).what \notin {"create", "delete"},
         UNCHANGED << backend, todo, reading, rows, live, index >>
  PROVE  StoreTypes' /\ Roles' /\ Spans'
<1>1. span' = span
  BY DEF Ends, SpanAfter
<1>2. View' = View /\ Listed' = Listed
  BY DEF View, Listed
<1> QED
  BY <1>1, <1>2, EndKeeps DEF StoreTypes, Spans

(* Two fields of a call are changed.                                        *)
LEMMA TwoFields ==
  ASSUME NEW k \in StoreCalls, NEW st, NEW t
  PROVE  [k EXCEPT !.state = st, !.seen = t] = [state |-> st, op |-> k.op, seen |-> t]
<1> DEFINE m == [k EXCEPT !.state = st]
<1>1. [k EXCEPT !.state = st, !.seen = t] = [m EXCEPT !.seen = t]
  OBVIOUS
<1>2. m = [state |-> st, op |-> k.op, seen |-> k.seen]
  BY DEF StoreCalls
<1> HIDE DEF m
<1>3. [m EXCEPT !.seen = t] = [state |-> st, op |-> k.op, seen |-> t]
  BY <1>2
<1> QED
  BY <1>1, <1>3

(* A call that goes on.                                                     *)
LEMMA GoesOn ==
  ASSUME StoreTypes, Roles, NEW c \in Writers, Busy(c), NEW st \in {"loaded", "taken"},
         NEW loaded \in Runs,
         calls' = [calls EXCEPT ![c].state = st, ![c].seen = loaded]
           \/ (calls' = [calls EXCEPT ![c].state = st] /\ loaded = calls[c].seen),
         UNCHANGED << backend, todo >>,
         st = "loaded" => /\ backend.kind \in Sql => Op(c).what = "patch"
                          /\ backend.kind \in Sql \cup {"redis"}
                          /\ Op(c).what \in Writes /\ Exists(loaded),
         st = "taken" => backend.kind = "redis" /\ Op(c).what \in {"create", "delete"}
  PROVE  /\ calls' \in [Writers -> StoreCalls] /\ Roles'
         /\ calls'[c].state = st /\ calls'[c].seen = loaded
         /\ \A d \in Writers : calls'[d].op = calls[d].op
         /\ \A d \in Writers : d # c => calls'[d] = calls[d]
<1> DEFINE k == [state |-> st, op |-> calls[c].op, seen |-> loaded]
<1>1. calls \in [Writers -> StoreCalls] /\ calls[c] \in StoreCalls
  BY DEF StoreTypes
<1>2. k \in StoreCalls /\ k.state = st /\ k.op = calls[c].op /\ k.seen = loaded
  BY <1>1 DEF StoreCalls
<1>3. calls' = [calls EXCEPT ![c] = k]
  <2> DEFINE old == calls[c]
  <2>1. CASE calls' = [calls EXCEPT ![c].state = st, ![c].seen = loaded]
    <3>1. old \in StoreCalls
      BY <1>1
    <3>2. calls' = [calls EXCEPT ![c] = [old EXCEPT !.state = st, !.seen = loaded]]
      BY <1>1, <2>1
    <3> HIDE DEF old
    <3>3. [old EXCEPT !.state = st, !.seen = loaded]
            = [state |-> st, op |-> old.op, seen |-> loaded]
      BY <3>1, TwoFields, Zenon
    <3>4. [state |-> st, op |-> old.op, seen |-> loaded] = k
      BY DEF old
    <3> QED
      BY <3>2, <3>3, <3>4
  <2>2. CASE calls' = [calls EXCEPT ![c].state = st] /\ loaded = calls[c].seen
    <3>1. old \in StoreCalls
      BY <1>1
    <3>2. calls' = [calls EXCEPT ![c] = [old EXCEPT !.state = st]]
      BY <1>1, <2>2
    <3> HIDE DEF old
    <3>3. [old EXCEPT !.state = st] = [state |-> st, op |-> old.op, seen |-> old.seen]
      BY <3>1 DEF StoreCalls
    <3>4. [state |-> st, op |-> old.op, seen |-> old.seen] = k
      BY <2>2 DEF old
    <3> QED
      BY <3>2, <3>3, <3>4
  <2> QED
    BY <2>1, <2>2
<1> HIDE DEF k
<1>4. /\ calls' \in [Writers -> StoreCalls]
      /\ calls'[c].state = st /\ calls'[c].seen = loaded /\ calls'[c].op = calls[c].op
      /\ \A d \in Writers : d # c => calls'[d] = calls[d]
  BY <1>1, <1>2, <1>3
<1>5. \A d \in Writers : calls'[d].op = calls[d].op
  BY <1>4
<1>6. Roles'
  BY <1>4, <1>5 DEF Roles, Writers, Free, Busy, State, Op, Writes
<1> QED
  BY <1>4, <1>5, <1>6

LEMMA LoadKeeps ==
  ASSUME StoreTypes, Roles, Spans, NoLateWriters, NEW c \in Writers, State(c) = "asked",
         NEW loaded \in Runs, Exists(rows) => Exists(loaded), Loads(c, loaded),
         backend.kind \in Sql => Op(c).what = "patch",
         backend.kind \in Sql \cup {"redis"}, Op(c).what \notin {"create", "delete"},
         UNCHANGED << backend, todo, reading, rows, live, index, span >>
  PROVE  StoreTypes' /\ Roles' /\ Spans'
<1>1. Busy(c)
  BY DEF Busy
<1>2. Op(c) \in StoreOps /\ Op(c).what \in Writes
  BY <1>1, Stands, OpsAreBounded DEF Roles
<1>3. CASE Exists(rows)
  <2>1. /\ calls' \in [Writers -> StoreCalls] /\ Roles'
        /\ calls'[c].state = "loaded" /\ calls'[c].seen = loaded
        /\ \A d \in Writers : calls'[d].op = calls[d].op
        /\ \A d \in Writers : d # c => calls'[d] = calls[d]
    BY <1>1, <1>2, <1>3, GoesOn DEF Loads
  <2>2. StoreTypes'
    BY <2>1 DEF StoreTypes
  <2>3. View' = View /\ Listed' = Listed
    BY DEF View, Listed
  <2>4. Spans'
    BY <1>1, <2>1, <2>3 DEF Spans, HalfDone, Free, State, Op, Writers, Busy
  <2> QED
    BY <2>1, <2>2, <2>4
<1>4. CASE ~ Exists(rows)
  <2>1. Ends(c, "ok")
    BY <1>4 DEF Loads, Ends, SpanAfter
  <2> QED
    BY <1>1, <2>1, NothingWritten
<1> QED
  BY <1>3, <1>4

LEMMA SelectRunKeeps ==
  ASSUME StoreTypes, Roles, Spans, NoLateWriters, NEW c \in Writers, SelectRun(c)
  PROVE  StoreTypes' /\ Roles' /\ Spans'
<1> DEFINE loaded == [Blank EXCEPT !.row = rows.row]
<1>1. rows \in Runs
  BY DEF StoreTypes
<1>2. loaded \in Runs /\ (Exists(rows) => Exists(loaded))
  BY <1>1, RunsAreRuns, BlankIsRun DEF Exists
<1>3. /\ backend.kind \in Sql /\ State(c) = "asked" /\ Op(c).what = "patch"
      /\ Loads(c, loaded) /\ UNCHANGED << backend, todo, reading, rows, live, index, span >>
  BY DEF SelectRun, OnlyStore, store
<1> HIDE DEF loaded
<1> QED
  BY <1>2, <1>3, LoadKeeps

LEMMA LoadDocKeeps ==
  ASSUME StoreTypes, Roles, Spans, NoLateWriters, NEW c \in Writers, LoadDoc(c)
  PROVE  StoreTypes' /\ Roles' /\ Spans'
<1>1. rows \in Runs
  BY DEF StoreTypes
<1>2. /\ backend.kind = "redis" /\ State(c) = "asked" /\ Op(c).what \notin {"create", "delete"}
      /\ Loads(c, rows) /\ UNCHANGED << backend, todo, reading, rows, live, index, span >>
  BY DEF LoadDoc, OnlyStore, store
<1> QED
  BY <1>1, <1>2, LoadKeeps DEF Sql

LEMMA UpdateRunKeeps ==
  ASSUME StoreTypes, Roles, Spans, NoLateWriters, NEW c \in Writers, UpdateRun(c)
  PROVE  StoreTypes' /\ Roles' /\ Spans'
<1>1. /\ backend.kind \in Sql /\ State(c) = "loaded" /\ Busy(c)
      /\ rows' = IF Exists(rows)
                 THEN [rows EXCEPT !.row = Merged(calls[c].seen.row, Op(c))] ELSE rows
      /\ Ends(c, "ok") /\ UNCHANGED << backend, todo, reading, live, index >>
  BY DEF UpdateRun, OnlyStore, Busy
<1>2. /\ Op(c) \in StoreOps /\ Op(c).what = "patch" /\ calls[c].seen \in Runs
      /\ Exists(calls[c].seen) /\ rows \in Runs /\ live \in Runs /\ index \in BOOLEAN
  BY <1>1, Stands DEF Roles, StoreTypes
<1>3. rows' \in Runs /\ (Exists(rows') <=> Exists(rows)) /\ (~ Exists(rows) => rows' = rows)
  BY <1>1, <1>2, PatchFits
<1>4. /\ View = rows /\ View' = rows' /\ (Listed <=> Exists(rows)) /\ (Listed' <=> Exists(rows'))
      /\ backend.kind # "sqlite"
  BY <1>1 DEF View, Listed, Sql, Keeps
<1>5. span' = span
  BY <1>1, <1>2 DEF Ends, SpanAfter
<1>6. reading' \in Readings
  BY <1>1 DEF StoreTypes
<1>7. span' = "create" => Exists(rows')
  BY <1>3, <1>4, <1>5 DEF Spans
<1>8. span' = "delete" => rows' = Blank /\ ~ Exists(rows')
  BY <1>3, <1>4, <1>5, BlankIsRun DEF Spans
<1>9. HalfDone(rows')
  BY <1>1 DEF HalfDone, Roles, Sql, Writers
<1> QED
  BY <1>1, <1>2, <1>3, <1>4, <1>6, <1>7, <1>8, <1>9, EndKeeps

LEMMA SaveDocKeeps ==
  ASSUME StoreTypes, Roles, Spans, NoLateWriters, NEW c \in Writers, SaveDoc(c)
  PROVE  StoreTypes' /\ Roles' /\ Spans'
<1>1. /\ backend.kind = "redis" /\ State(c) = "loaded" /\ Busy(c)
      /\ rows' = DocWritten(calls[c].seen, Op(c))
      /\ Ends(c, "ok") /\ UNCHANGED << backend, todo, reading, live, index >>
  BY DEF SaveDoc, OnlyStore, Busy
<1>2. /\ Op(c) \in StoreOps /\ Op(c).what \in Writes /\ calls[c].seen \in Runs
      /\ Exists(calls[c].seen) /\ live \in Runs /\ index \in BOOLEAN
  BY <1>1, Stands DEF Roles, StoreTypes
<1>3. rows' \in Runs /\ Exists(rows')
  BY <1>1, <1>2, DocWrites
<1>4. View = rows /\ View' = rows' /\ Listed = index /\ Listed' = index
      /\ backend.kind # "sqlite"
  BY <1>1 DEF View, Listed, Keeps
<1>5. span' = span
  BY <1>1, <1>2 DEF Ends, SpanAfter, Writes
<1>6. span # "delete"
  BY <1>1 DEF Spans, Busy, Free, Writers
<1>7. reading' \in Readings
  BY <1>1 DEF StoreTypes
<1>8. span' = "create" => Listed'
  BY <1>4, <1>5 DEF Spans
<1>9. c # "worker" => HalfDone(rows')
  <2> SUFFICES ASSUME c # "worker", State("worker") = "taken" PROVE Op("worker").what # "delete"
    BY <1>3 DEF HalfDone
  <2> SUFFICES ASSUME Op("worker").what = "delete" PROVE FALSE
    OBVIOUS
  <2>1. Busy("worker") /\ backend \in Backends
    BY DEF Busy, StoreTypes
  <2>2. backend.deletes /\ Free("recorder")
    BY <2>1 DEF Roles, Writers
  <2>3. ~ backend.marks /\ ~ backend.renames
    BY <1>1, <2>1, <2>2 DEF NoLateWriters
  <2>4. ~ Free(c)
    BY <1>1, Stands
  <2> QED
    BY <1>1, <2>2, <2>3, <2>4 DEF Roles, Writers
<1> QED
  BY <1>1, <1>2, <1>3, <1>4, <1>5, <1>6, <1>7, <1>8, <1>9, EndKeeps

(* A document that is set or deleted, before the list of ids is.            *)
LEMMA TakenKeeps ==
  ASSUME StoreTypes, Roles, Spans, NEW c \in Writers, State(c) = "asked",
         backend.kind = "redis", Op(c).what \in {"create", "delete"},
         rows' = IF Op(c).what = "create" THEN NewDoc ELSE Blank, At(c, "taken"),
         UNCHANGED << backend, todo, reading, live, index, span >>
  PROVE  StoreTypes' /\ Roles' /\ Spans'
<1>1. Busy(c) /\ calls[c].seen \in Runs
  BY Stands DEF Busy
<1>2. /\ calls' \in [Writers -> StoreCalls] /\ Roles'
      /\ calls'[c].state = "taken"
      /\ \A d \in Writers : calls'[d].op = calls[d].op
  BY <1>1, GoesOn DEF At
<1>3. StoreTypes'
  BY <1>2, BlankIsRun DEF StoreTypes
<1>4. c = "worker" /\ span = "unknown"
  <2>1. c = "worker"
    BY <1>1 DEF Roles
  <2> QED
    BY <2>1 DEF Spans
<1>5. HalfDone(rows)'
  BY <1>2, <1>4, BlankIsRun DEF HalfDone, Op, Writers
<1>6. Spans'
  BY <1>4, <1>5 DEF Spans
<1> QED
  BY <1>2, <1>3, <1>6

LEMMA SetDocKeeps ==
  ASSUME StoreTypes, Roles, Spans, NEW c \in Writers, SetDoc(c)
  PROVE  StoreTypes' /\ Roles' /\ Spans'
BY TakenKeeps DEF SetDoc, OnlyStore

LEMMA DeleteDocKeeps ==
  ASSUME StoreTypes, Roles, Spans, NEW c \in Writers, DeleteDoc(c)
  PROVE  StoreTypes' /\ Roles' /\ Spans'
BY TakenKeeps DEF DeleteDoc, OnlyStore


LEMMA IndexDocKeeps ==
  ASSUME StoreTypes, Roles, Spans, NoLateWriters, NEW c \in Writers, IndexDoc(c)
  PROVE  StoreTypes' /\ Roles' /\ Spans'
<1>1. /\ State(c) = "taken" /\ Busy(c) /\ index' = (Op(c).what = "create")
      /\ Ends(c, "ok") /\ UNCHANGED << backend, todo, reading, rows, live >>
  BY DEF IndexDoc, OnlyStore, Busy
<1>2. c = "worker" /\ backend.kind = "redis" /\ Op(c).what \in {"create", "delete"}
  BY <1>1 DEF Roles
<1>3. /\ Op(c).what = "create" => Exists(rows)
      /\ Op(c).what = "delete" => rows = Blank
  BY <1>1, <1>2 DEF Spans, HalfDone
<1>4. span' = Op(c).what
  BY <1>1, <1>2 DEF Ends, SpanAfter
<1>5. View' = rows /\ Listed' = index' /\ backend.kind # "sqlite"
  BY <1>1, <1>2 DEF View, Listed, Keeps
<1>6. rows' \in Runs /\ live' \in Runs /\ index' \in BOOLEAN
  BY <1>1 DEF StoreTypes
<1>7. reading' \in Readings
  BY <1>1 DEF StoreTypes
<1> QED
  BY <1>1, <1>2, <1>3, <1>4, <1>5, <1>6, <1>7, EndKeeps

LEMMA RefuseStatementKeeps ==
  ASSUME StoreTypes, Roles, Spans, NoLateWriters, NEW c \in Writers, RefuseStatement(c)
  PROVE  StoreTypes' /\ Roles' /\ Spans'
<1>1. /\ Busy(c) /\ Ends(c, "error")
      /\ UNCHANGED << backend, todo, reading, rows, live, index >>
  BY DEF RefuseStatement, OnlyStore, store, Busy
<1> QED
  BY <1>1, NothingWritten

LEMMA SqliteRefusesKeeps ==
  ASSUME StoreTypes, Roles, Spans, NoLateWriters, NEW c \in Writers, SqliteRefuses(c)
  PROVE  StoreTypes' /\ Roles' /\ Spans'
<1>1. /\ Busy(c) /\ Ends(c, "error")
      /\ UNCHANGED << backend, todo, reading, rows, live, index >>
  BY DEF SqliteRefuses, OnlyStore, store, Busy
<1> QED
  BY <1>1, NothingWritten

LEMMA FailsKeeps ==
  ASSUME StoreTypes, Roles, Spans, NoLateWriters, NEW c \in Writers, Fails(c)
  PROVE  StoreTypes' /\ Roles' /\ Spans'
<1>1. /\ Busy(c) /\ Ends(c, "error")
      /\ UNCHANGED << backend, todo, reading, rows, live, index >>
  BY DEF Fails, OnlyStore, store, Busy
<1> QED
  BY <1>1, NothingWritten

LEMMA ObjectWriteKeeps ==
  ASSUME StoreTypes, Roles, Spans, NoLateWriters, NEW c \in Writers, ObjectWrite(c)
  PROVE  StoreTypes' /\ Roles' /\ Spans'
<1>1. /\ backend.kind = "memory" /\ Busy(c) /\ live' = ObjectWritten(live, Op(c))
      /\ Ends(c, "ok") /\ UNCHANGED << backend, todo, reading, rows, index >>
  BY DEF ObjectWrite, OnlyStore, Busy
<1>2. /\ Op(c) \in StoreOps /\ Op(c).what # "none"
      /\ Op(c).what \in Writes \cup {"create", "delete"}
  BY <1>1, Stands, OpsAreBounded DEF Roles
<1>3. live \in Runs /\ rows' \in Runs /\ index' \in BOOLEAN
  BY <1>1 DEF StoreTypes
<1>4. live' \in Runs
  BY <1>1, <1>2, <1>3, ObjectWrites
<1>5. View = live /\ View' = live' /\ (Listed <=> Exists(live)) /\ (Listed' <=> Exists(live'))
      /\ backend.kind # "sqlite"
  BY <1>1 DEF View, Listed, Keeps
<1>6. span' = IF Op(c).what \in {"create", "delete"} THEN Op(c).what ELSE span
  BY <1>1 DEF Ends, SpanAfter
<1>7. span' = "create" => Exists(live')
  BY <1>1, <1>2, <1>3, <1>5, <1>6, ObjectWrites DEF Spans
<1>8. span' = "delete" => live' = Blank /\ ~ Exists(live')
  BY <1>1, <1>2, <1>3, <1>5, <1>6, ObjectWrites, BlankIsRun DEF Spans
<1>9. HalfDone(rows')
  BY <1>1 DEF HalfDone, Roles, Writers
<1>10. reading' \in Readings
  BY <1>1 DEF StoreTypes
<1> QED
  BY <1>1, <1>3, <1>4, <1>5, <1>7, <1>8, <1>9, <1>10, EndKeeps

(* On SQLite the object and the row stay there together, or gone together.  *)
LEMMA SqliteWriteKeeps ==
  ASSUME StoreTypes, Roles, Spans, NoLateWriters, NEW c \in Writers, SqliteWrite(c)
  PROVE  StoreTypes' /\ Roles' /\ Spans'
<1>1. /\ backend.kind = "sqlite" /\ Busy(c) /\ live' = ObjectWritten(live, Op(c))
      /\ rows' = SqliteWritten(rows, Op(c))
      /\ Ends(c, "ok") /\ UNCHANGED << backend, todo, reading, index >>
  BY DEF SqliteWrite, OnlyStore, Busy
<1>2. /\ Op(c) \in StoreOps /\ Op(c).what # "none"
      /\ Op(c).what \in Writes \cup {"create", "delete"}
  BY <1>1, Stands, OpsAreBounded DEF Roles
<1>3. live \in Runs /\ rows \in Runs /\ index' \in BOOLEAN /\ (Exists(live) <=> Exists(rows))
  BY <1>1 DEF StoreTypes, Spans
<1>4. live' \in Runs /\ rows' \in Runs
  BY <1>1, <1>2, <1>3, ObjectWrites, SqliteWrites
<1>5. View = live /\ View' = live' /\ (Listed <=> Exists(live)) /\ (Listed' <=> Exists(live'))
  BY <1>1 DEF View, Listed, Keeps
<1>6. span' = IF Op(c).what \in {"create", "delete"} THEN Op(c).what ELSE span
  BY <1>1 DEF Ends, SpanAfter
<1>7. Exists(live') <=> Exists(rows')
  <2>1. CASE Op(c).what \in Writes
    BY <1>1, <1>2, <1>3, <2>1, ObjectWrites, SqliteWrites
  <2>2. CASE Op(c).what = "create"
    BY <1>1, <1>2, <1>3, <2>2, ObjectWrites, SqliteWrites
  <2>3. CASE Op(c).what = "delete"
    BY <1>1, <1>2, <1>3, <2>3, ObjectWrites, SqliteWrites
  <2> QED
    BY <1>2, <2>1, <2>2, <2>3
<1>8. span' = "create" => Exists(live')
  BY <1>1, <1>2, <1>3, <1>5, <1>6, ObjectWrites DEF Spans
<1>9. span' = "delete" => live' = Blank /\ rows' = Blank
  <2>1. CASE Op(c).what = "delete"
    BY <1>1, <1>2, <1>3, <2>1, ObjectWrites, SqliteWrites
  <2>2. CASE Op(c).what \in Writes /\ span = "delete"
    <3>1. live = Blank /\ rows = Blank /\ ~ Exists(live) /\ ~ Exists(rows)
      BY <1>1, <1>5, <2>2, BlankIsRun DEF Spans
    <3> QED
      BY <1>1, <1>2, <1>3, <2>2, <3>1, ObjectWrites, SqliteWrites
  <2> QED
    BY <1>2, <1>6, <2>1, <2>2
<1>10. ~ Exists(Blank)
  BY BlankIsRun
<1>11. HalfDone(rows')
  BY <1>1 DEF HalfDone, Roles, Writers
<1>12. reading' \in Readings
  BY <1>1 DEF StoreTypes
<1> QED
  BY <1>1, <1>3, <1>4, <1>5, <1>7, <1>8, <1>9, <1>10, <1>11, <1>12, EndKeeps

LEMMA SqlitePatchFailsKeeps ==
  ASSUME StoreTypes, Roles, Spans, NoLateWriters, NEW c \in Writers, SqlitePatchFails(c)
  PROVE  StoreTypes' /\ Roles' /\ Spans'
<1>1. /\ backend.kind = "sqlite" /\ Busy(c) /\ live' = ObjectWritten(live, Op(c))
      /\ Op(c).what = "patch"
      /\ Ends(c, "error") /\ UNCHANGED << backend, todo, reading, rows, index >>
  BY DEF SqlitePatchFails, OnlyStore, Busy
<1>2. Op(c) \in StoreOps /\ Op(c).what \in Writes /\ Op(c).what # "none"
  BY <1>1, Stands DEF Writes
<1>3. live \in Runs /\ rows \in Runs /\ index \in BOOLEAN /\ (Exists(live) <=> Exists(rows))
  BY <1>1 DEF StoreTypes, Spans
<1>4. /\ live' \in Runs /\ (Exists(live') <=> Exists(live))
      /\ ~ Exists(live) => live' = live
  BY <1>1, <1>2, <1>3, ObjectWrites
<1>5. View = live /\ View' = live' /\ (Listed <=> Exists(live)) /\ (Listed' <=> Exists(live'))
  BY <1>1 DEF View, Listed, Keeps
<1>6. span' = span
  BY <1>1 DEF Ends, SpanAfter
<1>7. span = "create" => Exists(live)
  BY <1>5 DEF Spans
<1>8. span = "delete" => live = Blank /\ rows = Blank /\ ~ Exists(Blank)
  BY <1>1, <1>5, BlankIsRun DEF Spans
<1>9. HalfDone(rows')
  BY <1>1 DEF HalfDone, Roles, Writers
<1>10. reading' \in Readings
  BY <1>1 DEF StoreTypes
<1>11. rows' \in Runs /\ index' \in BOOLEAN
  BY <1>1, <1>3
<1>12. Exists(rows') <=> Exists(rows)
  BY <1>1
<1> QED
  BY <1>1, <1>3, <1>4, <1>5, <1>6, <1>7, <1>8, <1>9, <1>10, <1>11, <1>12, EndKeeps

-----------------------------------------------------------------------------
(* Faults, and the reader.                                                  *)

LEMMA ProcessDiesKeeps ==
  ASSUME StoreTypes, Roles, Spans, ProcessDies
  PROVE  StoreTypes' /\ Roles' /\ Spans'
<1>1. /\ calls' = [c \in Writers |-> AtRest("idle")] /\ todo' = << >> /\ reading' = NoRead
      /\ live' = IF backend.kind = "sqlite" THEN rows ELSE live
      /\ UNCHANGED << backend, rows, index, span >>
  BY DEF ProcessDies
<1>2. /\ calls' \in [Writers -> StoreCalls]
      /\ \A c \in Writers : calls'[c].state = "idle" /\ calls'[c].op.what = "none"
  BY <1>1, RestIsCall
<1>3. NoRead \in Readings
  BY BlankIsRun DEF NoRead, Runs, Readings
<1>4. << >> \in Seq(StoreOps) /\ Len(<< >>) <= 1
  OBVIOUS
<1>5. live' \in Runs
  BY <1>1 DEF StoreTypes
<1>6. StoreTypes'
  BY <1>1, <1>2, <1>3, <1>4, <1>5 DEF StoreTypes
<1>7. Roles'
  BY <1>1, <1>2 DEF Roles, Free, Busy, State, Op, Writers
<1>8. span = "create" => Exists(View') /\ Listed'
  BY <1>1 DEF Spans, View, Listed, Keeps
<1>9. span = "delete" => View' = Blank /\ ~ Listed'
  BY <1>1 DEF Spans, View, Listed, Keeps
<1>10. Spans'
  <2>1. backend.kind = "sqlite" => (Exists(live') <=> Exists(rows'))
                                   /\ (span = "delete" => rows' = Blank)
    BY <1>1 DEF Spans
  <2>2. HalfDone(rows)' /\ Op("worker")'.what \notin {"create", "delete"}
    BY <1>2 DEF HalfDone, State, Op, Writers
  <2>3. \A c \in Writers : Free(c)'
    BY <1>2 DEF Free, State
  <2> QED
    BY <1>1, <1>8, <1>9, <2>1, <2>2, <2>3 DEF Spans, Writers
<1> QED
  BY <1>6, <1>7, <1>10

(* Only the reader goes on.                                                 *)
LEMMA ReadingKeeps ==
  ASSUME StoreTypes, Roles, Spans, OnlyReading,
         reading' \in Readings
  PROVE  StoreTypes' /\ Roles' /\ Spans'
<1>1. UNCHANGED << backend, rows, live, index, calls, todo, span >>
  BY DEF OnlyReading, store
<1>2. View' = View /\ Listed' = Listed
  BY <1>1 DEF View, Listed
<1> QED
  BY <1>1, <1>2 DEF StoreTypes, Roles, Spans, HalfDone, Free, Busy, State, Op

LEMMA StartReadKeeps ==
  ASSUME StoreTypes, Roles, Spans, StartRead
  PROVE  StoreTypes' /\ Roles' /\ Spans'
<1>1. NoRead \in Readings
  BY BlankIsRun DEF NoRead, Runs, Readings
<1>2. reading' = [NoRead EXCEPT !.rest = TableOrder] /\ OnlyReading
  BY DEF StartRead
<1>3. reading' \in Readings
  BY <1>1, <1>2 DEF Readings
<1> QED
  BY <1>2, <1>3, ReadingKeeps

(* The selects that are left, and the tables they are about.                *)
LEMMA TablesDiffer ==
  /\ OneLeft # << >> /\ TwoLeft # << >> /\ OneLeft # TwoLeft
  /\ OneLeft # TableOrder /\ TwoLeft # TableOrder
<1>1. Len(OneLeft) = 1
  BY DEF OneLeft
<1>2. Len(TwoLeft) = 2
  BY DEF TwoLeft
<1>3. Len(TableOrder) = 3
  BY DEF TableOrder
<1>4. OneLeft # << >> /\ TwoLeft # << >>
  BY DEF OneLeft, TwoLeft
<1>5. OneLeft # TwoLeft
  BY <1>1, <1>2
<1>6. OneLeft # TableOrder
  BY <1>1, <1>3
<1>7. TwoLeft # TableOrder
  BY <1>2, <1>3
<1> QED
  BY <1>4, <1>5, <1>6, <1>7

LEMMA RestOfTables ==
  ASSUME StoreTypes, reading.rest # << >>
  PROVE  /\ Head(reading.rest) \in {"row", "deltas", "inbox"}
         /\ Tail(reading.rest) \in {<< >>, OneLeft, TwoLeft}
         /\ reading.rest = TableOrder =>
              Head(reading.rest) = "row" /\ Tail(reading.rest) = TwoLeft
         /\ reading.rest = TwoLeft =>
              Head(reading.rest) = "deltas" /\ Tail(reading.rest) = OneLeft
         /\ reading.rest = OneLeft =>
              Head(reading.rest) = "inbox" /\ Tail(reading.rest) = << >>
         /\ Len(reading.rest) = 1 <=> reading.rest = OneLeft
<1>1. reading.rest \in {<< >>, OneLeft, TwoLeft, TableOrder}
  BY DEF StoreTypes, Readings
<1>2. Head(OneLeft) = "inbox" /\ Tail(OneLeft) = << >> /\ Len(OneLeft) = 1
  BY DEF OneLeft
<1>3. Head(TwoLeft) = "deltas" /\ Tail(TwoLeft) = OneLeft /\ Len(TwoLeft) = 2
  BY DEF OneLeft, TwoLeft
<1>4. Head(TableOrder) = "row" /\ Tail(TableOrder) = TwoLeft /\ Len(TableOrder) = 3
  BY DEF TwoLeft, TableOrder
<1>5. OneLeft # TwoLeft /\ OneLeft # TableOrder /\ TwoLeft # TableOrder
  BY TablesDiffer
<1> QED
  BY <1>1, <1>2, <1>3, <1>4, <1>5

LEMMA KnownIsRead ==
  ASSUME StoreTypes, reading.rest # << >>
  PROVE  /\ Known \in Tables
         /\ \A f \in {"row", "deltas", "inbox"} :
              Known[f] = IF f = Head(reading.rest) THEN rows[f] ELSE reading.got[f]
<1>1. rows \in Tables /\ reading.got \in Tables
  BY DEF StoreTypes, Runs, Readings
<1>2. Head(reading.rest) \in {"row", "deltas", "inbox"}
  BY RestOfTables
<1>3. CASE Head(reading.rest) = "row"
  BY <1>1, <1>3 DEF Known, Tables
<1>4. CASE Head(reading.rest) = "deltas"
  BY <1>1, <1>4 DEF Known, Tables
<1>5. CASE Head(reading.rest) = "inbox"
  BY <1>1, <1>5 DEF Known, Tables
<1> QED
  BY <1>2, <1>3, <1>4, <1>5

LEMMA ReadTableKeeps ==
  ASSUME StoreTypes, Roles, Spans, ReadTable
  PROVE  StoreTypes' /\ Roles' /\ Spans'
<1> DEFINE next == [reading EXCEPT !.got = Known, !.rest = Tail(reading.rest)]
<1>1. NoRead \in Readings
  BY BlankIsRun DEF NoRead, Runs, Readings
<1>2. reading.rest # << >> /\ OnlyReading /\ (reading' = NoRead \/ reading' = next)
  BY DEF ReadTable
<1>3. Known \in Tables /\ Tail(reading.rest) \in {<< >>, OneLeft, TwoLeft}
  BY <1>2, RestOfTables, KnownIsRead
<1>4. next \in Readings
  BY <1>3 DEF StoreTypes, Readings
<1> HIDE DEF next
<1>5. reading' \in Readings
  BY <1>1, <1>2, <1>4
<1> QED
  BY <1>2, <1>5, ReadingKeeps


-----------------------------------------------------------------------------
(* The invariant.                                                           *)

LEMMA StoreBegins == StoreInit => StoreIInv
<1> SUFFICES ASSUME StoreInit PROVE StoreIInv
  OBVIOUS
<1>1. /\ backend \in Backends /\ rows = Blank /\ live = Blank /\ index = FALSE
      /\ calls = [c \in Writers |-> AtRest("idle")] /\ todo = << >>
      /\ reading = NoRead /\ span = "delete"
  BY DEF StoreInit
<1>2. /\ calls \in [Writers -> StoreCalls]
      /\ \A c \in Writers : calls[c].state = "idle" /\ calls[c].op.what = "none"
  BY <1>1, RestIsCall
<1>3. NoRead \in Readings /\ Blank \in Runs /\ ~ Exists(Blank)
  BY BlankIsRun DEF NoRead, Runs, Readings
<1>4. << >> \in Seq(StoreOps) /\ Len(<< >>) <= 1
  OBVIOUS
<1>5. StoreTypes
  BY <1>1, <1>2, <1>3, <1>4 DEF StoreTypes
<1>6. Roles
  BY <1>1, <1>2 DEF Roles, Free, Busy, State, Op, Writers
<1>7. View = Blank /\ ~ Listed
  BY <1>1, <1>3 DEF View, Listed
<1>8. HalfDone(rows) /\ Op("worker").what \notin {"create", "delete"}
  BY <1>2 DEF HalfDone, State, Op, Writers
<1>9. \A c \in Writers : Free(c)
  BY <1>2 DEF Free, State
<1>10. Spans
  BY <1>1, <1>7, <1>8, <1>9 DEF Spans, Writers
<1> QED
  BY <1>5, <1>6, <1>10 DEF StoreIInv

LEMMA StoreStep ==
  ASSUME StoreIInv, NoLateWriters, [StoreNext]_storeVars
  PROVE  StoreIInv'
<1>1. StoreTypes /\ Roles /\ Spans
  BY DEF StoreIInv
<1>2. CASE UNCHANGED storeVars
  <2>1. UNCHANGED << backend, rows, live, index, calls, todo, reading, span >>
    BY <1>2 DEF storeVars, store
  <2>2. View' = View /\ Listed' = Listed
    BY <2>1 DEF View, Listed
  <2> QED
    BY <1>1, <2>1, <2>2
       DEF StoreIInv, StoreTypes, Roles, Spans, HalfDone, Free, Busy, State, Op
<1>3. CASE Create
  BY <1>1, <1>3, CreateKeeps DEF StoreIInv
<1>4. CASE AppendInput
  BY <1>1, <1>4, AppendInputKeeps DEF StoreIInv
<1>5. CASE Persist
  BY <1>1, <1>5, PersistKeeps DEF StoreIInv
<1>6. CASE Upsert
  BY <1>1, <1>6, UpsertKeeps DEF StoreIInv
<1>7. CASE Delete
  BY <1>1, <1>7, DeleteKeeps DEF StoreIInv
<1>8. CASE GoOn
  BY <1>1, <1>8, GoOnKeeps DEF StoreIInv
<1>9. CASE GiveUp
  BY <1>1, <1>9, GiveUpKeeps DEF StoreIInv, GiveUp
<1>10. CASE Record \/ Mark \/ Rename
  BY <1>1, <1>10, OthersKeep DEF StoreIInv
<1>11. ASSUME NEW c \in Writers,
              \/ Statement(c) \/ RefuseStatement(c) \/ SelectRun(c) \/ UpdateRun(c)
       PROVE  StoreIInv'
  BY <1>1, <1>11, StatementKeeps, RefuseStatementKeeps, SelectRunKeeps, UpdateRunKeeps
     DEF StoreIInv
<1>12. ASSUME NEW c \in Writers,
              LoadDoc(c) \/ SaveDoc(c) \/ SetDoc(c) \/ DeleteDoc(c) \/ IndexDoc(c)
       PROVE  StoreIInv'
  BY <1>1, <1>12, LoadDocKeeps, SaveDocKeeps, SetDocKeeps, DeleteDocKeeps, IndexDocKeeps
     DEF StoreIInv
<1>13. ASSUME NEW c \in Writers,
              \/ ObjectWrite(c) \/ SqliteWrite(c) \/ SqliteRefuses(c)
              \/ SqlitePatchFails(c) \/ Fails(c)
       PROVE  StoreIInv'
  BY <1>1, <1>13, ObjectWriteKeeps, SqliteWriteKeeps, SqliteRefusesKeeps,
     SqlitePatchFailsKeeps, FailsKeeps DEF StoreIInv
<1>14. CASE ProcessDies
  BY <1>1, <1>14, ProcessDiesKeeps DEF StoreIInv
<1>15. CASE StartRead
  BY <1>1, <1>15, StartReadKeeps DEF StoreIInv
<1>16. CASE ReadTable
  BY <1>1, <1>16, ReadTableKeeps DEF StoreIInv
<1> QED
  BY <1>2, <1>3, <1>4, <1>5, <1>6, <1>7, <1>8, <1>9, <1>10, <1>11, <1>12, <1>13,
     <1>14, <1>15, <1>16 DEF StoreNext

(* What a store and the calls to it are made of.                            *)
THEOREM StoreTypeCorrect == NoLateWriters /\ StoreSpec => []StoreTypeOK
<1> SUFFICES ASSUME NoLateWriters PROVE StoreSpec => []StoreTypeOK
  OBVIOUS
<1>1. StoreIInv => StoreTypeOK
  <2> SUFFICES ASSUME StoreIInv PROVE StoreTypeOK
    OBVIOUS
  <2>1. \A c \in Writers : State(c) \in {"idle", "asked", "loaded", "taken", "ok", "error"}
    BY Stands DEF StoreIInv
  <2> QED
    BY <2>1 DEF StoreIInv, StoreTypes, StoreTypeOK, Runs, Readings
<1>2. StoreIInv /\ [StoreNext]_storeVars => StoreIInv'
  BY StoreStep
<1> QED
  BY <1>1, <1>2, StoreBegins, PTL DEF StoreSpec

(* A run that create answered for is found by everybody who looks at the    *)
(* runs there are, and of one that delete answered for nothing is left:     *)
(* provided that on Postgres and Redis no mark, rename or record can come   *)
(* after a delete (NoLateWriters), which the code does not prevent.         *)
THEOREM RunsAreListed == NoLateWriters /\ StoreSpec => []ListedAsStored
<1> SUFFICES ASSUME NoLateWriters PROVE StoreSpec => []ListedAsStored
  OBVIOUS
<1>1. StoreIInv => ListedAsStored
  BY DEF StoreIInv, Spans, ListedAsStored
<1>2. StoreIInv /\ [StoreNext]_storeVars => StoreIInv'
  BY StoreStep
<1> QED
  BY <1>1, <1>2, StoreBegins, PTL DEF StoreSpec


-----------------------------------------------------------------------------
(* Reads that are torn.                                                     *)

(* Inputs and deltas are only added, as long as the run is not deleted.     *)
Grown(t, u) ==
  \A k \in Nat : /\ HasInputs(k, t) => HasInputs(k, u)
                 /\ HasSession(k, t) => HasSession(k, u)

LEMMA CursorIsNumber ==
  ASSUME NEW r \in RunRow
  PROVE  r.cursor \in Nat
BY StoreAssumption DEF RunRow

LEMMA CursorsAreNumbers ==
  ASSUME StoreTypes
  PROVE  /\ rows.row.cursor \in Nat
         /\ \A c \in Writers : /\ calls[c].seen.row.cursor \in Nat
                               /\ Op(c).row.cursor \in Nat /\ Op(c).row \in RunRow
         /\ reading.got.row.cursor \in Nat
         /\ todo # << >> => todo[1] \in StoreOps /\ todo[1].row.cursor \in Nat
<1>1. \A c \in Writers : Op(c) \in StoreOps /\ calls[c].seen \in Runs
  BY Stands
<1>2. \A op \in StoreOps : op.row \in RunRow
  BY OpsAreInBounds DEF Bounded
<1>3. \A t \in Tables : t.row \in RunRow
  BY DEF Tables
<1>4. rows \in Tables /\ reading.got \in Tables
  BY DEF StoreTypes, Readings, Runs
<1>5. \A t \in Runs : t.row \in RunRow
  BY <1>3 DEF Runs
<1>6. todo # << >> => todo[1] \in StoreOps
  BY DEF StoreTypes
<1> QED
  BY <1>1, <1>2, <1>3, <1>4, <1>5, <1>6, CursorIsNumber

LEMMA SameIsGrown ==
  ASSUME NEW t, NEW u, u.inbox = t.inbox, u.deltas = t.deltas
  PROVE  Grown(t, u)
BY DEF Grown, HasInputs, HasSession

LEMMA InputsGrow ==
  ASSUME NEW t \in Runs, NEW u \in Runs, t.inbox \subseteq u.inbox, u.deltas = t.deltas
  PROVE  Grown(t, u)
<1> DEFINE m == Cardinality(t.inbox)
           num == Cardinality(u.inbox)
<1>1. m \in Nat /\ num \in Nat /\ m <= num
  BY InboxSize, FS_Subset
<1>2. \A k \in Nat : HasInputs(k, t) => HasInputs(k, u)
  <2>1. \A k \in Nat : (HasInputs(k, t) <=> k <= m) /\ (HasInputs(k, u) <=> k <= num)
    BY DEF HasInputs
  <2> HIDE DEF m, num
  <2> QED
    BY <1>1, <2>1
<1> QED
  BY <1>2 DEF Grown, HasSession

LEMMA SessionGrows ==
  ASSUME NEW t \in Runs, NEW u \in Runs, NEW num \in Nat,
         u.inbox = t.inbox, u.deltas = Append(t.deltas, num)
  PROVE  Grown(t, u) /\ \A k \in Nat : k <= num => HasSession(k, u)
<1> DEFINE v == Version(t.deltas)
           w == Version(u.deltas)
<1>1. v \in Nat /\ w = Larger(v, num)
  BY DeltasAreNumbers, VersionIsNumber, VersionOfMore
<1>2. \A k \in Nat : (HasSession(k, t) <=> k <= v) /\ (HasSession(k, u) <=> k <= w)
  BY DEF HasSession
<1> HIDE DEF v, w
<1>3. \A k \in Nat : k <= v \/ k <= num => k <= w
  BY <1>1 DEF Larger
<1> QED
  BY <1>2, <1>3 DEF Grown, HasInputs

(* A run that was just created, or deleted.                                 *)
LEMMA ZeroIsWithin ==
  ASSUME NEW t \in Runs
  PROVE  Within(0, t)
<1>1. Cardinality(t.inbox) \in Nat
  BY InboxSize
<1>2. Version(t.deltas) \in Nat
  BY DeltasAreNumbers, VersionIsNumber
<1> QED
  BY <1>1, <1>2 DEF Within, HasInputs, HasSession

(* A call begins: what the worker patches, now or next, is covered.         *)
LEMMA AskCovers ==
  ASSUME StoreTypes, Cursors, Reads, NEW c \in Writers, NEW op \in StoreOps, Ask(c, op),
         c # "worker" => todo' = todo,
         c = "worker" /\ op.what = "patch" /\ "cursor" \in op.fields
           /\ backend.kind \in Sql => Within(op.row.cursor, rows),
         c = "worker" /\ backend.kind \in Sql /\ todo' # << >>
           /\ "cursor" \in todo'[1].fields =>
             /\ HasInputs(todo'[1].row.cursor, rows)
             /\ op.what = "delta" /\ todo'[1].row.cursor <= op.n
  PROVE  Cursors' /\ Reads'
<1>1. /\ calls'[c].state = "asked" /\ calls'[c].op = op
      /\ \A d \in Writers : d # c => calls'[d] = calls[d]
  BY AskedCall
<1>2. UNCHANGED << backend, rows, reading >>
  BY DEF Ask, store
<1>3. Reads'
  BY <1>2 DEF Reads
<1> SUFFICES ASSUME backend.kind \in Sql PROVE Cursors'
  BY <1>2, <1>3 DEF Cursors
<1>4. RowCovered /\ SeenCovered /\ PatchCovered /\ NextCovered
  BY DEF Cursors
<1>5. RowCovered'
  BY <1>2, <1>4 DEF RowCovered
<1>6. SeenCovered'
  BY <1>1, <1>2, <1>4 DEF SeenCovered, State
<1>7. PatchCovered'
  BY <1>1, <1>2, <1>4 DEF PatchCovered, Op, Writers
<1>8. NextCovered'
  <2>1. CASE c = "worker"
    BY <1>1, <1>2, <2>1 DEF NextCovered, State, Op
  <2>2. CASE c # "worker"
    <3>1. calls'["worker"] = calls["worker"] /\ todo' = todo
      BY <1>1, <2>2 DEF Writers
    <3> QED
      BY <1>2, <1>4, <3>1 DEF NextCovered, State, Op
  <2> QED
    BY <2>1, <2>2
<1> QED
  BY <1>5, <1>6, <1>7, <1>8 DEF Cursors

(* A call ends and leaves the cursors as they are, or covers more.          *)
LEMMA EndCovers ==
  ASSUME StoreTypes, Cursors, Reads, NEW c \in Writers, Busy(c),
         NEW st \in {"ok", "error"}, Ends(c, st), UNCHANGED << backend, todo >>, backend.kind \in Sql,
         Grown(rows, rows'),
         reading'.rest = reading.rest, reading'.got = reading.got,
         reading.rest # << >> /\ reading'.undisturbed =>
           reading.undisturbed /\ (Exists(rows') <=> Exists(rows)),
         Within(rows'.row.cursor, rows'),
         c = "worker" /\ st = "ok" /\ Op(c).what = "delta" =>
           \A k \in Nat : k <= Op(c).n => HasSession(k, rows')
  PROVE  Cursors' /\ Reads'
<1>1. /\ calls'[c].state = st /\ calls'[c].op.what = "none"
      /\ \A d \in Writers : d # c => calls'[d] = calls[d]
  BY EndedCall DEF Ends
<1>2. RowCovered /\ SeenCovered /\ PatchCovered /\ NextCovered
  BY DEF Cursors
<1>3. \A k \in Nat : /\ (HasInputs(k, rows) => HasInputs(k, rows'))
                    /\ (HasSession(k, rows) => HasSession(k, rows'))
                    /\ (Within(k, rows) => Within(k, rows'))
  BY DEF Grown, Within
<1>4. RowCovered'
  BY DEF RowCovered
<1>5. SeenCovered'
  <2> SUFFICES ASSUME NEW d \in Writers, State(d)' = "loaded"
               PROVE  Within(calls'[d].seen.row.cursor, rows')
    BY DEF SeenCovered
  <2>1. d # c /\ calls'[d] = calls[d]
    BY <1>1 DEF State
  <2>2. Within(calls[d].seen.row.cursor, rows)
    BY <1>2, <2>1 DEF SeenCovered, State
  <2>3. calls[d].seen.row.cursor \in Nat
    BY CursorsAreNumbers
  <2> QED
    BY <1>3, <2>1, <2>2, <2>3
<1>6. PatchCovered'
  <2> SUFFICES ASSUME Op("worker")'.what = "patch", "cursor" \in Op("worker")'.fields
               PROVE  Within(Op("worker")'.row.cursor, rows')
    BY DEF PatchCovered
  <2>1. calls'["worker"] = calls["worker"]
    BY <1>1 DEF Op, Writers
  <2>2. Op("worker")' = Op("worker")
    BY <2>1 DEF Op
  <2>3. Within(Op("worker").row.cursor, rows)
    BY <1>2, <2>2 DEF PatchCovered
  <2>4. Op("worker").row.cursor \in Nat
    BY CursorsAreNumbers DEF Writers
  <2> QED
    BY <1>3, <2>2, <2>3, <2>4
<1>7. NextCovered'
  <2> DEFINE k == todo[1].row.cursor
  <2> SUFFICES ASSUME todo # << >>, "cursor" \in todo[1].fields, State("worker")' # "error"
               PROVE  /\ HasInputs(k, rows')
                      /\ \/ HasSession(k, rows')
                         \/ /\ State("worker")' = "asked" /\ Op("worker")'.what = "delta"
                            /\ k <= Op("worker")'.n
    BY DEF NextCovered
  <2>1. k \in Nat
    BY CursorsAreNumbers
  <2>2. State("worker") # "error"
    BY <1>1, Stands DEF State, Busy, Writers
  <2>3. /\ HasInputs(k, rows)
        /\ \/ HasSession(k, rows)
           \/ /\ State("worker") = "asked" /\ Op("worker").what = "delta"
              /\ k <= Op("worker").n
    BY <1>2, <2>2 DEF NextCovered
  <2>4. CASE c # "worker"
    <3>1. calls'["worker"] = calls["worker"]
      BY <1>1, <2>4 DEF Writers
    <3>2. State("worker")' = State("worker") /\ Op("worker")' = Op("worker")
      BY <3>1 DEF State, Op
    <3> HIDE DEF k
    <3> QED
      BY <1>3, <2>1, <2>3, <3>2
  <2>5. CASE c = "worker"
    <3>1. st = "ok"
      BY <1>1, <2>5 DEF State
    <3> HIDE DEF k
    <3> QED
      BY <1>3, <2>1, <2>3, <2>5, <3>1
  <2> QED
    BY <2>4, <2>5
<1>8. Reads'
  <2> DEFINE k == reading.got.row.cursor
  <2>1. OneLeft # << >> /\ TwoLeft # << >>
    BY TablesDiffer
  <2>2. k \in Nat
    BY CursorsAreNumbers
  <2>3. (HasInputs(k, rows) => HasInputs(k, rows')) /\ (Within(k, rows) => Within(k, rows'))
    BY <1>3, <2>2
  <2> QED
    BY <2>1, <2>3 DEF Reads
<1> QED
  BY <1>4, <1>5, <1>6, <1>7, <1>8 DEF Cursors


LEMMA UpdateRunCovers ==
  ASSUME StoreTypes, Roles, Cursors, Reads, NEW c \in Writers, UpdateRun(c)
  PROVE  Cursors' /\ Reads'
<1> DEFINE r == Merged(calls[c].seen.row, Op(c))
<1>1. /\ backend.kind \in Sql /\ State(c) = "loaded" /\ Busy(c)
      /\ rows' = IF Exists(rows) THEN [rows EXCEPT !.row = r] ELSE rows
      /\ Ends(c, "ok") /\ UNCHANGED << backend, todo, reading >>
  BY DEF UpdateRun, OnlyStore, Busy
<1>2. /\ Op(c) \in StoreOps /\ Op(c).what = "patch" /\ calls[c].seen \in Runs
      /\ Exists(calls[c].seen) /\ rows \in Runs
  BY <1>1, Stands DEF Roles, StoreTypes
<1>3. rows'.inbox = rows.inbox /\ rows'.deltas = rows.deltas
  BY <1>1, <1>2 DEF Runs, Tables
<1>4. Grown(rows, rows')
  BY <1>3, SameIsGrown
<1>5. Exists(rows') <=> Exists(rows)
  BY <1>1, <1>2, PatchFits
<1>6. Within(rows'.row.cursor, rows')
  <2>1. RowCovered /\ SeenCovered /\ PatchCovered
    BY <1>1 DEF Cursors
  <2>2. \A k : Within(k, rows) <=> Within(k, rows')
    BY <1>3 DEF Within, HasInputs, HasSession
  <2>3. CASE ~ Exists(rows)
    BY <1>1, <2>1, <2>3 DEF RowCovered
  <2>4. CASE Exists(rows)
    <3>1. rows'.row = r
      BY <1>1, <1>2, <2>4 DEF Runs, Tables
    <3>2. calls[c].seen.row \in RunRow
      BY <1>2, RunsAreRuns
    <3>3. r.cursor = IF "cursor" \in Op(c).fields THEN Op(c).row.cursor ELSE calls[c].seen.row.cursor
      BY <1>2, <3>2, MergedRow
    <3>4. "cursor" \in Op(c).fields => c = "worker"
      BY <1>1, <1>2 DEF Roles, Writers
    <3>5. Within(r.cursor, rows)
      BY <1>1, <1>2, <2>1, <3>3, <3>4 DEF SeenCovered, PatchCovered
    <3> QED
      BY <2>2, <3>1, <3>5
  <2> QED
    BY <2>3, <2>4
<1> HIDE DEF r
<1> QED
  BY <1>1, <1>2, <1>4, <1>5, <1>6, EndCovers

(* A statement that adds an entry, or the row.                              *)
LEMMA EntryCovers ==
  ASSUME StoreTypes, Roles, Cursors, Reads, NEW c \in Writers, Statement(c),
         Op(c).what # "delete"
  PROVE  Cursors' /\ Reads'
<1>1. /\ backend.kind \in Sql /\ Busy(c) /\ Op(c).what \notin {"patch", "delete"}
      /\ ~ Refused(rows, Op(c)) /\ rows' = SqlWritten(rows, Op(c))
      /\ Ends(c, "ok") /\ UNCHANGED << backend, todo >>
  BY DEF Statement, Busy
<1>2. Op(c) \in StoreOps /\ Op(c).what \in Writes \cup {"create"} /\ rows \in Runs
      /\ Op(c).what # "none" /\ Op(c).n \in Nat
  BY <1>1, Stands, OpsAreBounded DEF Roles, StoreTypes
<1>3. rows' \in Runs
  BY <1>1, <1>2, SqlWrites
<1>4. /\ rows'.inbox = IF Op(c).what = "inbox" THEN rows.inbox \cup {Op(c).n} ELSE rows.inbox
      /\ rows'.deltas = IF Op(c).what = "delta" THEN Append(rows.deltas, Op(c).n) ELSE rows.deltas
  BY <1>1, <1>2, SqlWrites
<1>5. /\ Op(c).what = "create" => rows'.row.cursor = 0
      /\ Op(c).what \in Writes => rows'.row = rows.row /\ (Exists(rows') <=> Exists(rows))
  BY <1>1, <1>2, SqlWrites, RowsOfRuns
<1>6. Grown(rows, rows')
      /\ (Op(c).what = "delta" => \A k \in Nat : k <= Op(c).n => HasSession(k, rows'))
  <2>1. CASE Op(c).what = "delta"
    BY <1>2, <1>3, <1>4, <2>1, SessionGrows
  <2>2. CASE Op(c).what # "delta"
    <3>1. rows.inbox \subseteq rows'.inbox /\ rows'.deltas = rows.deltas
      BY <1>4, <2>2
    <3> QED
      BY <1>2, <1>3, <2>2, <3>1, InputsGrow
  <2> QED
    BY <2>1, <2>2
<1>7. Within(rows'.row.cursor, rows')
  <2>1. CASE Op(c).what = "create"
    BY <1>3, <1>5, <2>1, ZeroIsWithin
  <2>2. CASE Op(c).what \in Writes
    <3>1. Within(rows.row.cursor, rows) /\ rows.row.cursor \in Nat
      BY <1>1, CursorsAreNumbers DEF Cursors, RowCovered
    <3> QED
      BY <1>5, <1>6, <2>2, <3>1 DEF Grown, Within
  <2> QED
    BY <1>2, <2>1, <2>2
<1>8. /\ reading'.rest = reading.rest /\ reading'.got = reading.got
      /\ reading.rest # << >> /\ reading'.undisturbed =>
           reading.undisturbed /\ (Exists(rows') <=> Exists(rows))
  <2> DEFINE still == reading.undisturbed
                      /\ (reading.rest = << >> \/ Exists(rows) = Exists(rows'))
  <2>1. reading' = [reading EXCEPT !.undisturbed = still]
    BY DEF Statement
  <2>2. /\ reading'.rest = reading.rest /\ reading'.got = reading.got
        /\ reading'.undisturbed = still
    <3> HIDE DEF still
    <3> QED
      BY <2>1 DEF StoreTypes, Readings
  <2> QED
    BY <2>2 DEF Exists
<1> QED
  BY <1>1, <1>6, <1>7, <1>8, EndCovers

(* The run is deleted: what had read it is gone with it.                    *)
LEMMA DeleteCovers ==
  ASSUME StoreTypes, Roles, Cursors, Reads, NoStaleRenames, NEW c \in Writers, Statement(c),
         Op(c).what = "delete"
  PROVE  Cursors' /\ Reads'
<1>1. /\ backend.kind \in Sql /\ Busy(c) /\ rows' = SqlWritten(rows, Op(c))
      /\ Ends(c, "ok") /\ UNCHANGED << backend, todo >>
  BY DEF Statement, Busy
<1>2. /\ Op(c) \in StoreOps /\ rows \in Runs /\ backend \in Backends
      /\ c = "worker" /\ backend.deletes /\ todo = << >>
  BY <1>1, Stands DEF Roles, StoreTypes
<1>3. rows' = Blank
  BY <1>1, <1>2, SqlWrites
<1>4. /\ calls'[c].state = "ok" /\ calls'[c].op.what = "none"
      /\ \A d \in Writers : d # c => calls'[d] = calls[d]
  BY <1>1, EndedCall DEF Ends
<1>5. RowCovered'
  <2>1. rows'.row.cursor = 0
    BY <1>3, RowsOfRuns DEF Blank
  <2> QED
    BY <1>3, <2>1, BlankIsRun, ZeroIsWithin DEF RowCovered
<1>6. SeenCovered'
  <2> SUFFICES ASSUME NEW d \in Writers, State(d)' = "loaded" PROVE FALSE
    BY DEF SeenCovered
  <2>1. d # c /\ State(d) = "loaded"
    BY <1>4 DEF State
  <2>2. Op(d).what = "patch" /\ Busy(d)
    BY <1>1, <2>1 DEF Roles, Busy
  <2>3. backend.renames
    BY <1>2, <2>1, <2>2 DEF Roles, Writers
  <2> QED
    BY <1>1, <1>2, <2>3 DEF NoStaleRenames
<1>7. PatchCovered'
  BY <1>2, <1>4 DEF PatchCovered, Op
<1>8. NextCovered'
  BY <1>1, <1>2 DEF NextCovered
<1>9. reading.rest # << >> => ~ reading'.undisturbed /\ reading'.rest = reading.rest
  <2> DEFINE still == reading.undisturbed
                      /\ (reading.rest = << >> \/ Exists(rows) = Exists(rows'))
  <2>1. reading' = [reading EXCEPT !.undisturbed = still]
    BY DEF Statement
  <2>2. reading'.rest = reading.rest /\ reading'.undisturbed = still
    <3> HIDE DEF still
    <3> QED
      BY <2>1 DEF StoreTypes, Readings
  <2>3. ~ Exists(rows')
    BY <1>3, BlankIsRun
  <2>4. reading.rest # << >> => ~ still
    BY <2>3 DEF Reads
  <2> QED
    BY <2>2, <2>4
<1>10. Reads'
  <2>1. OneLeft # << >> /\ TwoLeft # << >>
    BY TablesDiffer
  <2>2. reading.rest = << >> => reading'.rest = << >>
    BY DEF Statement, StoreTypes, Readings
  <2> QED
    BY <1>1, <1>9, <2>1, <2>2 DEF Reads
<1> QED
  BY <1>5, <1>6, <1>7, <1>8, <1>10 DEF Cursors


LEMMA SelectRunCovers ==
  ASSUME StoreTypes, Roles, Cursors, Reads, NEW c \in Writers, SelectRun(c)
  PROVE  Cursors' /\ Reads'
<1> DEFINE loaded == [Blank EXCEPT !.row = rows.row]
<1>1. /\ backend.kind \in Sql /\ State(c) = "asked" /\ Op(c).what = "patch" /\ Busy(c)
      /\ Loads(c, loaded) /\ UNCHANGED << backend, todo, reading, rows, span >>
  BY DEF SelectRun, OnlyStore, store, Busy
<1>2. rows \in Runs
  BY DEF StoreTypes
<1>3. loaded \in Runs /\ loaded.row = rows.row
  BY <1>2, RunsAreRuns, BlankIsRun DEF Exists
<1> HIDE DEF loaded
<1>4. Grown(rows, rows') /\ (Exists(rows') <=> Exists(rows))
  BY <1>1, SameIsGrown
<1>5. RowCovered /\ SeenCovered /\ PatchCovered /\ NextCovered
  BY <1>1 DEF Cursors
<1>6. CASE Exists(rows)
  <2>1. Exists(loaded)
    BY <1>3, <1>6 DEF Exists
  <2>2. calls' = [calls EXCEPT ![c].state = "loaded", ![c].seen = loaded]
    BY <1>1, <1>6 DEF Loads
  <2>3. "patch" \in Writes
    BY DEF Writes
  <2>4. /\ calls'[c].state = "loaded" /\ calls'[c].seen = loaded
        /\ \A d \in Writers : calls'[d].op = calls[d].op
        /\ \A d \in Writers : d # c => calls'[d] = calls[d]
    BY <1>1, <1>3, <2>1, <2>2, <2>3, GoesOn
  <2>5. RowCovered'
    BY <1>1, <1>5 DEF RowCovered
  <2>6. SeenCovered'
    BY <1>1, <1>3, <1>5, <2>4 DEF SeenCovered, RowCovered, State
  <2>7. PatchCovered'
    BY <1>1, <1>5, <2>4 DEF PatchCovered, Op, Writers
  <2>8. NextCovered'
    <3>1. Op("worker")' = Op("worker")
      BY <2>4 DEF Op, Writers
    <3>2. c # "worker" => State("worker")' = State("worker")
      BY <2>4 DEF State, Writers
    <3>3. c = "worker" => Op("worker").what # "delta" /\ State("worker") # "error"
      BY <1>1
    <3> QED
      BY <1>1, <1>5, <3>1, <3>2, <3>3 DEF NextCovered
  <2>9. Reads'
    BY <1>1 DEF Reads
  <2> QED
    BY <2>5, <2>6, <2>7, <2>8, <2>9 DEF Cursors
<1>7. CASE ~ Exists(rows)
  <2>1. Ends(c, "ok")
    BY <1>1, <1>7 DEF Loads, Ends, SpanAfter
  <2>2. Within(rows'.row.cursor, rows')
    BY <1>1, <1>5 DEF RowCovered
  <2> QED
    BY <1>1, <1>4, <2>1, <2>2, EndCovers
<1> QED
  BY <1>6, <1>7

(* A call that fails, or is refused.                                        *)
LEMMA ErrorCovers ==
  ASSUME StoreTypes, Roles, Cursors, Reads, NEW c \in Writers, Busy(c), Ends(c, "error"),
         UNCHANGED << backend, todo, reading, rows >>
  PROVE  Cursors' /\ Reads'
<1>1. CASE backend.kind \in Sql
  <2>1. Within(rows'.row.cursor, rows')
    BY <1>1 DEF Cursors, RowCovered
  <2>2. Grown(rows, rows') /\ (Exists(rows') <=> Exists(rows))
    BY SameIsGrown
  <2> QED
    BY <1>1, <2>1, <2>2, EndCovers
<1>2. CASE backend.kind \notin Sql
  BY <1>2 DEF Cursors, Reads
<1> QED
  BY <1>1, <1>2

(* On the other stores every row is read at once.                           *)
LEMMA OthersCover ==
  ASSUME StoreTypes, Reads, backend.kind \notin Sql, UNCHANGED << backend, reading >>
  PROVE  Cursors' /\ Reads'
<1>1. reading.rest = << >> /\ OneLeft # << >> /\ TwoLeft # << >>
  BY DEF Reads, OneLeft, TwoLeft
<1> QED
  BY <1>1 DEF Cursors, Reads

LEMMA ProcessDiesCovers ==
  ASSUME StoreTypes, Cursors, Reads, ProcessDies
  PROVE  Cursors' /\ Reads'
<1>1. /\ calls' = [c \in Writers |-> AtRest("idle")] /\ todo' = << >> /\ reading' = NoRead
      /\ UNCHANGED << backend, rows >>
  BY DEF ProcessDies
<1>2. \A c \in Writers : calls'[c].state = "idle" /\ calls'[c].op.what = "none"
  BY <1>1, RestIsCall
<1>3. Reads'
  <2>1. OneLeft # << >> /\ TwoLeft # << >> /\ reading'.rest = << >>
    BY <1>1 DEF OneLeft, TwoLeft, NoRead
  <2> QED
    BY <2>1 DEF Reads
<1>4. SeenCovered' /\ PatchCovered' /\ NextCovered'
  BY <1>1, <1>2 DEF SeenCovered, PatchCovered, NextCovered, State, Op, Writers
<1> QED
  BY <1>1, <1>3, <1>4 DEF Cursors, RowCovered

(* Only the reader goes on.                                                 *)
LEMMA OnlyReadingCovers ==
  ASSUME Cursors, OnlyReading
  PROVE  Cursors'
<1>1. UNCHANGED << backend, rows, calls, todo >>
  BY DEF OnlyReading, store
<1> QED
  BY <1>1 DEF Cursors, RowCovered, SeenCovered, PatchCovered, NextCovered, State, Op

LEMMA StartReadCovers ==
  ASSUME Cursors, Reads, StartRead
  PROVE  Cursors' /\ Reads'
<1>1. /\ backend.kind \in Sql /\ Exists(rows) /\ reading' = [NoRead EXCEPT !.rest = TableOrder]
      /\ OnlyReading /\ UNCHANGED << backend, rows >>
  BY DEF StartRead, OnlyReading, store
<1>2. reading'.rest = TableOrder
  BY <1>1 DEF NoRead
<1>3. OneLeft # TableOrder /\ TwoLeft # TableOrder
  BY TablesDiffer
<1> QED
  BY <1>1, <1>2, <1>3, OnlyReadingCovers DEF Reads

(* The row is read with a cursor that the tables cover, and they only grow. *)
LEMMA ReadTableCovers ==
  ASSUME StoreTypes, Cursors, Reads, ReadTable
  PROVE  Cursors' /\ Reads'
<1> DEFINE next == [reading EXCEPT !.got = Known, !.rest = Tail(reading.rest)]
<1>1. reading.rest # << >> /\ OnlyReading /\ UNCHANGED << backend, rows >>
  BY DEF ReadTable, OnlyReading, store
<1>2. OneLeft # << >> /\ TwoLeft # << >> /\ OneLeft # TwoLeft
  BY TablesDiffer
<1>3. CASE reading' = NoRead
  <2>1. reading'.rest = << >>
    BY <1>3 DEF NoRead
  <2> QED
    BY <1>1, <1>2, <2>1, OnlyReadingCovers DEF Reads
<1>4. CASE reading' = next /\ Len(reading.rest) # 1
  <2>1. /\ reading'.got = Known /\ reading'.rest = Tail(reading.rest)
        /\ reading'.undisturbed = reading.undisturbed
    BY <1>4 DEF StoreTypes, Readings
  <2>2. backend.kind \in Sql /\ (reading.undisturbed => Exists(rows))
    BY <1>1 DEF Reads
  <2>3. reading.rest \in {TwoLeft, TableOrder}
    BY <1>1, <1>4, RestOfTables DEF StoreTypes, Readings
  <2>4. CASE reading.rest = TableOrder
    <3>1. reading'.rest = TwoLeft /\ Known.row = rows.row
      BY <1>1, <2>1, <2>4, RestOfTables, KnownIsRead
    <3>2. Within(rows.row.cursor, rows)
      BY <2>2 DEF Cursors, RowCovered
    <3> QED
      BY <1>1, <1>2, <2>1, <2>2, <3>1, <3>2, OnlyReadingCovers DEF Reads
  <2>5. CASE reading.rest = TwoLeft
    <3>1. /\ reading'.rest = OneLeft /\ Known.row = reading.got.row
          /\ Known.deltas = rows.deltas
      BY <1>1, <2>1, <2>5, RestOfTables, KnownIsRead
    <3>2. reading.undisturbed => Within(reading.got.row.cursor, rows)
      BY <2>5 DEF Reads
    <3> QED
      BY <1>1, <1>2, <2>1, <2>2, <3>1, <3>2, OnlyReadingCovers
         DEF Reads, Within, HasInputs, HasSession
  <2> QED
    BY <2>3, <2>4, <2>5
<1> QED
  BY <1>3, <1>4 DEF ReadTable


(* A worker that begins with one call of another kind.                      *)
LEMMA BeginCovers ==
  ASSUME StoreTypes, Cursors, Reads, Create \/ Delete \/ Upsert
  PROVE  Cursors' /\ Reads'
<1>1. \E op \in StoreOps : op.what # "patch" /\ Begin(<< op >>)
  <2>1. CASE Create
    BY <2>1, CallIsOp DEF Create
  <2>2. CASE Delete
    BY <2>2, CallIsOp DEF Delete
  <2>3. CASE Upsert
    <3>1. PICK t \in Cells \ {"outbox"}, k \in 1 .. 2 : Begin(<< Cell(t, k) >>)
      BY <2>3 DEF Upsert
    <3>2. Cell(t, k) \in StoreOps /\ Cell(t, k).what = "cell"
      BY CellIsOp
    <3> QED
      BY <3>1, <3>2
  <2> QED
    BY <2>1, <2>2, <2>3
<1>2. PICK op \in StoreOps : op.what # "patch" /\ Begin(<< op >>)
  BY <1>1
<1>3. Ask("worker", op) /\ todo' = << >>
  BY <1>2, OneCall
<1> QED
  BY <1>2, <1>3, AskCovers DEF Writers

LEMMA AppendInputCovers ==
  ASSUME StoreTypes, Cursors, Reads, AppendInput
  PROVE  Cursors' /\ Reads'
<1>1. PICK op \in StoreOps, rest \in Seq(StoreOps) :
        /\ Ask("worker", op) /\ todo' = rest /\ op.what = "inbox"
        /\ rest # << >> => "cursor" \notin rest[1].fields
  BY InputIsAsked
<1> QED
  BY <1>1, AskCovers DEF Writers

(* The worker names the inputs that are there, and a session that covers    *)
(* them, or that the delta before it brings.                                *)
LEMMA PersistCovers ==
  ASSUME StoreTypes, Cursors, Reads, Persist
  PROVE  Cursors' /\ Reads'
<1>1. PICK op \in StoreOps, rest \in Seq(StoreOps), k \in Nat :
        /\ Ask("worker", op) /\ todo' = rest
        /\ k = Cardinality(View.inbox)
        /\ \/ /\ op.what = "delta" /\ op.n = k
              /\ rest # << >> /\ rest[1].row.cursor = k
           \/ /\ op.what = "patch" /\ op.row.cursor = k /\ rest = << >>
              /\ k <= Version(View.deltas)
  BY PersistIsAsked
<1>2. backend.kind \in Sql => View = rows
  BY DEF View, Sql, Keeps
<1>3. backend.kind \in Sql => HasInputs(k, rows)
  BY <1>1, <1>2 DEF HasInputs
<1>4. k <= k
  OBVIOUS
<1>5. CASE op.what = "delta" /\ op.n = k /\ rest # << >> /\ rest[1].row.cursor = k
  BY <1>1, <1>3, <1>4, <1>5, AskCovers DEF Writers
<1>6. CASE op.what = "patch" /\ op.row.cursor = k /\ rest = << >> /\ k <= Version(View.deltas)
  <2>1. backend.kind \in Sql => Within(op.row.cursor, rows)
    BY <1>2, <1>3, <1>6 DEF Within, HasSession
  <2> QED
    BY <1>1, <1>6, <2>1, AskCovers DEF Writers
<1> QED
  BY <1>1, <1>5, <1>6

LEMMA GoOnCovers ==
  ASSUME StoreTypes, Roles, Cursors, Reads, GoOn
  PROVE  Cursors' /\ Reads'
<1>1. todo # << >> /\ todo \in Seq(StoreOps) /\ Len(todo) <= 1 /\ State("worker") = "ok"
  BY DEF GoOn, StoreTypes
<1>2. Head(todo) = todo[1] /\ todo[1] \in StoreOps /\ Tail(todo) = << >>
  BY <1>1
<1>3. Ask("worker", todo[1]) /\ todo' = << >>
  BY <1>2 DEF GoOn
<1>4. backend.kind \in Sql /\ "cursor" \in todo[1].fields => Within(todo[1].row.cursor, rows)
  BY <1>1 DEF Cursors, NextCovered, Within
<1> QED
  BY <1>2, <1>3, <1>4, AskCovers DEF Writers

LEMMA GiveUpCovers ==
  ASSUME Cursors, Reads, GiveUp
  PROVE  Cursors' /\ Reads'
<1>1. UNCHANGED << backend, rows, calls, reading >> /\ todo' = << >>
  BY DEF GiveUp, store
<1> QED
  BY <1>1 DEF Cursors, Reads, RowCovered, SeenCovered, PatchCovered, NextCovered, State, Op

LEMMA OthersAskCovers ==
  ASSUME StoreTypes, Cursors, Reads, Record \/ Mark \/ Rename
  PROVE  Cursors' /\ Reads'
<1>1. todo' = todo
  BY DEF Record, Mark, Rename
<1>2. \E c \in Writers \ {"worker"}, op \in StoreOps : Ask(c, op)
  BY RecordIsAsked, MarkIsAsked, RenameIsAsked DEF Writers
<1> QED
  BY <1>1, <1>2, AskCovers

LEMMA ReadsBegin == StoreInit => Cursors /\ Reads
<1> SUFFICES ASSUME StoreInit PROVE Cursors /\ Reads
  OBVIOUS
<1>1. /\ rows = Blank /\ calls = [c \in Writers |-> AtRest("idle")] /\ todo = << >>
      /\ reading = NoRead
  BY DEF StoreInit
<1>2. \A c \in Writers : calls[c].state = "idle" /\ calls[c].op.what = "none"
  BY <1>1, RestIsCall
<1>3. RowCovered
  <2>1. rows.row.cursor = 0
    BY <1>1, RowsOfRuns DEF Blank
  <2> QED
    BY <1>1, <2>1, BlankIsRun, ZeroIsWithin DEF RowCovered
<1>4. SeenCovered /\ PatchCovered /\ NextCovered
  BY <1>1, <1>2 DEF SeenCovered, PatchCovered, NextCovered, State, Op, Writers
<1>5. Reads
  <2>1. OneLeft # << >> /\ TwoLeft # << >> /\ reading.rest = << >>
    BY <1>1, TablesDiffer DEF NoRead
  <2> QED
    BY <2>1 DEF Reads
<1> QED
  BY <1>3, <1>4, <1>5 DEF Cursors

LEMMA ReadsStep ==
  ASSUME StoreIInv, Cursors, Reads, NoStaleRenames, [StoreNext]_storeVars
  PROVE  Cursors' /\ Reads'
<1>1. StoreTypes /\ Roles
  BY DEF StoreIInv
<1>2. CASE UNCHANGED storeVars
  <2>1. UNCHANGED << backend, rows, calls, todo, reading >>
    BY <1>2 DEF storeVars, store
  <2> QED
    BY <2>1 DEF Cursors, Reads, RowCovered, SeenCovered, PatchCovered, NextCovered, State, Op
<1>3. CASE Create \/ Delete \/ Upsert
  BY <1>1, <1>3, BeginCovers
<1>4. CASE AppendInput
  BY <1>1, <1>4, AppendInputCovers
<1>5. CASE Persist
  BY <1>1, <1>5, PersistCovers
<1>6. CASE GoOn
  BY <1>1, <1>6, GoOnCovers
<1>7. CASE GiveUp
  BY <1>7, GiveUpCovers
<1>8. CASE Record \/ Mark \/ Rename
  BY <1>1, <1>8, OthersAskCovers
<1>9. ASSUME NEW c \in Writers, Statement(c) \/ SelectRun(c) \/ UpdateRun(c)
      PROVE  Cursors' /\ Reads'
  BY <1>1, <1>9, EntryCovers, DeleteCovers, SelectRunCovers, UpdateRunCovers
<1>10. ASSUME NEW c \in Writers, RefuseStatement(c) \/ Fails(c) \/ SqliteRefuses(c)
       PROVE  Cursors' /\ Reads'
  <2>1. /\ Busy(c) /\ Ends(c, "error") /\ UNCHANGED << backend, todo, reading, rows >>
    BY <1>10 DEF RefuseStatement, Fails, SqliteRefuses, OnlyStore, store, Busy
  <2> QED
    BY <1>1, <2>1, ErrorCovers
<1>11. ASSUME NEW c \in Writers,
              LoadDoc(c) \/ SaveDoc(c) \/ SetDoc(c) \/ DeleteDoc(c) \/ IndexDoc(c)
       PROVE  Cursors' /\ Reads'
  <2>1. backend.kind \notin Sql /\ OnlyStore
    BY <1>1, <1>11
       DEF LoadDoc, SaveDoc, SetDoc, DeleteDoc, IndexDoc, Roles, Sql
  <2> QED
    BY <1>1, <2>1, OthersCover DEF OnlyStore
<1>12. ASSUME NEW c \in Writers, ObjectWrite(c) \/ SqliteWrite(c) \/ SqlitePatchFails(c)
       PROVE  Cursors' /\ Reads'
  <2>1. backend.kind \notin Sql /\ OnlyStore
    BY <1>12 DEF ObjectWrite, SqliteWrite, SqlitePatchFails, Sql
  <2> QED
    BY <1>1, <2>1, OthersCover DEF OnlyStore
<1>13. CASE ProcessDies
  BY <1>1, <1>13, ProcessDiesCovers
<1>14. CASE StartRead
  BY <1>14, StartReadCovers
<1>15. CASE ReadTable
  BY <1>1, <1>15, ReadTableCovers
<1> QED
  BY <1>2, <1>3, <1>4, <1>5, <1>6, <1>7, <1>8, <1>9, <1>10, <1>11, <1>12, <1>13,
     <1>14, <1>15 DEF StoreNext

(* Whatever the writers do between the selects of a reader, the cursor it   *)
(* puts together with the tables is covered by them (reconstructRun):       *)
(* without writers that come after a delete (NoLateWriters) and renames on  *)
(* Postgres or libSQL that read the run before it was deleted and created   *)
(* again (NoStaleRenames), either of which breaks it.                       *)
THEOREM TornReadsAreSafe ==
  NoLateWriters /\ NoStaleRenames /\ StoreSpec => []TornReadSafe
<1> SUFFICES ASSUME NoLateWriters, NoStaleRenames PROVE StoreSpec => []TornReadSafe
  OBVIOUS
<1>1. StoreIInv /\ Reads => TornReadSafe
  <2> SUFFICES ASSUME StoreIInv, Reads, Len(reading.rest) = 1, reading.undisturbed
               PROVE  /\ Known.row.cursor <= Cardinality(Known.inbox)
                      /\ Known.row.cursor <= Version(Known.deltas)
    BY DEF TornReadSafe
  <2>1. StoreTypes
    BY DEF StoreIInv
  <2>2. reading.rest # << >>
    <3>1. Len(<< >>) = 0
      OBVIOUS
    <3> QED
      BY <3>1
  <2>3. reading.rest = OneLeft /\ Head(reading.rest) = "inbox"
    BY <2>1, <2>2, RestOfTables
  <2>4. /\ Known.row = reading.got.row /\ Known.deltas = reading.got.deltas
        /\ Known.inbox = rows.inbox
    BY <2>1, <2>2, <2>3, KnownIsRead
  <2> QED
    BY <2>3, <2>4 DEF Reads, HasInputs
<1>2. StoreInit => StoreIInv /\ Cursors /\ Reads
  BY StoreBegins, ReadsBegin
<1>3. StoreIInv /\ Cursors /\ Reads /\ [StoreNext]_storeVars
        => (StoreIInv /\ Cursors /\ Reads)'
  BY StoreStep, ReadsStep
<1> QED
  BY <1>1, <1>2, <1>3, PTL DEF StoreSpec


-----------------------------------------------------------------------------
(* Every store acts atomically.                                             *)

(* What AtomicStore says a call makes of a run that is whole.               *)
LEMMA PromiseMeans ==
  ASSUME View \in Runs, Exists(View) \/ View = Blank, NEW op \in StoreOps, op.what # "none"
  PROVE  /\ op.what = "create" => Abstract!Effect(op) = NewDoc
         /\ op.what = "delete" => Abstract!Effect(op) = Blank
         /\ op.what \in Writes /\ ~ Exists(View) => Abstract!Effect(op) = View
         /\ Exists(View) =>
              /\ op.what = "patch" =>
                   Abstract!Effect(op) = [View EXCEPT !.row = Merged(View.row, op)]
              /\ op.what = "inbox" =>
                   Abstract!Effect(op) = [View EXCEPT !.inbox = @ \union {op.n}]
              /\ op.what = "delta" =>
                   Abstract!Effect(op) = [View EXCEPT !.deltas = Append(@, op.n)]
              /\ op.what = "cell" =>
                   Abstract!Effect(op) = [View EXCEPT !.cells[op.table] = op.n]
              /\ op.what = "record" =>
                   Abstract!Effect(op) = [View EXCEPT !.records = @ \union {op.n}]
<1>1. Abstract!Has <=> Exists(View)
  BY DEF Abstract!Has, Exists, Blank
<1>2. CASE op.what \in {"create", "delete"}
  BY <1>2 DEF Abstract!Effect, Abstract!Created, Abstract!Deleted, NewDoc, Writes
<1>3. CASE op.what \in Writes /\ ~ Exists(View)
  BY <1>1, <1>3 DEF Abstract!Effect, Writes
<1>4. CASE op.what \in Writes /\ Exists(View)
  <2>1. View.row \in RunRow /\ View \in Tables
    BY RunsAreRuns DEF Runs
  <2>2. Merged(View.row, op)
          = [f \in DOMAIN View.row |-> IF f \in op.fields THEN op.row[f] ELSE View.row[f]]
    BY DEF Merged
  <2>3. CASE op.what = "patch"
    BY <1>1, <1>4, <2>1, <2>2, <2>3 DEF Abstract!Effect, Abstract!Changed, Abstract!Patched
  <2>4. CASE op.what = "inbox"
    BY <1>1, <1>4, <2>4 DEF Abstract!Effect, Abstract!Changed, Abstract!InputAppended
  <2>5. CASE op.what = "delta"
    BY <1>1, <1>4, <2>5 DEF Abstract!Effect, Abstract!Changed, Abstract!DeltaAppended
  <2>6. CASE op.what = "cell"
    BY <1>1, <1>4, <2>6 DEF Abstract!Effect, Abstract!Changed, Abstract!Upserted
  <2>7. CASE op.what = "record"
    BY <1>1, <1>4, <2>7 DEF Abstract!Effect, Abstract!Changed, Abstract!RecordAppended
  <2> QED
    BY <1>4, <2>3, <2>4, <2>5, <2>6, <2>7 DEF Writes
<1> QED
  BY <1>2, <1>3, <1>4, OpsAreBounded DEF Writes

(* The calls as AtomicStore sees them.                                      *)
Seen == [c \in Writers |-> Asked(c)]

LEMMA AskActs ==
  ASSUME StoreTypes, NEW c \in Writers, NEW op \in StoreOps, op.what # "none", Ask(c, op)
  PROVE  Abstract!Next
<1>1. op \in AllCalls
  BY CallIsOp DEF StoreOps
<1>2. /\ calls'[c].state = "asked" /\ calls'[c].op = op
      /\ \A d \in Writers : d # c => calls'[d] = calls[d]
  BY AskedCall
<1>3. \A d \in Writers : d # c => Asked(d)' = Asked(d)
  BY <1>2 DEF Asked, Free, State, Op
<1>4. Asked(c)' = [state |-> "asked", op |-> op]
  BY <1>2 DEF Asked, Free, State, Op
<1>5. Seen' = [Seen EXCEPT ![c] = [state |-> "asked", op |-> op]]
  BY <1>3, <1>4 DEF Seen
<1>6. Free(c) /\ Seen[c].state \in {"idle", "ok", "error"}
  BY DEF Ask, Free, Seen, Asked
<1>7. View' = View
  BY DEF Ask, store, View
<1>8. Abstract!Ask(c)
  BY <1>1, <1>5, <1>6, <1>7 DEF Abstract!Ask, Abstract!Asking, Seen
<1> QED
  BY <1>8 DEF Abstract!Next

(* A call that ends: its effect, if it was not taken before, or none.       *)
LEMMA EndActs ==
  ASSUME StoreTypes, NEW c \in Writers, Busy(c), NEW st \in {"ok", "error"}, Ends(c, st),
         \/ State(c) # "taken" /\ View' = Abstract!Effect(Op(c))
         \/ State(c) # "taken" /\ st = "error" /\ View' = View
         \/ State(c) = "taken" /\ View' = View
  PROVE  Abstract!Next
<1>1. /\ calls'[c].state = st
      /\ \A d \in Writers : d # c => calls'[d] = calls[d]
  BY EndedCall DEF Ends
<1>2. \A d \in Writers : d # c => Asked(d)' = Asked(d)
  BY <1>1 DEF Asked, Free, State, Op
<1>3. Asked(c)' = [state |-> st]
  BY <1>1 DEF Asked, Free, State
<1>4. Seen' = [Seen EXCEPT ![c] = [state |-> st]]
  BY <1>2, <1>3 DEF Seen
<1>5. State(c) # "taken" => Seen[c] = [state |-> "asked", op |-> Op(c)]
  BY DEF Busy, Seen, Asked, Free
<1>6. State(c) = "taken" => Seen[c].state = "taken"
  BY DEF Seen, Asked, Free
<1>7. Abstract!Take(c) \/ Abstract!Refuse(c) \/ Abstract!Answer(c)
  <2>1. CASE State(c) # "taken" /\ View' = Abstract!Effect(Op(c))
    <3>1. Seen[c].state = "asked" /\ Seen[c].op = Op(c)
      BY <1>5, <2>1
    <3>2. View' = Abstract!Effect(Seen[c].op)
      BY <2>1, <3>1
    <3>3. Seen' = [Seen EXCEPT ![c] = [state |-> "ok"]]
          \/ Seen' = [Seen EXCEPT ![c] = [state |-> "error"]]
      BY <1>4
    <3> QED
      BY <3>1, <3>2, <3>3 DEF Abstract!Take, Abstract!Answered, Seen
  <2>2. CASE State(c) # "taken" /\ st = "error" /\ View' = View
    BY <1>4, <1>5, <2>2 DEF Abstract!Refuse, Abstract!Answered, Seen
  <2>3. CASE State(c) = "taken" /\ View' = View
    BY <1>4, <1>6, <2>3 DEF Abstract!Answer, Abstract!Answered, Seen
  <2> QED
    BY <2>1, <2>2, <2>3
<1> QED
  BY <1>7 DEF Abstract!Next


(* A call that goes on; AtomicStore does not see that Postgres, libSQL and  *)
(* Redis read before they write.                                            *)
LEMMA LoadedActs ==
  ASSUME StoreTypes, NEW c \in Writers, State(c) = "asked", calls'[c].state = "loaded",
         calls'[c].op = calls[c].op, \A d \in Writers : d # c => calls'[d] = calls[d],
         View' = View
  PROVE  UNCHANGED Abstract!vars
<1>1. \A d \in Writers : d # c => Asked(d)' = Asked(d)
  BY DEF Asked, Free, State, Op
<1>2. Asked(c)' = Asked(c)
  BY DEF Asked, Free, State, Op
<1>3. Seen' = Seen
  BY <1>1, <1>2 DEF Seen
<1> QED
  BY <1>3 DEF Abstract!vars, Seen

LEMMA TakenActs ==
  ASSUME StoreTypes, NEW c \in Writers, State(c) = "asked", calls'[c].state = "taken",
         calls'[c].op = calls[c].op, \A d \in Writers : d # c => calls'[d] = calls[d],
         View' = Abstract!Effect(Op(c))
  PROVE  Abstract!Next
<1>1. \A d \in Writers : d # c => Asked(d)' = Asked(d)
  BY DEF Asked, Free, State, Op
<1>2. Asked(c)' = [state |-> "taken", op |-> Op(c)]
  BY DEF Asked, Free, State, Op
<1>3. Seen' = [Seen EXCEPT ![c] = [state |-> "taken", op |-> Op(c)]]
  BY <1>1, <1>2 DEF Seen
<1>4. Seen[c] = [state |-> "asked", op |-> Op(c)]
  BY DEF Seen, Asked, Free
<1>5. Seen[c].state = "asked" /\ Seen[c].op = Op(c)
  BY <1>4
<1>6. View' = Abstract!Effect(Seen[c].op)
  BY <1>5
<1>7. Seen' = [Seen EXCEPT ![c] = [state |-> "taken", op |-> Seen[c].op]]
  BY <1>3, <1>5
<1>8. Abstract!Take(c)
  BY <1>5, <1>6, <1>7 DEF Abstract!Take, Abstract!Asking, Seen
<1> QED
  BY <1>8 DEF Abstract!Next

(* Whoever asks for a change has found the run.                             *)
LEMMA AskWhole ==
  ASSUME StoreTypes, Whole, NEW c \in Writers, NEW op \in StoreOps, Ask(c, op),
         op.what \in Writes \ {"patch"} => Exists(View),
         c = "worker" /\ op.what = "delta" => ~ Version(View.deltas) >= op.n
  PROVE  Whole'
<1>1. /\ calls'[c].state = "asked" /\ calls'[c].op = op
      /\ \A d \in Writers : d # c => calls'[d] = calls[d]
  BY AskedCall
<1>2. UNCHANGED << backend, rows, live, left >> /\ View' = View
  BY DEF Ask, store, View
<1>3. /\ backend.kind = "postgres" => View = rows
      /\ backend.kind \in Keeps => View = live
  BY DEF View, Keeps
<1>4. \A d \in Writers : Busy(d)' /\ Op(d)'.what \in Writes \ {"patch"} =>
        (backend.kind = "postgres" => Exists(rows))
  <2> SUFFICES ASSUME NEW d \in Writers, Busy(d)', Op(d)'.what \in Writes \ {"patch"},
                      backend.kind = "postgres"
               PROVE  Exists(rows)
    OBVIOUS
  <2>1. CASE d = c
    BY <1>1, <1>3, <2>1 DEF Op
  <2>2. CASE d # c
    <3>1. Busy(d) /\ Op(d).what \in Writes \ {"patch"}
      BY <1>1, <2>2 DEF Busy, Op, State
    <3> QED
      BY <3>1 DEF Whole
  <2> QED
    BY <2>1, <2>2
<1>5. \A d \in Writers : State(d)' = "loaded" => d # c /\ State(d) = "loaded"
  BY <1>1 DEF State
<1>6. backend.kind \in Keeps /\ Op("worker")'.what = "delta" =>
        ~ Version(live.deltas) >= Op("worker")'.n
  <2>1. CASE c = "worker"
    BY <1>1, <1>3, <2>1 DEF Op
  <2>2. CASE c # "worker"
    <3>1. Op("worker")' = Op("worker")
      BY <1>1, <2>2 DEF Op, Writers
    <3> QED
      BY <3>1 DEF Whole
  <2> QED
    BY <2>1, <2>2
<1>7. \A d \in Writers : State(d)' = "loaded" => calls'[d] = calls[d]
  BY <1>1, <1>5
<1> QED
  BY <1>2, <1>4, <1>5, <1>6, <1>7 DEF Whole

(* A write leaves a run whole for the others that are still calling.        *)
LEMMA EndWhole ==
  ASSUME StoreTypes, Whole, NEW c \in Writers, Busy(c), NEW st \in {"ok", "error"},
         Ends(c, st), backend' = backend,
         Exists(View') \/ View' = Blank,
         backend.kind = "postgres" =>
           \A d \in Writers \ {c} :
             Busy(d) /\ Op(d).what \in Writes \ {"patch"} => Exists(rows'),
         \A d \in Writers \ {c} : State(d) = "loaded" =>
           /\ Exists(rows') /\ rows'.row = rows.row
           /\ backend.kind = "redis" => rows' = rows,
         backend.kind \in Keeps /\ c # "worker" => live'.deltas = live.deltas,
         backend.kind = "sqlite" /\ backend.faults = 0 => rows' = live',
         left' = left \/ (left.faults > 0 /\ left' = [left EXCEPT !.faults = @ - 1])
  PROVE  Whole'
<1>1. /\ calls'[c].state = st /\ calls'[c].op.what = "none"
      /\ \A d \in Writers : d # c => calls'[d] = calls[d]
  BY EndedCall DEF Ends
<1>2. \A d \in Writers : Busy(d)' => d # c /\ Busy(d) /\ Op(d)' = Op(d)
  BY <1>1 DEF Busy, State, Op
<1>3. \A d \in Writers : State(d)' = "loaded" =>
        d # c /\ State(d) = "loaded" /\ calls'[d] = calls[d]
  BY <1>1 DEF State
<1>4. Op("worker")'.what = "delta" => c # "worker" /\ Op("worker")' = Op("worker")
  BY <1>1 DEF Op, Writers
<1>5. /\ left' \in [faults : Nat, crashes : Nat]
      /\ backend.faults = 0 => left'.faults = 0
      /\ backend.crashes = 0 => left'.crashes = 0
  <2>1. CASE left' = left
    BY <2>1 DEF Whole
  <2>2. CASE left.faults > 0 /\ left' = [left EXCEPT !.faults = @ - 1]
    <3> DEFINE f == left.faults - 1
    <3>1. left.faults \in Nat /\ f \in Nat /\ left.faults # 0
      BY <2>2 DEF Whole
    <3>2. left' = [left EXCEPT !.faults = f]
      BY <2>2
    <3> HIDE DEF f
    <3> QED
      BY <3>1, <3>2 DEF Whole
  <2> QED
    BY <2>1, <2>2
<1>6. backend.kind = "postgres" =>
        \A d \in Writers : Busy(d)' /\ Op(d)'.what \in Writes \ {"patch"} => Exists(rows')
  BY <1>2
<1>7. \A d \in Writers : State(d)' = "loaded" =>
        /\ Exists(rows') /\ calls'[d].seen.row = rows'.row
        /\ backend.kind = "redis" => calls'[d].seen = rows'
  BY <1>3 DEF Whole
<1>8. backend.kind \in Keeps /\ Op("worker")'.what = "delta" =>
        ~ Version(live'.deltas) >= Op("worker")'.n
  BY <1>4 DEF Whole
<1> QED
  BY <1>5, <1>6, <1>7, <1>8 DEF Whole


(* Who else may be calling.                                                 *)
LEMMA NobodyElseReads ==
  ASSUME StoreTypes, Roles, NoOverlap, NEW c \in Writers, State(c) = "loaded"
  PROVE  c = "worker"
<1>1. backend \in Backends /\ Busy(c)
  BY DEF StoreTypes, Busy
<1>2. backend.kind \in Sql \cup {"redis"} /\ (backend.kind \in Sql => Op(c).what = "patch")
  BY DEF Roles
<1>3. c = "recorder" => Op(c).what = "record" /\ backend.records
  BY <1>1 DEF Roles
<1>4. c = "server" => Op(c).what = "cell" /\ backend.marks
  BY <1>1 DEF Roles
<1>5. c = "setter" => backend.renames
  BY <1>1 DEF Roles
<1> QED
  BY <1>1, <1>2, <1>3, <1>4, <1>5 DEF NoOverlap, Writers

LEMMA OnlyWorkerOnRedis ==
  ASSUME StoreTypes, Roles, NoOverlap, backend.kind = "redis", NEW c \in Writers, Busy(c)
  PROVE  c = "worker"
<1>1. backend \in Backends
  BY DEF StoreTypes
<1>2. ~ backend.marks /\ ~ backend.renames /\ ~ backend.records
  BY <1>1 DEF NoOverlap
<1> QED
  BY <1>2 DEF Roles, Writers

LEMMA StatementActs ==
  ASSUME StoreTypes, Roles, Whole, NoLateWriters, NoOverlap, NEW c \in Writers, Statement(c)
  PROVE  Whole' /\ Abstract!Next
<1>1. /\ backend.kind \in Sql /\ Busy(c) /\ Op(c).what # "patch" /\ State(c) # "taken"
      /\ ~ Refused(rows, Op(c)) /\ rows' = SqlWritten(rows, Op(c))
      /\ Ends(c, "ok") /\ UNCHANGED << backend, todo, live, left >>
  BY DEF Statement, Busy
<1>2. /\ Op(c) \in StoreOps /\ Op(c).what # "none" /\ rows \in Runs /\ backend \in Backends
      /\ Op(c).what \in (Writes \ {"patch"}) \cup {"create", "delete"}
  BY <1>1, Stands, OpsAreBounded DEF Roles, StoreTypes
<1>3. View = rows /\ View' = rows' /\ backend.kind \notin Keeps
  BY <1>1 DEF View, Sql, Keeps
<1>4. Exists(rows) \/ rows = Blank
  BY <1>3 DEF Whole
<1>5. Op(c).what = "create" => rows = Blank
  BY <1>1, <1>4 DEF Refused
<1>6. Op(c).what \in Writes => Exists(rows)
  <2>1. CASE backend.kind = "postgres"
    BY <1>1, <1>2, <2>1 DEF Whole
  <2>2. CASE backend.kind = "libsql"
    BY <1>1, <1>2, <2>2 DEF Refused, Writes
  <2> QED
    BY <1>1, <2>1, <2>2 DEF Sql
<1>7. rows' = Abstract!Effect(Op(c))
  <2>1. CASE Op(c).what = "create"
    BY <1>1, <1>2, <1>3, <1>4, <1>5, <2>1, PromiseMeans DEF SqlWritten, InsertRun, NewDoc
  <2>2. CASE Op(c).what = "delete"
    BY <1>1, <1>2, <1>3, <1>4, <2>2, PromiseMeans DEF SqlWritten, DeleteRows, DeleteCascade
  <2>3. CASE Op(c).what \in Writes
    <3>1. Exists(View) /\ View \in Runs
      BY <1>2, <1>3, <1>6, <2>3
    <3>2. CASE Op(c).what = "inbox"
      BY <1>1, <1>2, <1>3, <3>1, <3>2, PromiseMeans DEF SqlWritten, InsertInbox
    <3>3. CASE Op(c).what = "delta"
      BY <1>1, <1>2, <1>3, <3>1, <3>3, PromiseMeans DEF SqlWritten, InsertDelta
    <3>4. CASE Op(c).what = "cell"
      BY <1>1, <1>2, <1>3, <3>1, <3>4, PromiseMeans DEF SqlWritten, UpsertCell
    <3>5. CASE Op(c).what = "record"
      BY <1>1, <1>2, <1>3, <3>1, <3>5, PromiseMeans DEF SqlWritten, InsertRecord
    <3> QED
      BY <1>2, <2>3, <3>2, <3>3, <3>4, <3>5 DEF Writes
  <2> QED
    BY <1>2, <2>1, <2>2, <2>3
<1>8. /\ Op(c).what \in Writes => Exists(rows') /\ rows'.row = rows.row
      /\ Op(c).what = "create" => Exists(rows')
      /\ Op(c).what = "delete" => rows' = Blank
  BY <1>1, <1>2, <1>6, SqlWrites
<1>9. ASSUME NEW d \in Writers \ {c}, State(d) = "loaded"
      PROVE  Exists(rows') /\ rows'.row = rows.row
  <2>1. d = "worker"
    BY <1>9, NobodyElseReads
  <2>2. Op(c).what \in Writes
    BY <1>1, <1>2, <2>1 DEF Roles
  <2> QED
    BY <1>8, <2>2
<1>10. ASSUME backend.kind = "postgres", NEW d \in Writers \ {c},
              Busy(d), Op(d).what \in Writes \ {"patch"}
       PROVE  Exists(rows')
  <2> SUFFICES ASSUME Op(c).what = "delete" PROVE FALSE
    BY <1>2, <1>8
  <2>1. c = "worker" /\ backend.deletes /\ Free("recorder")
    BY <1>1 DEF Roles
  <2>2. ~ backend.marks /\ ~ Free(d)
    BY <1>2, <1>10, <2>1, Stands DEF NoLateWriters
  <2> QED
    BY <1>10, <2>1, <2>2 DEF Roles, Writers
<1>11. backend.kind # "redis" /\ backend.kind # "sqlite"
  BY <1>1 DEF Sql
<1>12. Whole'
  BY <1>1, <1>2, <1>3, <1>8, <1>9, <1>10, <1>11, EndWhole
<1>13. Abstract!Next
  BY <1>1, <1>3, <1>7, EndActs
<1> QED
  BY <1>12, <1>13

(* A call that fails or is refused.                                         *)
LEMMA ErrorActs ==
  ASSUME StoreTypes, Whole, NEW c \in Writers, Busy(c), Ends(c, "error"),
         UNCHANGED << backend, rows, live >>,
         left' = left \/ (left.faults > 0 /\ left' = [left EXCEPT !.faults = @ - 1])
  PROVE  Whole' /\ Abstract!Next
<1>1. View' = View
  BY DEF View
<1>2. Abstract!Next
  BY <1>1, EndActs
<1>3. \A d \in Writers \ {c} : State(d) = "loaded" => Exists(rows)
  BY DEF Whole
<1>4. backend.kind = "postgres" =>
        \A d \in Writers \ {c} : Busy(d) /\ Op(d).what \in Writes \ {"patch"} => Exists(rows)
  BY DEF Whole
<1>5. /\ Exists(View) \/ View = Blank
      /\ backend.kind = "sqlite" /\ backend.faults = 0 => rows = live
  BY DEF Whole
<1>6. Whole'
  BY <1>1, <1>3, <1>4, <1>5, EndWhole
<1> QED
  BY <1>2, <1>6

(* A write that reads the run, or finds that it is not there.               *)
LEMMA LoadActs ==
  ASSUME StoreTypes, Roles, Whole, NEW c \in Writers, State(c) = "asked", NEW loaded \in Runs,
         Exists(rows) => Exists(loaded), loaded.row = rows.row,
         backend.kind = "redis" => loaded = rows,
         Loads(c, loaded), backend.kind \in Sql => Op(c).what = "patch",
         backend.kind \in Sql \cup {"redis"}, Op(c).what \notin {"create", "delete"},
         UNCHANGED << backend, todo, rows, live, span, left >>
  PROVE  Whole' /\ [Abstract!Next]_Abstract!vars
<1>1. Busy(c) /\ View = rows /\ View' = View /\ backend.kind \notin Keeps
  BY DEF Busy, View, Sql, Keeps
<1>2. Op(c) \in StoreOps /\ Op(c).what \in Writes /\ Op(c).what # "none" /\ rows \in Runs
  BY <1>1, Stands, OpsAreBounded DEF Roles, StoreTypes
<1>3. CASE Exists(rows)
  <2>1. calls' = [calls EXCEPT ![c].state = "loaded", ![c].seen = loaded]
    BY <1>3 DEF Loads
  <2>2. /\ calls'[c].state = "loaded" /\ calls'[c].seen = loaded
        /\ \A d \in Writers : calls'[d].op = calls[d].op
        /\ \A d \in Writers : d # c => calls'[d] = calls[d]
    BY <1>1, <1>2, <1>3, <2>1, GoesOn
  <2>3. UNCHANGED Abstract!vars
    BY <1>1, <2>2, LoadedActs
  <2>4. \A d \in Writers : State(d)' = "loaded" =>
          /\ Exists(rows) /\ calls'[d].seen.row = rows.row
          /\ backend.kind = "redis" => calls'[d].seen = rows
    BY <1>3, <2>2 DEF Whole, State
  <2>5. \A d \in Writers : Op(d)' = Op(d)
    BY <2>2 DEF Op
  <2>6. Whole'
    BY <1>1, <1>3, <2>4, <2>5 DEF Whole
  <2> QED
    BY <2>3, <2>6
<1>4. CASE ~ Exists(rows)
  <2>1. Ends(c, "ok") /\ State(c) # "taken"
    BY <1>4 DEF Loads, Ends, SpanAfter
  <2>2. rows = Blank
    BY <1>1, <1>4 DEF Whole
  <2>3. View' = Abstract!Effect(Op(c))
    BY <1>1, <1>2, <1>4, <2>2, PromiseMeans
  <2>4. Abstract!Next
    BY <1>1, <2>1, <2>3, EndActs
  <2>5. \A d \in Writers \ {c} : State(d) # "loaded"
    BY <1>4 DEF Whole
  <2>6. backend.kind = "postgres" =>
          \A d \in Writers \ {c} : Busy(d) /\ Op(d).what \in Writes \ {"patch"} => Exists(rows)
    BY DEF Whole
  <2>7. backend.kind # "sqlite" /\ (Exists(View) \/ View = Blank)
    BY <1>1 DEF Keeps, Whole
  <2>8. Whole'
    BY <1>1, <2>1, <2>5, <2>6, <2>7, EndWhole
  <2> QED
    BY <2>4, <2>8
<1> QED
  BY <1>3, <1>4

LEMMA SelectRunActs ==
  ASSUME StoreTypes, Roles, Whole, NEW c \in Writers, SelectRun(c)
  PROVE  Whole' /\ [Abstract!Next]_Abstract!vars
<1> DEFINE loaded == [Blank EXCEPT !.row = rows.row]
<1>1. rows \in Runs
  BY DEF StoreTypes
<1>2. loaded \in Runs /\ loaded.row = rows.row /\ (Exists(rows) => Exists(loaded))
  BY <1>1, RunsAreRuns, BlankIsRun DEF Exists
<1>3. /\ backend.kind \in Sql /\ State(c) = "asked" /\ Op(c).what = "patch"
      /\ Loads(c, loaded) /\ UNCHANGED << backend, todo, rows, live, span, left >>
  BY DEF SelectRun, OnlyStore, store
<1>4. backend.kind # "redis"
  BY <1>3 DEF Sql
<1> HIDE DEF loaded
<1> QED
  BY <1>2, <1>3, <1>4, LoadActs

LEMMA LoadDocActs ==
  ASSUME StoreTypes, Roles, Whole, NEW c \in Writers, LoadDoc(c)
  PROVE  Whole' /\ [Abstract!Next]_Abstract!vars
<1>1. /\ backend.kind = "redis" /\ State(c) = "asked" /\ Op(c).what \notin {"create", "delete"}
      /\ Loads(c, rows) /\ UNCHANGED << backend, todo, rows, live, span, left >>
      /\ rows \in Runs
  BY DEF LoadDoc, OnlyStore, store, StoreTypes
<1> QED
  BY <1>1, LoadActs DEF Sql


LEMMA UpdateRunActs ==
  ASSUME StoreTypes, Roles, Whole, NoOverlap, NEW c \in Writers, UpdateRun(c)
  PROVE  Whole' /\ Abstract!Next
<1>1. /\ backend.kind \in Sql /\ State(c) = "loaded" /\ Busy(c) /\ State(c) # "taken"
      /\ rows' = IF Exists(rows)
                 THEN [rows EXCEPT !.row = Merged(calls[c].seen.row, Op(c))] ELSE rows
      /\ Ends(c, "ok") /\ UNCHANGED << backend, live, left >>
  BY DEF UpdateRun, OnlyStore, Busy
<1>2. Op(c) \in StoreOps /\ Op(c).what = "patch" /\ rows \in Runs
  BY <1>1, Stands DEF Roles, StoreTypes
<1>3. View = rows /\ View' = rows' /\ backend.kind \notin Keeps /\ backend.kind # "redis"
  BY <1>1 DEF View, Sql, Keeps
<1>4. Exists(rows) /\ calls[c].seen.row = rows.row /\ c = "worker"
  BY <1>1, NobodyElseReads DEF Whole
<1>5. rows' = [rows EXCEPT !.row = Merged(rows.row, Op(c))]
  BY <1>1, <1>4
<1>6. View' = Abstract!Effect(Op(c))
  BY <1>2, <1>3, <1>4, <1>5, PromiseMeans
<1>7. Exists(rows')
  BY <1>2, <1>4, <1>5, PatchFits
<1>8. \A d \in Writers \ {c} : State(d) # "loaded"
  BY <1>4, NobodyElseReads
<1>9. Whole'
  BY <1>1, <1>3, <1>7, <1>8, EndWhole DEF Keeps
<1>10. Abstract!Next
  BY <1>1, <1>6, EndActs
<1> QED
  BY <1>9, <1>10

LEMMA SaveDocActs ==
  ASSUME StoreTypes, Roles, Whole, NoOverlap, NEW c \in Writers, SaveDoc(c)
  PROVE  Whole' /\ Abstract!Next
<1>1. /\ backend.kind = "redis" /\ State(c) = "loaded" /\ Busy(c) /\ State(c) # "taken"
      /\ rows' = DocWritten(calls[c].seen, Op(c))
      /\ Ends(c, "ok") /\ UNCHANGED << backend, live, left >>
  BY DEF SaveDoc, OnlyStore, Busy
<1>2. Op(c) \in StoreOps /\ Op(c).what \in Writes /\ Op(c).what # "none" /\ rows \in Runs
  BY <1>1, Stands DEF Roles, StoreTypes
<1>3. View = rows /\ View' = rows' /\ backend.kind \notin Keeps
  BY <1>1 DEF View, Keeps
<1>4. Exists(rows) /\ calls[c].seen = rows /\ c = "worker"
  BY <1>1, OnlyWorkerOnRedis DEF Whole
<1>5. rows' = DocWritten(rows, Op(c)) /\ Exists(View) /\ View \in Runs
  BY <1>1, <1>2, <1>3, <1>4
<1>6. View' = Abstract!Effect(Op(c))
  <2>1. CASE Op(c).what = "patch"
    BY <1>2, <1>3, <1>5, <2>1, PromiseMeans DEF DocWritten, DocPatched
  <2>2. CASE Op(c).what = "inbox"
    BY <1>2, <1>3, <1>5, <2>2, PromiseMeans DEF DocWritten, DocAppended
  <2>3. CASE Op(c).what = "delta"
    BY <1>2, <1>3, <1>5, <2>3, PromiseMeans DEF DocWritten, DocAppended
  <2>4. CASE Op(c).what = "cell"
    BY <1>2, <1>3, <1>5, <2>4, PromiseMeans DEF DocWritten, DocUpserted
  <2>5. CASE Op(c).what = "record"
    BY <1>2, <1>3, <1>5, <2>5, PromiseMeans DEF DocWritten, DocUpserted
  <2> QED
    BY <1>2, <2>1, <2>2, <2>3, <2>4, <2>5 DEF Writes
<1>7. Exists(rows')
  BY <1>2, <1>4, <1>5, DocWrites
<1>8. \A d \in Writers \ {c} : State(d) # "loaded"
  BY <1>4, NobodyElseReads
<1>9. backend.kind \notin {"postgres", "sqlite"}
  BY <1>1
<1>10. Whole'
  BY <1>1, <1>3, <1>7, <1>8, <1>9, EndWhole
<1>11. Abstract!Next
  BY <1>1, <1>6, EndActs
<1> QED
  BY <1>10, <1>11

(* The document is set, or deleted: that is when the call takes effect.     *)
LEMMA DocTakenActs ==
  ASSUME StoreTypes, Roles, Whole, NoOverlap, NEW c \in Writers, State(c) = "asked",
         backend.kind = "redis", Op(c).what \in {"create", "delete"},
         rows' = IF Op(c).what = "create" THEN NewDoc ELSE Blank, At(c, "taken"),
         UNCHANGED << backend, todo, live, left >>
  PROVE  Whole' /\ Abstract!Next
<1>1. Busy(c) /\ calls[c].seen \in Runs /\ Op(c) \in StoreOps /\ rows \in Runs
  BY Stands DEF Busy, StoreTypes
<1>2. /\ calls'[c].state = "taken" /\ calls'[c].seen = calls[c].seen
      /\ \A d \in Writers : calls'[d].op = calls[d].op
      /\ \A d \in Writers : d # c => calls'[d] = calls[d]
  BY <1>1, GoesOn DEF At
<1>3. View = rows /\ View' = rows' /\ (Exists(rows) \/ rows = Blank)
  BY DEF View, Keeps, Whole
<1>4. View' = Abstract!Effect(Op(c))
  BY <1>1, <1>3, PromiseMeans
<1>5. Abstract!Next
  BY <1>2, <1>4, TakenActs
<1>6. \A d \in Writers : State(d)' # "loaded"
  <2> SUFFICES ASSUME NEW d \in Writers, State(d)' = "loaded" PROVE FALSE
    OBVIOUS
  <2>1. d # c /\ Busy(d)
    BY <1>2 DEF State, Busy
  <2> QED
    BY <1>1, <2>1, OnlyWorkerOnRedis
<1>7. Exists(rows') \/ rows' = Blank
  BY BlankIsRun
<1>8. backend.kind \notin Keeps \cup {"postgres", "sqlite"}
  BY DEF Keeps
<1>9. Whole'
  BY <1>3, <1>6, <1>7, <1>8 DEF Whole
<1> QED
  BY <1>5, <1>9

LEMMA IndexDocActs ==
  ASSUME StoreTypes, Roles, Whole, NEW c \in Writers, IndexDoc(c)
  PROVE  Whole' /\ Abstract!Next
<1>1. /\ State(c) = "taken" /\ Busy(c) /\ Ends(c, "ok") /\ UNCHANGED << backend, rows, live, left >>
  BY DEF IndexDoc, OnlyStore, Busy
<1>2. View' = View
  BY <1>1 DEF View
<1>3. Abstract!Next
  BY <1>1, <1>2, EndActs
<1>4. backend.kind = "redis"
  BY <1>1 DEF Roles
<1>5. Exists(View) \/ View = Blank
  BY DEF Whole
<1>6. \A d \in Writers \ {c} : State(d) = "loaded" => Exists(rows)
  BY DEF Whole
<1>7. backend.kind \notin Keeps \cup {"postgres", "sqlite"}
  BY <1>4 DEF Keeps
<1>8. Whole'
  BY <1>1, <1>2, <1>5, <1>6, <1>7, EndWhole
<1> QED
  BY <1>3, <1>8

(* A store that keeps its objects: a delta brings something new.            *)
LEMMA ObjectActs ==
  ASSUME StoreTypes, Roles, Whole, backend.kind \in Keeps, NEW c \in Writers, State(c) = "asked"
  PROVE  /\ ObjectWritten(live, Op(c)) = Abstract!Effect(Op(c))
         /\ \/ Exists(ObjectWritten(live, Op(c))) \/ ObjectWritten(live, Op(c)) = Blank
         /\ c # "worker" => ObjectWritten(live, Op(c)).deltas = live.deltas
<1>1. View = live /\ live \in Runs /\ (Exists(live) \/ live = Blank)
  BY DEF View, StoreTypes, Whole
<1>2. Busy(c) /\ Op(c) \in StoreOps /\ Op(c).what # "none"
  BY Stands DEF Busy, Roles
<1>3. Op(c).what \in Writes \cup {"create", "delete"}
  BY <1>2, OpsAreBounded
<1>4. Op(c).what = "delta" => c = "worker" /\ ~ Version(live.deltas) >= Op(c).n
  BY <1>2 DEF Roles, Whole, Writers
<1>5. c # "worker" => Op(c).what \in {"record", "cell", "patch"}
  BY <1>2 DEF Roles, Writers
<1>6. CASE Op(c).what \in {"create", "delete"}
  BY <1>1, <1>2, <1>5, <1>6, PromiseMeans, BlankIsRun DEF ObjectWritten
<1>7. CASE Op(c).what \in Writes /\ ~ Exists(live)
  BY <1>1, <1>2, <1>7, PromiseMeans DEF ObjectWritten, Writes
<1>8. CASE Op(c).what \in Writes /\ Exists(live)
  <2>1. ObjectWritten(live, Op(c)) = ObjectChanged(live, Op(c))
    BY <1>8 DEF ObjectWritten, Writes
  <2>2. ObjectChanged(live, Op(c)) = Abstract!Effect(Op(c))
    <3>1. CASE Op(c).what = "patch"
      BY <1>1, <1>2, <1>8, <3>1, PromiseMeans DEF ObjectChanged
    <3>2. CASE Op(c).what = "inbox"
      BY <1>1, <1>2, <1>8, <3>2, PromiseMeans DEF ObjectChanged
    <3>3. CASE Op(c).what = "delta"
      BY <1>1, <1>2, <1>4, <1>8, <3>3, PromiseMeans DEF ObjectChanged
    <3>4. CASE Op(c).what = "cell"
      BY <1>1, <1>2, <1>8, <3>4, PromiseMeans DEF ObjectChanged
    <3>5. CASE Op(c).what = "record"
      BY <1>1, <1>2, <1>8, <3>5, PromiseMeans DEF ObjectChanged
    <3> QED
      BY <1>8, <3>1, <3>2, <3>3, <3>4, <3>5 DEF Writes
  <2>3. Exists(ObjectWritten(live, Op(c)))
    BY <1>1, <1>2, <1>8, ObjectWrites
  <2>4. c # "worker" => ObjectChanged(live, Op(c)).deltas = live.deltas
    <3>1. CASE Op(c).what = "patch"
      BY <1>1, <3>1 DEF ObjectChanged, Runs, Tables
    <3>2. CASE Op(c).what = "cell"
      BY <1>1, <1>2, <3>2, EntriesFit DEF ObjectChanged
    <3>3. CASE Op(c).what = "record"
      BY <1>1, <1>2, <3>3, EntriesFit DEF ObjectChanged
    <3> QED
      BY <1>5, <3>1, <3>2, <3>3
  <2> QED
    BY <2>1, <2>2, <2>3, <2>4
<1> QED
  BY <1>3, <1>6, <1>7, <1>8

LEMMA ObjectWriteActs ==
  ASSUME StoreTypes, Roles, Whole, NEW c \in Writers, ObjectWrite(c)
  PROVE  Whole' /\ Abstract!Next
<1>1. /\ backend.kind = "memory" /\ State(c) = "asked" /\ Busy(c)
      /\ live' = ObjectWritten(live, Op(c))
      /\ Ends(c, "ok") /\ UNCHANGED << backend, rows, left >>
  BY DEF ObjectWrite, OnlyStore, Busy
<1>2. View' = live' /\ backend.kind \in Keeps
  BY <1>1 DEF View, Keeps
<1>3. /\ live' = Abstract!Effect(Op(c)) /\ (Exists(live') \/ live' = Blank)
      /\ c # "worker" => live'.deltas = live.deltas
  BY <1>1, <1>2, ObjectActs
<1>4. Abstract!Next
  BY <1>1, <1>2, <1>3, EndActs
<1>5. \A d \in Writers \ {c} : State(d) # "loaded"
  BY <1>1 DEF Roles, Sql
<1>6. Whole'
  BY <1>1, <1>2, <1>3, <1>5, EndWhole
<1> QED
  BY <1>4, <1>6

(* Without faults the tables of SQLite have what its object has.            *)
LEMMA SqliteWriteActs ==
  ASSUME StoreTypes, Roles, Whole, NEW c \in Writers, SqliteWrite(c)
  PROVE  Whole' /\ Abstract!Next
<1>1. /\ backend.kind = "sqlite" /\ State(c) = "asked" /\ Busy(c) /\ ~ Refused(rows, Op(c))
      /\ rows' = SqliteWritten(rows, Op(c)) /\ live' = ObjectWritten(live, Op(c))
      /\ Ends(c, "ok") /\ UNCHANGED << backend, left >>
  BY DEF SqliteWrite, OnlyStore, Busy
<1>2. View = live /\ View' = live' /\ backend.kind \in Keeps
  BY <1>1 DEF View, Keeps
<1>3. /\ live' = Abstract!Effect(Op(c)) /\ (Exists(live') \/ live' = Blank)
      /\ c # "worker" => live'.deltas = live.deltas
  BY <1>1, <1>2, ObjectActs
<1>4. Abstract!Next
  BY <1>1, <1>2, <1>3, EndActs
<1>5. \A d \in Writers \ {c} : State(d) # "loaded"
  BY <1>1 DEF Roles, Sql
<1>6. ASSUME backend.faults = 0 PROVE rows' = live'
  <2>1. rows = live /\ (Exists(live) \/ live = Blank)
    BY <1>1, <1>2, <1>6 DEF Whole
  <2>2. Op(c) \in StoreOps /\ Op(c).what # "none"
    BY <1>1, Stands DEF Roles
  <2>3. CASE Op(c).what = "create"
    BY <1>1, <2>1, <2>3 DEF Refused, SqliteWritten, SqlWritten, InsertRun, ObjectWritten, NewDoc
  <2>4. CASE Op(c).what = "delete"
    BY <1>1, <2>4 DEF SqliteWritten, SqlWritten, DeleteRows, DeleteCascade, ObjectWritten
  <2>5. CASE Op(c).what \in Writes /\ ~ Exists(live)
    BY <1>1, <2>1, <2>5 DEF SqliteWritten, ObjectWritten, Writes
  <2>6. CASE Op(c).what = "patch" /\ Exists(live)
    BY <1>1, <2>1, <2>6 DEF SqliteWritten, ObjectWritten, ObjectChanged
  <2>7. CASE Op(c).what \in Writes \ {"patch"} /\ Exists(live)
    <3>1. rows' = SqlWritten(live, Op(c)) /\ live' = ObjectChanged(live, Op(c))
      BY <1>1, <2>1, <2>7 DEF SqliteWritten, ObjectWritten, Writes
    <3>2. CASE Op(c).what = "inbox"
      BY <3>1, <3>2 DEF SqlWritten, InsertInbox, ObjectChanged
    <3>3. CASE Op(c).what = "delta"
      <4>1. c = "worker"
        BY <1>1, <3>3 DEF Roles, Writers
      <4>2. ~ Version(live.deltas) >= Op(c).n
        BY <1>2, <3>3, <4>1 DEF Whole
      <4> QED
        BY <3>1, <3>3, <4>2 DEF SqlWritten, InsertDelta, ObjectChanged
    <3>4. CASE Op(c).what = "cell"
      BY <3>1, <3>4 DEF SqlWritten, UpsertCell, ObjectChanged
    <3>5. CASE Op(c).what = "record"
      BY <3>1, <3>5 DEF SqlWritten, InsertRecord, ObjectChanged
    <3> QED
      BY <2>7, <3>2, <3>3, <3>4, <3>5 DEF Writes
  <2> QED
    BY <2>2, <2>3, <2>4, <2>5, <2>6, <2>7, OpsAreBounded
<1>7. Whole'
  BY <1>1, <1>2, <1>3, <1>5, <1>6, EndWhole
<1> QED
  BY <1>4, <1>7

(* The object has changed, and the error leaves open whether it has.        *)
LEMMA SqlitePatchFailsActs ==
  ASSUME StoreTypes, Roles, Whole, NEW c \in Writers, SqlitePatchFails(c)
  PROVE  Whole' /\ Abstract!Next
<1>1. /\ backend.kind = "sqlite" /\ State(c) = "asked" /\ Busy(c)
      /\ live' = ObjectWritten(live, Op(c)) /\ left.faults > 0
      /\ left' = [left EXCEPT !.faults = @ - 1]
      /\ Ends(c, "error") /\ UNCHANGED << backend, rows >>
  BY DEF SqlitePatchFails, OnlyStore, Busy
<1>2. View' = live' /\ backend.kind \in Keeps
  BY <1>1 DEF View, Keeps
<1>3. /\ live' = Abstract!Effect(Op(c)) /\ (Exists(live') \/ live' = Blank)
      /\ c # "worker" => live'.deltas = live.deltas
  BY <1>1, <1>2, ObjectActs
<1>4. Abstract!Next
  BY <1>1, <1>2, <1>3, EndActs
<1>5. \A d \in Writers \ {c} : State(d) # "loaded"
  BY <1>1 DEF Roles, Sql
<1>6. backend.faults # 0
  BY <1>1 DEF Whole
<1>7. Whole'
  BY <1>1, <1>2, <1>3, <1>5, <1>6, EndWhole
<1> QED
  BY <1>4, <1>7

(* Whoever reads the store again finds what was there.                      *)
LEMMA ProcessDiesActs ==
  ASSUME StoreTypes, Whole, NoOverlap, ProcessDies
  PROVE  Whole' /\ Abstract!Next
<1>1. /\ calls' = [c \in Writers |-> AtRest("idle")] /\ left.crashes > 0
      /\ left' = [left EXCEPT !.crashes = @ - 1] /\ UNCHANGED << backend, rows >>
      /\ live' = IF backend.kind = "sqlite" THEN rows ELSE live
  BY DEF ProcessDies
<1>2. \A c \in Writers : calls'[c].state = "idle" /\ calls'[c].op.what = "none"
  BY <1>1, RestIsCall
<1>3. backend \in Backends /\ backend.crashes # 0
  BY <1>1 DEF StoreTypes, Whole
<1>4. live' = live
  BY <1>1, <1>3 DEF NoOverlap, Whole
<1>5. View' = View
  BY <1>1, <1>4 DEF View
<1>6. \A c \in Writers : Asked(c)' = [state |-> "idle"]
  BY <1>2 DEF Asked, Free, State
<1>7. Abstract!Next
  BY <1>5, <1>6 DEF Abstract!Next, Abstract!Crash, Abstract!Quiet
<1>8. /\ left' \in [faults : Nat, crashes : Nat]
      /\ backend.faults = 0 => left'.faults = 0
  <2> DEFINE k == left.crashes - 1
  <2>1. left.crashes \in Nat /\ k \in Nat
    BY <1>1 DEF Whole
  <2>2. left' = [left EXCEPT !.crashes = k]
    BY <1>1
  <2> HIDE DEF k
  <2> QED
    BY <2>1, <2>2 DEF Whole
<1>9. Whole'
  BY <1>1, <1>2, <1>3, <1>4, <1>5, <1>8 DEF Whole, Busy, State, Op, Writers
<1> QED
  BY <1>7, <1>9


LEMMA AsksAct ==
  ASSUME StoreTypes, Whole,
         \/ Create \/ AppendInput \/ Persist \/ Upsert \/ Delete \/ GoOn
         \/ Record \/ Mark \/ Rename,
         Roles
  PROVE  Whole' /\ Abstract!Next
<1>1. \E c \in Writers, op \in StoreOps :
        /\ Ask(c, op) /\ op.what # "none"
        /\ op.what \in Writes \ {"patch"} => Exists(View)
        /\ c = "worker" /\ op.what = "delta" => ~ Version(View.deltas) >= op.n
  <2>1. CASE Create \/ Delete
    BY <2>1, CallIsOp, OneCall DEF Create, Delete, Writers, Writes
  <2>2. CASE AppendInput
    <3>1. PICK op \in StoreOps : Ask("worker", op) /\ op.what = "inbox"
      BY <2>2, InputIsAsked
    <3> QED
      BY <2>2, <3>1 DEF AppendInput, Writers
  <2>3. CASE Persist
    <3>1. PICK op \in StoreOps, rest \in Seq(StoreOps), k \in Nat :
            /\ Ask("worker", op)
            /\ \/ op.what = "delta" /\ op.n = k /\ ~ Version(View.deltas) >= k
               \/ op.what = "patch"
      BY <2>3, PersistIsAsked
    <3> QED
      BY <2>3, <3>1 DEF Persist, Writers
  <2>4. CASE Upsert
    <3>1. PICK t \in Cells \ {"outbox"}, k \in 1 .. 2 : Begin(<< Cell(t, k) >>)
      BY <2>4 DEF Upsert
    <3>2. Cell(t, k) \in StoreOps /\ Cell(t, k).what = "cell"
      BY CellIsOp
    <3> QED
      BY <2>4, <3>1, <3>2, OneCall DEF Upsert, Writers
  <2>5. CASE GoOn
    <3>1. todo # << >> /\ todo \in Seq(StoreOps) /\ Head(todo) = todo[1] /\ todo[1].what = "patch"
      BY <2>5 DEF GoOn, StoreTypes, Roles
    <3>2. todo[1] \in StoreOps
      BY <3>1
    <3> QED
      BY <2>5, <3>1, <3>2 DEF GoOn, Writers
  <2>6. CASE Record
    BY <2>6, RecordIsAsked DEF Record, Writers
  <2>7. CASE Mark
    BY <2>7, MarkIsAsked DEF Mark, Writers
  <2>8. CASE Rename
    BY <2>8, RenameIsAsked DEF Rename, Writers
  <2> QED
    BY <2>1, <2>2, <2>3, <2>4, <2>5, <2>6, <2>7, <2>8
<1> QED
  BY <1>1, AskActs, AskWhole

(* The calls and the run are as they were.                                  *)
LEMMA OthersStutter ==
  ASSUME Whole, UNCHANGED << backend, rows, live, calls, left >>
  PROVE  Whole' /\ UNCHANGED Abstract!vars
<1>1. View' = View
  BY DEF View
<1>2. Seen' = Seen
  BY DEF Seen, Asked, Free, State, Op
<1>3. UNCHANGED Abstract!vars
  BY <1>1, <1>2 DEF Abstract!vars, Seen
<1>4. Whole'
  BY <1>1 DEF Whole, Busy, State, Op
<1> QED
  BY <1>3, <1>4

LEMMA WholeBegins == StoreInit => Whole /\ Abstract!Init
<1> SUFFICES ASSUME StoreInit PROVE Whole /\ Abstract!Init
  OBVIOUS
<1>1. /\ backend \in Backends /\ rows = Blank /\ live = Blank
      /\ calls = [c \in Writers |-> AtRest("idle")]
      /\ left = [faults |-> backend.faults, crashes |-> backend.crashes]
  BY DEF StoreInit
<1>2. \A c \in Writers : calls[c].state = "idle" /\ calls[c].op.what = "none"
  BY <1>1, RestIsCall
<1>3. View = Blank
  BY <1>1 DEF View
<1>4. backend.faults \in Nat /\ backend.crashes \in Nat
  BY <1>1, StoreAssumption DEF BackendType
<1>5. Whole
  BY <1>1, <1>2, <1>3, <1>4 DEF Whole, Busy, State, Op, Writers
<1>6. \A c \in Writers : Asked(c) = [state |-> "idle"]
  BY <1>2 DEF Asked, Free, State
<1>7. Abstract!Init
  BY <1>3, <1>6 DEF Abstract!Init, Abstract!Quiet
<1> QED
  BY <1>5, <1>7

LEMMA WholeStep ==
  ASSUME StoreIInv, Whole, NoLateWriters, NoOverlap, [StoreNext]_storeVars
  PROVE  Whole' /\ [Abstract!Next]_Abstract!vars
<1>1. StoreTypes /\ Roles
  BY DEF StoreIInv
<1>2. CASE UNCHANGED storeVars
  BY <1>2, OthersStutter DEF storeVars, store
<1>3. CASE \/ Create \/ AppendInput \/ Persist \/ Upsert \/ Delete \/ GoOn
           \/ Record \/ Mark \/ Rename
  BY <1>1, <1>3, AsksAct
<1>4. CASE GiveUp \/ StartRead \/ ReadTable
  BY <1>4, OthersStutter DEF GiveUp, StartRead, ReadTable, OnlyReading, store
<1>5. ASSUME NEW c \in Writers, Statement(c) \/ UpdateRun(c) \/ SaveDoc(c) \/ IndexDoc(c)
      PROVE  Whole' /\ Abstract!Next
  BY <1>1, <1>5, StatementActs, UpdateRunActs, SaveDocActs, IndexDocActs
<1>6. ASSUME NEW c \in Writers, SelectRun(c) \/ LoadDoc(c)
      PROVE  Whole' /\ [Abstract!Next]_Abstract!vars
  BY <1>1, <1>6, SelectRunActs, LoadDocActs
<1>7. ASSUME NEW c \in Writers, SetDoc(c) \/ DeleteDoc(c)
      PROVE  Whole' /\ Abstract!Next
  BY <1>1, <1>7, DocTakenActs DEF SetDoc, DeleteDoc, OnlyStore
<1>8. ASSUME NEW c \in Writers, RefuseStatement(c) \/ SqliteRefuses(c) \/ Fails(c)
      PROVE  Whole' /\ Abstract!Next
  <2>1. /\ Busy(c) /\ Ends(c, "error") /\ UNCHANGED << backend, rows, live >>
        /\ left' = left \/ (left.faults > 0 /\ left' = [left EXCEPT !.faults = @ - 1])
    BY <1>8 DEF RefuseStatement, Fails, SqliteRefuses, OnlyStore, store, Busy
  <2> QED
    BY <1>1, <2>1, ErrorActs
<1>9. ASSUME NEW c \in Writers, ObjectWrite(c) \/ SqliteWrite(c) \/ SqlitePatchFails(c)
      PROVE  Whole' /\ Abstract!Next
  BY <1>1, <1>9, ObjectWriteActs, SqliteWriteActs, SqlitePatchFailsActs
<1>10. CASE ProcessDies
  BY <1>1, <1>10, ProcessDiesActs
<1> QED
  BY <1>2, <1>3, <1>4, <1>5, <1>6, <1>7, <1>8, <1>9, <1>10 DEF StoreNext

(* Every write of every store takes effect at one moment, as a whole and    *)
(* only in what it names: create, patch, appendInput, appendDelta and the   *)
(* other writes of the five stores do what AtomicStore promises, whatever   *)
(* fails between their reads and their writes, where no two writers that    *)
(* read first overlap (NoOverlap, NoLateWriters): a patch on Postgres or    *)
(* libSQL and every write on Redis can take back what came in between.      *)
THEOREM StoresActAtomically ==
  NoLateWriters /\ NoOverlap /\ StoreSpec => ActsAtomically
<1> SUFFICES ASSUME NoLateWriters, NoOverlap PROVE StoreSpec => ActsAtomically
  OBVIOUS
<1>1. StoreInit => StoreIInv /\ Whole /\ Abstract!Init
  BY StoreBegins, WholeBegins
<1>2. StoreIInv /\ Whole /\ [StoreNext]_storeVars
        => (StoreIInv /\ Whole)' /\ [Abstract!Next]_Abstract!vars
  BY StoreStep, WholeStep
<1> QED
  BY <1>1, <1>2, PTL DEF StoreSpec, ActsAtomically, Abstract!Spec

-----------------------------------------------------------------------------
(* deploy(), for any number of deploys, any setup of the children, and any  *)
(* failures.  The argument follows the lease: until it hands it over,       *)
(* deploy() knows that green does not hold it; from then on it knows whom   *)
(* to hand it back to.                                                      *)

Before   == {"launch", "waitReady", "discover", "handoff"}
Cutover  == {"confirm", "watch", "rollback"}
Killing  == {"killRolledBack", "killRejected"}
Failed   == pc = "idle" /\ verdict \in {"rejected", "rolled-back"}

LeaseRow == [holder: Procs, live: BOOLEAN]

Types ==
    /\ lease \in LeaseRow
    /\ proc \in [Procs -> {"absent", "starting", "standby", "acquiring", "serving", "gone"}]
    /\ n \in Procs /\ from \in Procs \union {None}
    /\ pc \in Before \union Cutover \union Killing \union {"idle", "safeState"}
    /\ given \subseteq Procs

(* A child exists from the launch of its deploy, and is gone after a deploy *)
(* that was not promoted.                                                   *)
Children ==
    /\ \A p \in Procs : p > n => proc[p] = "absent"
    /\ pc = "launch" => proc[n] = "absent"
    /\ Failed => proc[n] \in {"absent", "gone"}

(* The cutover knows the process it took the lease from.                    *)
Target ==
    /\ lease.holder <= n
    /\ handedOff => from \in Procs /\ from <= n
    /\ pc \in Before => ~handedOff
    /\ pc \in Cutover => handedOff

(* Where no lease lapses, it is live and belongs to a child of a deploy up  *)
(* to this one: not to green before the cutover, and after it the launcher  *)
(* knows another process to hand it back to, unless the lease was stranded. *)
Leased ==
    /\ lease.live
    /\ pc \in Before => lease.holder # n
    /\ (pc \in Killing \/ Failed) /\ ~stranded => lease.holder # n
    /\ pc = "handoff" \/ (handedOff /\ pc \in Cutover \union {"safeState"}) =>
           from < n
    /\ (pc = "safeState" /\ ~handedOff /\ ~stranded) => lease.holder # n

(* The lease, and a child that serves or is about to acquire, were given it *)
(* by the launcher; so was the process it is handed back to.                *)
GivenOnly ==
    /\ lease.holder \in given
    /\ \A p \in Procs : proc[p] \in {"acquiring", "serving"} => p \in given
    /\ from \in Procs => from \in given

DeployIInv == Types /\ Children /\ Target /\ GivenOnly /\ (~setup.lapses => Leased)

-----------------------------------------------------------------------------

(* The rows the launcher and the children write.                            *)
LEMMA RowTaken == ASSUME NEW p \in Procs PROVE [holder |-> p, live |-> TRUE] \in LeaseRow
  BY Zenon DEF LeaseRow

LEMMA RowMoved ==
    ASSUME NEW p \in Procs, NEW l \in LeaseRow
    PROVE  /\ [l EXCEPT !.holder = p] \in LeaseRow
           /\ [l EXCEPT !.holder = p].live = l.live
           /\ [l EXCEPT !.holder = p].holder = p
  BY DEF LeaseRow

LEMMA InitInv == DeployInit => DeployIInv
<1> SUFFICES ASSUME DeployInit PROVE DeployIInv
  OBVIOUS
<1>1. Types
  BY DeploymentAssumption DEF DeployInit, Types, LeaseRow, Procs, Before, Cutover, Killing
<1>2. Children
  BY DeploymentAssumption DEF DeployInit, Children, Failed, Procs
<1>3. Target
  BY DEF DeployInit, Target, Before, Cutover
<1>4. Leased
  BY DEF DeployInit, Leased, Failed, Before, Cutover, Killing
<1>5. GivenOnly
  BY DeploymentAssumption DEF DeployInit, GivenOnly, Procs
<1> QED
  BY <1>1, <1>2, <1>3, <1>4, <1>5 DEF DeployIInv

(* What a step of deploy() does to the invariant, one action at a time.     *)
LEMMA DeployInv == DeployIInv /\ Deploy => DeployIInv'
<1> SUFFICES ASSUME DeployIInv, Deploy PROVE DeployIInv'
  OBVIOUS
<1> USE DeploymentAssumption DEF DeployIInv, Types, Children, Target, GivenOnly, Leased, Failed,
        Procs, Before, Cutover, Killing
<1>1. CASE Verify
  <2>1. Types' BY <1>1 DEF Verify, End, LeaseRow
  <2>2. Children' BY <1>1 DEF Verify, End, LeaseRow
  <2>3. Target' BY <1>1 DEF Verify, End, LeaseRow
  <2>4. GivenOnly' BY <1>1 DEF Verify, End, LeaseRow
  <2>5. ~setup'.lapses => Leased' BY <1>1 DEF Verify, End, LeaseRow
  <2> QED BY <2>1, <2>2, <2>3, <2>4, <2>5
<1>2. CASE Launch
  <2>1. Types' BY <1>2 DEF Launch, Green
  <2>2. Children' BY <1>2 DEF Launch, Green
  <2>3. Target' BY <1>2 DEF Launch, Green
  <2>4. GivenOnly' BY <1>2 DEF Launch, Green
  <2>5. ~setup'.lapses => Leased' BY <1>2 DEF Launch, Green
  <2> QED BY <2>1, <2>2, <2>3, <2>4, <2>5
<1>3. CASE GreenReady BY <1>3 DEF GreenReady
<1>4. CASE GiveUpGreen
  <2>1. Types' BY <1>4 DEF GiveUpGreen, End, Green
  <2>2. Children' BY <1>4 DEF GiveUpGreen, End, Green
  <2>3. Target' BY <1>4 DEF GiveUpGreen, End, Green
  <2>4. GivenOnly' BY <1>4 DEF GiveUpGreen, End, Green
  <2>5. ~setup'.lapses => Leased' BY <1>4 DEF GiveUpGreen, End, Green
  <2> QED BY <2>1, <2>2, <2>3, <2>4, <2>5
<1>5. CASE Discover
  <2>1. Types' BY <1>5 DEF Discover, LeaseRow
  <2>2. Children' BY <1>5 DEF Discover, LeaseRow
  <2>3. Target' BY <1>5 DEF Discover, LeaseRow
  <2>4. GivenOnly' BY <1>5 DEF Discover, LeaseRow
  <2>5. ~setup'.lapses => Leased' BY <1>5 DEF Discover, LeaseRow
  <2> QED BY <2>1, <2>2, <2>3, <2>4, <2>5
<1>6. CASE HandOff
  <2>1. Types' BY <1>6, RowTaken DEF HandOff, GiveToGreen, LeaseRow, Green, Holds
  <2>2. Children' BY <1>6, RowTaken DEF HandOff, GiveToGreen, LeaseRow, Green, Holds
  <2>3. Target' BY <1>6, RowTaken DEF HandOff, GiveToGreen, LeaseRow, Green, Holds
  <2>4. GivenOnly' BY <1>6, RowTaken DEF HandOff, GiveToGreen, LeaseRow, Green, Holds
  <2>5. ~setup'.lapses => Leased' BY <1>6, RowTaken DEF HandOff, GiveToGreen, LeaseRow, Green, Holds
  <2> QED BY <2>1, <2>2, <2>3, <2>4, <2>5
<1>7. CASE HandOffUnanswered
  <2>1. Types' BY <1>7, RowTaken DEF HandOffUnanswered, GiveToGreen, LeaseRow, Green, Holds
  <2>2. Children' BY <1>7, RowTaken DEF HandOffUnanswered, GiveToGreen, LeaseRow, Green, Holds
  <2>3. Target' BY <1>7, RowTaken DEF HandOffUnanswered, GiveToGreen, LeaseRow, Green, Holds
  <2>4. GivenOnly' BY <1>7, RowTaken DEF HandOffUnanswered, GiveToGreen, LeaseRow, Green, Holds
  <2>5. ~setup'.lapses => Leased' BY <1>7, RowTaken DEF HandOffUnanswered, GiveToGreen, LeaseRow, Green, Holds
  <2> QED BY <2>1, <2>2, <2>3, <2>4, <2>5
<1>8. CASE Confirm BY <1>8 DEF Confirm
<1>9. CASE Unhealthy BY <1>9 DEF Unhealthy
<1>10. CASE Promote
  <2>1. Types' BY <1>10 DEF Promote, End
  <2>2. Children' BY <1>10 DEF Promote, End
  <2>3. Target' BY <1>10 DEF Promote, End
  <2>4. GivenOnly' BY <1>10 DEF Promote, End
  <2>5. ~setup'.lapses => Leased' BY <1>10 DEF Promote, End
  <2> QED BY <2>1, <2>2, <2>3, <2>4, <2>5
<1>11. CASE StopThrows
  <2>1. Types' BY <1>11 DEF StopThrows
  <2>2. Children' BY <1>11 DEF StopThrows
  <2>3. Target' BY <1>11 DEF StopThrows
  <2>4. GivenOnly' BY <1>11 DEF StopThrows
  <2>5. ~setup'.lapses => Leased' BY <1>11 DEF StopThrows
  <2> QED BY <2>1, <2>2, <2>3, <2>4, <2>5
<1>12. CASE RollBack
  <2>1. Types' BY <1>12, RowMoved DEF RollBack, HandBack, LeaseRow, Green, Holds
  <2>2. Children' BY <1>12, RowMoved DEF RollBack, HandBack, LeaseRow, Green, Holds
  <2>3. Target' BY <1>12, RowMoved DEF RollBack, HandBack, LeaseRow, Green, Holds
  <2>4. GivenOnly' BY <1>12, RowMoved DEF RollBack, HandBack, LeaseRow, Green, Holds
  <2>5. ~setup'.lapses => Leased' BY <1>12, RowMoved DEF RollBack, HandBack, LeaseRow, Green, Holds
  <2> QED BY <2>1, <2>2, <2>3, <2>4, <2>5
<1>13. CASE RollBackUnanswered
  <2>1. Types' BY <1>13, RowMoved DEF RollBackUnanswered, HandBack, LeaseRow, Green, Holds
  <2>2. Children' BY <1>13, RowMoved DEF RollBackUnanswered, HandBack, LeaseRow, Green, Holds
  <2>3. Target' BY <1>13, RowMoved DEF RollBackUnanswered, HandBack, LeaseRow, Green, Holds
  <2>4. GivenOnly' BY <1>13, RowMoved DEF RollBackUnanswered, HandBack, LeaseRow, Green, Holds
  <2>5. ~setup'.lapses => Leased' BY <1>13, RowMoved DEF RollBackUnanswered, HandBack, LeaseRow, Green, Holds
  <2> QED BY <2>1, <2>2, <2>3, <2>4, <2>5
<1>14. CASE SafeState
  <2>1. Types' BY <1>14, RowMoved DEF SafeState, HandBack, LeaseRow, Green, Holds
  <2>2. Children' BY <1>14, RowMoved DEF SafeState, HandBack, LeaseRow, Green, Holds
  <2>3. Target' BY <1>14, RowMoved DEF SafeState, HandBack, LeaseRow, Green, Holds
  <2>4. GivenOnly' BY <1>14, RowMoved DEF SafeState, HandBack, LeaseRow, Green, Holds
  <2>5. ~setup'.lapses => Leased' BY <1>14, RowMoved DEF SafeState, HandBack, LeaseRow, Green, Holds
  <2> QED BY <2>1, <2>2, <2>3, <2>4, <2>5
<1>15. CASE SafeStateFails BY <1>15 DEF SafeStateFails
<1>16. CASE Kill
  <2>1. Types' BY <1>16 DEF Kill, End, Green
  <2>2. Children' BY <1>16 DEF Kill, End, Green
  <2>3. Target' BY <1>16 DEF Kill, End, Green
  <2>4. GivenOnly' BY <1>16 DEF Kill, End, Green
  <2>5. ~setup'.lapses => Leased' BY <1>16 DEF Kill, End, Green
  <2> QED BY <2>1, <2>2, <2>3, <2>4, <2>5
<1>17. CASE Throw BY <1>17 DEF Throw
<1> QED
  BY <1>1, <1>2, <1>3, <1>4, <1>5, <1>6, <1>7, <1>8, <1>9,
     <1>10, <1>11, <1>12, <1>13, <1>14, <1>15, <1>16, <1>17
     DEF Deploy

(* A child acts on itself, and on the lease only when it was given it.      *)
LEMMA ChildInv ==
    ASSUME NEW p \in Procs, DeployIInv, Child(p) \/ Dies(p)
    PROVE  DeployIInv'
<1> USE DeploymentAssumption DEF DeployIInv, Types, Children, Target, GivenOnly, Leased, Failed,
        Procs, Before, Cutover, Killing
<1>1. CASE ComesUp(p)
  <2>1. Types' BY <1>1 DEF ComesUp
  <2>2. Children' BY <1>1 DEF ComesUp
  <2>3. Target' BY <1>1 DEF ComesUp
  <2>4. GivenOnly' BY <1>1 DEF ComesUp
  <2>5. ~setup'.lapses => Leased' BY <1>1 DEF ComesUp
  <2> QED BY <2>1, <2>2, <2>3, <2>4, <2>5
<1>2. CASE Take(p)
  <2>1. Types' BY <1>2 DEF Take, Holds, LeaseRow
  <2>2. Children' BY <1>2 DEF Take, Holds, LeaseRow
  <2>3. Target' BY <1>2 DEF Take, Holds, LeaseRow
  <2>4. GivenOnly' BY <1>2 DEF Take, Holds, LeaseRow
  <2>5. ~setup'.lapses => Leased' BY <1>2 DEF Take, Holds, LeaseRow
  <2> QED BY <2>1, <2>2, <2>3, <2>4, <2>5
<1>3. CASE Acquire(p)
  <2>1. Types' BY <1>3, RowTaken DEF Acquire, Holds
  <2>2. Children' BY <1>3, RowTaken DEF Acquire, Holds
  <2>3. Target' BY <1>3, RowTaken DEF Acquire, Holds
  <2>4. GivenOnly' BY <1>3, RowTaken DEF Acquire, Holds
  <2>5. ~setup'.lapses => Leased' BY <1>3, RowTaken DEF Acquire, Holds
  <2> QED BY <2>1, <2>2, <2>3, <2>4, <2>5
<1>4. CASE Lose(p)
  <2>1. Types' BY <1>4 DEF Lose
  <2>2. Children' BY <1>4 DEF Lose
  <2>3. Target' BY <1>4 DEF Lose
  <2>4. GivenOnly' BY <1>4 DEF Lose
  <2>5. ~setup'.lapses => Leased' BY <1>4 DEF Lose
  <2> QED BY <2>1, <2>2, <2>3, <2>4, <2>5
<1>5. CASE Lapsed(p)
  <2>1. Types' BY <1>5, RowTaken DEF Lapsed
  <2>2. Children' BY <1>5, RowTaken DEF Lapsed
  <2>3. Target' BY <1>5, RowTaken DEF Lapsed
  <2>4. GivenOnly' BY <1>5, RowTaken DEF Lapsed
  <2>5. ~setup'.lapses => Leased' BY <1>5, RowTaken DEF Lapsed
  <2> QED BY <2>1, <2>2, <2>3, <2>4, <2>5
<1>6. CASE Dies(p)
  <2>1. Types' BY <1>6 DEF Dies
  <2>2. Children' BY <1>6 DEF Dies
  <2>3. Target' BY <1>6 DEF Dies
  <2>4. GivenOnly' BY <1>6 DEF Dies
  <2>5. ~setup'.lapses => Leased' BY <1>6 DEF Dies
  <2> QED BY <2>1, <2>2, <2>3, <2>4, <2>5
<1> QED
  BY <1>1, <1>2, <1>3, <1>4, <1>5, <1>6 DEF Child

LEMMA StepInv == DeployIInv /\ [DeployNext]_deployVars => DeployIInv'
<1> SUFFICES ASSUME DeployIInv, [DeployNext]_deployVars PROVE DeployIInv'
  OBVIOUS
<1>1. CASE Deploy BY <1>1, DeployInv
<1>2. CASE Expire
  BY <1>2 DEF Expire, DeployIInv, Types, LeaseRow, Children, Target, GivenOnly, Leased, Failed
<1>3. CASE \E p \in Procs : Child(p) \/ Dies(p) BY <1>3, ChildInv
<1>4. CASE UNCHANGED deployVars
  BY <1>4 DEF deployVars, DeployIInv, Types, Children, Target, GivenOnly, Leased, Failed
<1> QED
  BY <1>1, <1>2, <1>3, <1>4 DEF DeployNext

LEMMA Inductive == DeploySpec => []DeployIInv
<1> QED
  BY InitInv, StepInv, PTL DEF DeploySpec

-----------------------------------------------------------------------------

(* However many deploys there were and however they failed, one that was    *)
(* not promoted leaves no child of its own, nor, unless a lease lapsed, a   *)
(* lease of its own (deploy.ts: rollback and safe state); except where its  *)
(* handoff took effect and threw, or the handback of its safe state threw.  *)
THEOREM LeavesNothingBehind == DeploySpec => []NothingLeftBehind
<1>1. DeployIInv => NothingLeftBehind
  BY DEF DeployIInv, Children, Leased, Failed, NothingLeftBehind, Green
<1> QED
  BY <1>1, Inductive, PTL

(* Every step that gives the lease to a process is the cutover to its own   *)
(* deploy, or the process had been given it before: waiting for a free      *)
(* lease never makes a candidate the writer.                                *)
THEOREM StealsNothing == DeploySpec => NoStealing
<1> DEFINE Given(p) ==
        lease'.holder = p /\ lease.holder # p => (pc = "handoff" /\ p = Green) \/ p \in given
<1>1. ASSUME DeployIInv, [DeployNext]_deployVars, NEW p \in Procs PROVE Given(p)
  <2> USE <1>1 DEF DeployIInv, Types, Target, GivenOnly, LeaseRow, Green, Holds, End
  <2>1. CASE HandOff \/ HandOffUnanswered BY <2>1 DEF HandOff, HandOffUnanswered, GiveToGreen
  <2>2. CASE RollBack \/ RollBackUnanswered \/ SafeState
    <3>1. lease' = lease \/ (handedOff /\ lease' = [lease EXCEPT !.holder = from])
      BY <2>2 DEF RollBack, RollBackUnanswered, SafeState, HandBack, Cutover
    <3> QED
      BY <3>1
  <2>3. CASE \E q \in Procs : Lapsed(q) \/ Acquire(q) BY <2>3 DEF Lapsed, Acquire
  <2>4. CASE Expire BY <2>4 DEF Expire
  <2>5. CASE UNCHANGED lease BY <2>5
  <2>6. CASE Verify \/ Launch \/ GreenReady \/ GiveUpGreen \/ Discover
    BY <2>6, <2>5 DEF Verify, Launch, GreenReady, GiveUpGreen, Discover
  <2>7. CASE Confirm \/ Unhealthy \/ Promote \/ StopThrows \/ SafeStateFails \/ Kill \/ Throw
    BY <2>7, <2>5 DEF Confirm, Unhealthy, Promote, StopThrows, SafeStateFails, Kill, Throw
  <2>8. CASE \E q \in Procs : ComesUp(q) \/ Take(q) \/ Lose(q) \/ Dies(q)
    BY <2>8, <2>5 DEF ComesUp, Take, Lose, Dies
  <2> QED
    BY <2>1, <2>2, <2>3, <2>4, <2>5, <2>6, <2>7, <2>8 DEF DeployNext, Deploy, Child, deployVars
<1>2. DeployIInv /\ [DeployNext]_deployVars => [\A p \in Procs : Given(p)]_deployVars
  BY <1>1
<1> QED
  BY <1>2, Inductive, PTL DEF DeploySpec, NoStealing

-----------------------------------------------------------------------------
(* The lease, for any apps, clock and tokens, when a store operation is one *)
(* step (Atomic).                                                           *)

USE LeaseAssumption

(* A token a was given: not newer than the row's, and the row's only if a   *)
(* is the holder.                                                           *)
Owns(a, t) == t # 0 => t <= row.token /\ (t = row.token => row.holder = a)

(* The tokens an app holds: the one it uses and the one of a renewal whose  *)
(* answer it has not seen.                                                  *)
Held(a) ==
    {t \in Nat :
        /\ t # 0
        /\ \/ t = leaseState[a]
           \/ beat[a].st = "renewed" /\ t = beat[a].row.token}

InLifeOp(a) == life[a] \in {"starting", "stopping"}
InBeatOp(a) == beat[a].st = "read"
InWriteOp(a) == write[a] # 0

(* At most one read-then-write is under way. *)
Exclusive ==
    /\ \A a, b \in Apps : Mid(a) /\ Mid(b) => a = b
    /\ \A a \in Apps : ~(InLifeOp(a) /\ InBeatOp(a)) /\ ~(InLifeOp(a) /\ InWriteOp(a))
                       /\ ~(InBeatOp(a) /\ InWriteOp(a))

(* What an operation read is still there when it writes. *)
Fresh ==
    \A a \in Apps :
        /\ InLifeOp(a) => seen[a].row = row /\ seen[a].at = now
        /\ InBeatOp(a) => beat[a].row = row /\ beat[a].at = now

(* Tokens are owned, and no two apps hold the same one. *)
Owned ==
    /\ \A a \in Apps : \A t \in Held(a) : Owns(a, t)
    /\ \A a \in Apps : Owns(a, write[a])
    /\ \A a, b \in Apps : \A t \in Held(a) : t \in Held(b) => a = b

(* A write that passed its check still passes it. *)
Checked == \A a \in Apps : InWriteOp(a) /\ IsActive(row, now) => write[a] >= row.token

IInv == TypeOK /\ Exclusive /\ Fresh /\ Owned /\ Checked /\ SingleWriter

LEMMA InitIInv == Init => IInv
<1> SUFFICES ASSUME Init PROVE IInv
  OBVIOUS
<1>1. TypeOK
  BY DEF Init, TypeOK, Row, NoRow, Reading, NotReading, Idle
<1>2. Exclusive /\ Fresh /\ Owned /\ Checked /\ SingleWriter
  BY DEF Init, Exclusive, Fresh, Owned, Checked, SingleWriter, Mid, InLifeOp, InBeatOp,
         InWriteOp, Held, Owns, Idle
<1> QED
  BY <1>1, <1>2 DEF IInv

(* The row an operation writes is a row. *)
LEMMA RowsAreRows ==
  ASSUME NEW a \in Apps, NEW r \in Row, NEW at \in Nat
  PROVE  /\ AcquiredRow(a, r, at) \in Row
         /\ ReleasedRow(r) \in Row
         /\ [r EXCEPT !.expiresAt = at + Ttl] \in Row
BY DEF AcquiredRow, ReleasedRow, Row

LEMMA NoRows == NoRow \in Row /\ NotReading \in Reading /\ Idle \in [st : {"idle", "read", "renewed", "refused"}, row : Row, at : Nat]
BY DEF NoRow, NotReading, Reading, Idle, Row

(* Type correctness is inductive once the rows read are the row there is.   *)
LEMMA TypePreserved ==
  ASSUME TypeOK, Fresh, [Next]_vars
  PROVE  TypeOK'
<1> USE NoRows
<1>1. CASE UNCHANGED vars
  BY <1>1 DEF TypeOK, vars, appVars
<1>2. ASSUME NEW a \in Apps, AcquireRead(a) PROVE TypeOK'
  BY <1>2 DEF TypeOK, AcquireRead, Reading
<1>3. ASSUME NEW a \in Apps, AcquireRefused(a) PROVE TypeOK'
  BY <1>3 DEF TypeOK, AcquireRefused
<1>4. ASSUME NEW a \in Apps, AcquireWrite(a) PROVE TypeOK'
  <2>1. seen[a].row \in Row /\ seen[a].at \in Nat
    BY DEF TypeOK, Reading
  <2>2. AcquiredRow(a, seen[a].row, seen[a].at) \in Row
    BY <2>1, RowsAreRows
  <2>3. /\ row' = AcquiredRow(a, seen[a].row, seen[a].at)
        /\ row'.token \in Nat /\ row'.holder = a
        /\ row'.token # 0
    <3>1. seen[a].row = row /\ seen[a].at = now
      BY <1>4 DEF AcquireWrite, Fresh, InLifeOp
    <3>2. row.token = 0 => row.holder = NoApp
      BY DEF TypeOK
    <3> QED
      BY <1>4, <2>1, <2>2, <3>1, <3>2 DEF AcquireWrite, AcquiredRow, Row, HeldByOther
  <2>4. leaseState' = [leaseState EXCEPT ![a] = row'.token]
    BY <1>4, <2>3 DEF AcquireWrite
  <2> QED
    BY <1>4, <2>2, <2>3, <2>4 DEF TypeOK, AcquireWrite, Row
<1>5. ASSUME NEW a \in Apps, BeatRead(a) PROVE TypeOK'
  BY <1>5 DEF TypeOK, BeatRead
<1>6. ASSUME NEW a \in Apps, BeatWrite(a) PROVE TypeOK'
  <2>1. beat[a].row = row /\ beat[a].at \in Nat
    BY <1>6 DEF BeatWrite, Fresh, InBeatOp, TypeOK
  <2>2. [row EXCEPT !.expiresAt = beat[a].at + Ttl] \in Row
    BY <2>1, RowsAreRows DEF TypeOK
  <2> DEFINE renewed == [row EXCEPT !.expiresAt = beat[a].at + Ttl]
             refused == [Idle EXCEPT !.st = "refused"]
  <2>3. refused \in [st : {"idle", "read", "renewed", "refused"}, row : Row, at : Nat]
    BY DEF Idle
  <2>4. [st |-> "renewed", row |-> renewed, at |-> 0]
          \in [st : {"idle", "read", "renewed", "refused"}, row : Row, at : Nat]
    BY <2>2
  <2>5. /\ \/ row' = renewed /\ beat' = [beat EXCEPT ![a] = [st |-> "renewed", row |-> renewed, at |-> 0]]
           \/ row' = row /\ beat' = [beat EXCEPT ![a] = refused]
        /\ UNCHANGED <<now, life, seen, leaseState, leaseLost, write, applied>>
    BY <1>6, <2>1, Zenon DEF BeatWrite
  <2>6. row'.token = row.token /\ row'.holder = row.holder /\ row' \in Row
    BY <2>2, <2>5 DEF TypeOK, Row
  <2>7. beat' \in [Apps -> [st : {"idle", "read", "renewed", "refused"}, row : Row, at : Nat]]
    <3> HIDE DEF renewed, refused
    <3> QED
      BY <2>3, <2>4, <2>5 DEF TypeOK
  <2> QED
    BY <2>5, <2>6, <2>7 DEF TypeOK
<1>7. ASSUME NEW a \in Apps, BeatReply(a) PROVE TypeOK'
  BY <1>7 DEF TypeOK, BeatReply, LoseLease, Row
<1>8. ASSUME NEW a \in Apps, StopLost(a) PROVE TypeOK'
  BY <1>8 DEF TypeOK, StopLost
<1>9. ASSUME NEW a \in Apps, ReleaseRead(a) PROVE TypeOK'
  BY <1>9 DEF TypeOK, ReleaseRead, Reading
<1>10. ASSUME NEW a \in Apps, ReleaseWrite(a) PROVE TypeOK'
  <2>1. seen[a].row = row
    BY <1>10 DEF ReleaseWrite, Fresh, InLifeOp
  <2>2. ReleasedRow(row) \in Row
    BY RowsAreRows DEF TypeOK
  <2> QED
    BY <1>10, <2>1, <2>2 DEF TypeOK, ReleaseWrite, ReleasedRow, Row
<1>11. ASSUME NEW a \in Apps, WriteCheck(a) PROVE TypeOK'
  <2>1. /\ \/ write' = [write EXCEPT ![a] = leaseState[a]] /\ leaseLost' = leaseLost
           \/ leaseLost' = [leaseLost EXCEPT ![a] = TRUE] /\ write' = write
        /\ UNCHANGED <<now, row, life, seen, leaseState, beat, applied>>
    BY <1>11, Zenon DEF WriteCheck, LoseLease
  <2> QED
    BY <2>1 DEF TypeOK
<1>12. ASSUME NEW a \in Apps, WriteApply(a) PROVE TypeOK'
  BY <1>12 DEF TypeOK, WriteApply, IsActive, Row
<1>13. ASSUME NEW a \in Apps, Crash(a) PROVE TypeOK'
  BY <1>13 DEF TypeOK, Crash
<1>14. ASSUME NEW a \in Apps, NEW b \in Apps, Handoff(a, b) PROVE TypeOK'
  BY <1>14 DEF TypeOK, Handoff, appVars, Row
<1>15. ASSUME Tick PROVE TypeOK'
  BY <1>15 DEF TypeOK, Tick, appVars
<1>16. ASSUME NEW a \in Apps, AcquireThrows(a) PROVE TypeOK'
  <2>1. seen[a].row = row /\ seen[a].at = now
    BY <1>16 DEF AcquireThrows, Fresh, InLifeOp
  <2>2. AcquiredRow(a, row, now) \in Row
    BY RowsAreRows DEF TypeOK
  <2>3. row' = row \/ (row' = AcquiredRow(a, row, now) /\ ~HeldByOther(a, row, now))
    BY <1>16, <2>1 DEF AcquireThrows
  <2>4. row' \in Row /\ (row'.token = 0 <=> row'.holder = NoApp)
    BY <2>2, <2>3 DEF TypeOK, AcquiredRow, Row, HeldByOther
  <2> QED
    BY <1>16, <2>4 DEF TypeOK, AcquireThrows
<1>17. ASSUME NEW a \in Apps, BeatThrows(a) PROVE TypeOK'
  <2> DEFINE refused == [Idle EXCEPT !.st = "refused"]
  <2>1. beat[a].row = row /\ beat[a].at \in Nat
    BY <1>17 DEF BeatThrows, Fresh, InBeatOp, TypeOK
  <2>2. row' = row \/ row' = [row EXCEPT !.expiresAt = beat[a].at + Ttl]
    BY <1>17, <2>1 DEF BeatThrows
  <2>3. row'.token = row.token /\ row'.holder = row.holder /\ row' \in Row
    BY <2>1, <2>2, RowsAreRows DEF TypeOK, Row
  <2>4. refused \in [st : {"idle", "read", "renewed", "refused"}, row : Row, at : Nat]
    BY DEF Idle
  <2>5. beat' = [beat EXCEPT ![a] = refused] /\ UNCHANGED <<now, life, seen, leaseState, leaseLost, write, applied>>
    BY <1>17 DEF BeatThrows
  <2>6. beat' \in [Apps -> [st : {"idle", "read", "renewed", "refused"}, row : Row, at : Nat]]
    <3> HIDE DEF refused
    <3> QED
      BY <2>4, <2>5 DEF TypeOK
  <2> QED
    BY <2>3, <2>5, <2>6 DEF TypeOK
<1>18. ASSUME NEW a \in Apps, ReleaseThrows(a) PROVE TypeOK'
  <2>1. seen[a].row = row
    BY <1>18 DEF ReleaseThrows, Fresh, InLifeOp
  <2>2. row' = row \/ row' = ReleasedRow(row)
    BY <1>18, <2>1 DEF ReleaseThrows
  <2>3. row' \in Row /\ row'.token = row.token /\ row'.holder = row.holder
    BY <2>2, RowsAreRows DEF TypeOK, ReleasedRow, Row
  <2> QED
    BY <1>18, <2>3 DEF TypeOK, ReleaseThrows
<1> QED
  BY <1>1, <1>2, <1>3, <1>4, <1>5, <1>6, <1>7, <1>8, <1>9, <1>10, <1>11, <1>12, <1>13, <1>14, <1>15,
     <1>16, <1>17, <1>18
     DEF Next, AppStep

(* How the row may change: renewed or released, or taken over with the next *)
(* token.                                                                   *)
RowStep ==
    \/ row'.token = row.token /\ row'.holder = row.holder
    \/ row'.token = row.token + 1

(* A step that gives one app at most one token, which it already held or    *)
(* which is the row's with the app as its holder, keeps tokens owned.       *)
LEMMA OwnedStep ==
  ASSUME TypeOK, TypeOK', Owned, RowStep, NEW a \in Apps, NEW num \in Nat,
         \A b \in Apps : b # a => Held(b)' = Held(b),
         Held(a)' \subseteq Held(a) \cup {num},
         num = 0 \/ num \in Held(a) \/ (num = row'.token /\ row'.holder = a),
         \A b \in Apps : write'[b] = 0 \/ write'[b] = write[b] \/ write'[b] \in Held(b)
  PROVE  Owned'
<1>1. row.token \in Nat /\ row'.token \in Nat
  BY DEF TypeOK, Row
<1>2. ASSUME NEW b \in Apps, NEW t \in Nat, Owns(b, t) PROVE Owns(b, t)'
  BY <1>1, <1>2 DEF Owns, RowStep
<1>3. ASSUME NEW b \in Apps, NEW t \in Held(b)' PROVE Owns(b, t)'
  <2>1. t \in Nat /\ t # 0
    BY <1>3 DEF Held
  <2>2. CASE t \in Held(b)
    BY <1>2, <2>1, <2>2 DEF Owned
  <2>3. CASE t \notin Held(b)
    <3>1. b = a /\ t = row'.token /\ row'.holder = a
      BY <1>3, <2>1, <2>3
    <3> QED
      BY <1>1, <3>1 DEF Owns
  <2> QED
    BY <2>2, <2>3
<1>4. ASSUME NEW b \in Apps PROVE Owns(b, write[b])'
  <2>1. PICK w \in Nat : w = write'[b]
    BY DEF TypeOK
  <2>2. w = 0 \/ Owns(b, w)
    BY <2>1 DEF Owned
  <2>3. Owns(b, w)'
    BY <1>1, <2>2 DEF Owns, RowStep
  <2> QED
    BY <2>1, <2>3 DEF Owns
<1>5. ASSUME NEW b \in Apps, NEW t \in Held(b)', t \in Held(a)', b # a PROVE FALSE
  <2>1. t \in Held(b) /\ t \in Nat /\ t # 0 /\ Owns(b, t)
    BY <1>5 DEF Held, Owned
  <2>2. t \notin Held(a)
    BY <1>5, <2>1 DEF Owned
  <2>3. t = row'.token /\ row'.holder = a
    BY <1>5, <2>1, <2>2
  <2> QED
    BY <1>1, <1>5, <2>1, <2>3 DEF Owns, RowStep
<1>6. ASSUME NEW b \in Apps, NEW c \in Apps, NEW t \in Held(b)', t \in Held(c)' PROVE b = c
  <2>1. CASE b = a \/ c = a
    BY <1>5, <1>6, <2>1
  <2>2. CASE b # a /\ c # a
    BY <1>6, <2>2 DEF Owned
  <2> QED
    BY <2>1, <2>2
<1> QED
  BY <1>3, <1>4, <1>6 DEF Owned

(* Each action keeps the rest of the invariant.  What makes it work is that  *)
(* nobody else is inside a read-then-write when the row is written.         *)
LEMMA OthersPreserved ==
  ASSUME Atomic, IInv, TypeOK', Next
  PROVE  Exclusive' /\ Fresh' /\ Checked' /\ SingleWriter'
<1> USE DEF IInv
<1>1. ASSUME NEW a \in Apps, AcquireRead(a) PROVE Exclusive' /\ Fresh' /\ Checked' /\ SingleWriter'
  BY <1>1 DEF AcquireRead, Exclusive, Fresh, Checked, SingleWriter, Mid, MayBegin, MayStep, InLifeOp, InBeatOp, InWriteOp, TypeOK
<1>2. ASSUME NEW a \in Apps, AcquireRefused(a) PROVE Exclusive' /\ Fresh' /\ Checked' /\ SingleWriter'
  BY <1>2 DEF AcquireRefused, Exclusive, Fresh, Checked, SingleWriter, Mid, MayBegin, MayStep, InLifeOp, InBeatOp, InWriteOp, TypeOK
<1>3. ASSUME NEW a \in Apps, AcquireWrite(a) PROVE Exclusive' /\ Fresh' /\ Checked' /\ SingleWriter'
  BY <1>3 DEF AcquireWrite, Exclusive, Fresh, Checked, SingleWriter, Mid, MayBegin, MayStep, InLifeOp, InBeatOp, InWriteOp, TypeOK, AcquiredRow
<1>4. ASSUME NEW a \in Apps, BeatRead(a) PROVE Exclusive' /\ Fresh' /\ Checked' /\ SingleWriter'
  BY <1>4 DEF BeatRead, Exclusive, Fresh, Checked, SingleWriter, Mid, MayBegin, MayStep, InLifeOp, InBeatOp, InWriteOp, TypeOK
<1>5. ASSUME NEW a \in Apps, BeatWrite(a) PROVE Exclusive' /\ Fresh' /\ Checked' /\ SingleWriter'
  BY <1>5 DEF BeatWrite, Exclusive, Fresh, Checked, SingleWriter, Mid, MayBegin, MayStep, InLifeOp, InBeatOp, InWriteOp, TypeOK, Idle
<1>6. ASSUME NEW a \in Apps, BeatReply(a) PROVE Exclusive' /\ Fresh' /\ Checked' /\ SingleWriter'
  BY <1>6 DEF BeatReply, Exclusive, Fresh, Checked, SingleWriter, Mid, MayBegin, MayStep, InLifeOp, InBeatOp, InWriteOp, TypeOK, LoseLease, Idle
<1>7. ASSUME NEW a \in Apps, StopLost(a) PROVE Exclusive' /\ Fresh' /\ Checked' /\ SingleWriter'
  BY <1>7 DEF StopLost, Exclusive, Fresh, Checked, SingleWriter, Mid, MayBegin, MayStep, InLifeOp, InBeatOp, InWriteOp, TypeOK
<1>8. ASSUME NEW a \in Apps, ReleaseRead(a) PROVE Exclusive' /\ Fresh' /\ Checked' /\ SingleWriter'
  BY <1>8 DEF ReleaseRead, Exclusive, Fresh, Checked, SingleWriter, Mid, MayBegin, MayStep, InLifeOp, InBeatOp, InWriteOp, TypeOK
<1>9. ASSUME NEW a \in Apps, ReleaseWrite(a) PROVE Exclusive' /\ Fresh' /\ Checked' /\ SingleWriter'
  BY <1>9 DEF ReleaseWrite, Exclusive, Fresh, Checked, SingleWriter, Mid, MayBegin, MayStep, InLifeOp, InBeatOp, InWriteOp, TypeOK, ReleasedRow
<1>10. ASSUME NEW a \in Apps, WriteCheck(a) PROVE Exclusive' /\ Fresh' /\ Checked' /\ SingleWriter'
  BY <1>10 DEF WriteCheck, Exclusive, Fresh, Checked, SingleWriter, Mid, MayBegin, MayStep, InLifeOp, InBeatOp, InWriteOp, TypeOK, LoseLease, FenceAllowed, IsActive
<1>11. ASSUME NEW a \in Apps, WriteApply(a) PROVE Exclusive' /\ Fresh' /\ Checked' /\ SingleWriter'
  <2>1. IsActive(row, now) => row.holder = a
    <3>1. IsActive(row, now) => write[a] >= row.token
      BY <1>11 DEF WriteApply, Checked, InWriteOp
    <3>2. write[a] # 0 /\ Owns(a, write[a])
      BY <1>11 DEF WriteApply, Owned
    <3>3. write[a] \in Nat /\ row.token \in Nat
      BY DEF TypeOK, Row
    <3> QED
      BY <3>1, <3>2, <3>3 DEF Owns
  <2>2. SingleWriter'
    BY <1>11, <2>1 DEF WriteApply, SingleWriter
  <2>3. Exclusive' /\ Fresh' /\ Checked'
    BY <1>11 DEF WriteApply, Exclusive, Fresh, Checked, Mid, MayStep, InLifeOp, InBeatOp,
                 InWriteOp, TypeOK, IsActive
  <2> QED
    BY <2>2, <2>3
<1>12. ASSUME NEW a \in Apps, Crash(a) PROVE Exclusive' /\ Fresh' /\ Checked' /\ SingleWriter'
  BY <1>12 DEF Crash, Exclusive, Fresh, Checked, SingleWriter, Mid, MayBegin, MayStep, InLifeOp, InBeatOp, InWriteOp, TypeOK, Idle
<1>13. ASSUME NEW a \in Apps, NEW b \in Apps, Handoff(a, b) PROVE Exclusive' /\ Fresh' /\ Checked' /\ SingleWriter'
  BY <1>13 DEF Handoff, appVars, Exclusive, Fresh, Checked, SingleWriter, Mid, MayBegin, MayStep, InLifeOp, InBeatOp, InWriteOp, TypeOK
<1>14. ASSUME Tick PROVE Exclusive' /\ Fresh' /\ Checked' /\ SingleWriter'
  BY <1>14 DEF Tick, appVars, Exclusive, Fresh, Checked, SingleWriter, Mid, MayBegin, MayStep, InLifeOp, InBeatOp, InWriteOp, TypeOK
<1>15. ASSUME NEW a \in Apps, AcquireThrows(a) PROVE Exclusive' /\ Fresh' /\ Checked' /\ SingleWriter'
  BY <1>15 DEF AcquireThrows, Exclusive, Fresh, Checked, SingleWriter, Mid, MayBegin, MayStep, InLifeOp, InBeatOp, InWriteOp, TypeOK, AcquiredRow
<1>16. ASSUME NEW a \in Apps, BeatThrows(a) PROVE Exclusive' /\ Fresh' /\ Checked' /\ SingleWriter'
  BY <1>16 DEF BeatThrows, Exclusive, Fresh, Checked, SingleWriter, Mid, MayBegin, MayStep, InLifeOp, InBeatOp, InWriteOp, TypeOK, Idle
<1>17. ASSUME NEW a \in Apps, ReleaseThrows(a) PROVE Exclusive' /\ Fresh' /\ Checked' /\ SingleWriter'
  BY <1>17 DEF ReleaseThrows, Exclusive, Fresh, Checked, SingleWriter, Mid, MayBegin, MayStep, InLifeOp, InBeatOp, InWriteOp, TypeOK, ReleasedRow
<1> QED
  BY <1>1, <1>2, <1>3, <1>4, <1>5, <1>6, <1>7, <1>8, <1>9, <1>10, <1>11, <1>12, <1>13, <1>14,
     <1>15, <1>16, <1>17
     DEF Next, AppStep

(* The row changes as RowStep says in every step: in the ones that write it *)
(* what they read is still there.                                           *)
LEMMA RowSteps ==
  ASSUME IInv, [Next]_vars
  PROVE  RowStep
<1> USE DEF IInv
<1>1. CASE UNCHANGED row
  BY <1>1 DEF RowStep
<1>2. ASSUME NEW a \in Apps, AcquireWrite(a) \/ AcquireThrows(a) PROVE RowStep
  BY <1>2 DEF AcquireWrite, AcquireThrows, AcquiredRow, HeldByOther, Fresh, InLifeOp, RowStep
<1>3. ASSUME NEW a \in Apps, BeatWrite(a) \/ BeatThrows(a) PROVE RowStep
  <2>1. \/ row' = row
        \/ row' = [row EXCEPT !.expiresAt = beat[a].at + Ttl]
    BY <1>3 DEF BeatWrite, BeatThrows, Fresh, InBeatOp
  <2> QED
    BY <2>1 DEF RowStep, TypeOK, Row
<1>4. ASSUME NEW a \in Apps, ReleaseWrite(a) \/ ReleaseThrows(a) PROVE RowStep
  <2>1. \/ row' = row
        \/ row' = [row EXCEPT !.expiresAt = 0]
    BY <1>4 DEF ReleaseWrite, ReleaseThrows, ReleasedRow, Fresh, InLifeOp
  <2> QED
    BY <2>1 DEF RowStep, TypeOK, Row
<1>5. ASSUME NEW a \in Apps, NEW b \in Apps, Handoff(a, b) PROVE RowStep
  BY <1>5 DEF Handoff, RowStep
<1>6. CASE Next /\ row' # row
  BY <1>6, <1>2, <1>3, <1>4, <1>5 DEF Next, AppStep, Tick, AcquireRead, AcquireRefused,
     BeatRead, BeatReply, StopLost, ReleaseRead, WriteCheck, WriteApply, Crash
<1> QED
  BY <1>1, <1>6 DEF vars

LEMMA OwnedPreserved ==
  ASSUME IInv, TypeOK', Next
  PROVE  Owned'
<1> USE DEF IInv
<1>0. RowStep
  BY RowSteps
<1>1. ASSUME NEW a \in Apps,
             \/ AcquireRead(a) \/ AcquireRefused(a) \/ AcquireThrows(a)
             \/ ReleaseRead(a) \/ ReleaseThrows(a)
      PROVE  Owned'
  <2>1. leaseState' = leaseState /\ beat' = beat /\ write' = write
    BY <1>1 DEF AcquireRead, AcquireRefused, AcquireThrows, ReleaseRead, ReleaseThrows
  <2>2. \A b \in Apps : Held(b)' = Held(b)
    BY <2>1 DEF Held
  <2> QED
    BY <1>0, <2>1, <2>2, OwnedStep
<1>2. ASSUME NEW a \in Apps, AcquireWrite(a) PROVE Owned'
  <2>1. leaseState' = [leaseState EXCEPT ![a] = row'.token] /\ beat' = beat /\ write' = write
        /\ row'.holder = a
    BY <1>2 DEF AcquireWrite, AcquiredRow
  <2>2. row'.token \in Nat
    BY DEF TypeOK, Row
  <2>3. \A b \in Apps : b # a => Held(b)' = Held(b)
    BY <2>1 DEF Held, TypeOK
  <2>4. Held(a)' \subseteq Held(a) \cup {row'.token}
    BY <2>1 DEF Held, TypeOK
  <2>5. PICK num \in Nat : num = row'.token
    BY <2>2
  <2> QED
    BY <1>0, <2>1, <2>3, <2>4, <2>5, OwnedStep
<1>3. ASSUME NEW a \in Apps, BeatRead(a) PROVE Owned'
  <2>1. /\ beat' = [beat EXCEPT ![a] = [st |-> "read", row |-> row, at |-> now]]
        /\ leaseState' = leaseState /\ write' = write
    BY <1>3 DEF BeatRead
  <2>2. \A b \in Apps : b # a => Held(b)' = Held(b)
    BY <2>1 DEF Held, TypeOK
  <2>3. Held(a)' \subseteq Held(a) \cup {0}
    BY <2>1 DEF Held, TypeOK
  <2> QED
    BY <1>0, <2>1, <2>2, <2>3, OwnedStep
<1>4. ASSUME NEW a \in Apps, BeatWrite(a) PROVE Owned'
  <2>1. beat[a].row = row
    BY <1>4 DEF BeatWrite, Fresh, InBeatOp
  <2>2. leaseState' = leaseState /\ write' = write
    BY <1>4 DEF BeatWrite
  <2>3. CASE /\ row.holder = a
             /\ row' = [row EXCEPT !.expiresAt = beat[a].at + Ttl]
             /\ beat' = [beat EXCEPT ![a] = [st |-> "renewed", row |-> row', at |-> 0]]
    <3>1. row'.token = row.token /\ row'.holder = a /\ row.token \in Nat
      BY <2>3 DEF TypeOK, Row
    <3>2. \A b \in Apps : b # a => Held(b)' = Held(b)
      BY <2>2, <2>3 DEF Held, TypeOK
    <3>3. Held(a)' \subseteq Held(a) \cup {row.token}
      BY <2>2, <2>3, <3>1 DEF Held, TypeOK
    <3>4. PICK num \in Nat : num = row.token
      BY <3>1
    <3> QED
      BY <1>0, <2>2, <3>1, <3>2, <3>3, <3>4, OwnedStep
  <2>4. CASE beat' = [beat EXCEPT ![a] = [Idle EXCEPT !.st = "refused"]]
    <3>1. \A b \in Apps : b # a => Held(b)' = Held(b)
      BY <2>2, <2>4 DEF Held, TypeOK
    <3>2. Held(a)' \subseteq Held(a) \cup {0}
      BY <2>2, <2>4 DEF Held, TypeOK, Idle
    <3> QED
      BY <1>0, <2>2, <3>1, <3>2, OwnedStep
  <2> QED
    BY <1>4, <2>1, <2>3, <2>4, Zenon DEF BeatWrite
<1>5. ASSUME NEW a \in Apps, BeatReply(a) PROVE Owned'
  <2>1. beat' = [beat EXCEPT ![a] = Idle] /\ write' = write
    BY <1>5 DEF BeatReply
  <2>2. \/ beat[a].st = "renewed" /\ leaseState' = [leaseState EXCEPT ![a] = beat[a].row.token]
        \/ leaseState' = leaseState
    BY <1>5 DEF BeatReply
  <2>3. \A b \in Apps : b # a => Held(b)' = Held(b)
    BY <2>1, <2>2 DEF Held, TypeOK
  <2>4. Held(a)' \subseteq Held(a) \cup {0}
    BY <2>1, <2>2 DEF Held, TypeOK, Idle
  <2> QED
    BY <1>0, <2>1, <2>3, <2>4, OwnedStep
<1>6. ASSUME NEW a \in Apps, StopLost(a) \/ ReleaseWrite(a) PROVE Owned'
  <2>1. leaseState' = [leaseState EXCEPT ![a] = 0] /\ beat' = beat /\ write' = write
    BY <1>6 DEF StopLost, ReleaseWrite
  <2>2. \A b \in Apps : b # a => Held(b)' = Held(b)
    BY <2>1 DEF Held, TypeOK
  <2>3. Held(a)' \subseteq Held(a) \cup {0}
    BY <2>1 DEF Held, TypeOK
  <2> QED
    BY <1>0, <2>1, <2>2, <2>3, OwnedStep
<1>7. ASSUME NEW a \in Apps, WriteCheck(a) PROVE Owned'
  <2>1. leaseState' = leaseState /\ beat' = beat /\ leaseState[a] # 0
    BY <1>7 DEF WriteCheck
  <2>2. write' = write \/ write' = [write EXCEPT ![a] = leaseState[a]]
    BY <1>7 DEF WriteCheck
  <2>3. \A b \in Apps : Held(b)' = Held(b)
    BY <2>1 DEF Held
  <2>4. leaseState[a] \in Held(a)
    BY <2>1 DEF Held, TypeOK
  <2>5. \A b \in Apps : write'[b] = write[b] \/ write'[b] \in Held(b)
    BY <2>2, <2>4 DEF TypeOK
  <2> QED
    BY <1>0, <2>3, <2>5, OwnedStep
<1>8. ASSUME NEW a \in Apps, WriteApply(a) PROVE Owned'
  <2>1. leaseState' = leaseState /\ beat' = beat /\ write' = [write EXCEPT ![a] = 0]
    BY <1>8 DEF WriteApply
  <2>2. \A b \in Apps : Held(b)' = Held(b)
    BY <2>1 DEF Held
  <2>3. \A b \in Apps : write'[b] = write[b] \/ write'[b] = 0
    BY <2>1 DEF TypeOK
  <2> QED
    BY <1>0, <2>2, <2>3, OwnedStep
<1>9. ASSUME NEW a \in Apps, Crash(a) PROVE Owned'
  <2>1. /\ leaseState' = [leaseState EXCEPT ![a] = 0]
        /\ beat' = [beat EXCEPT ![a] = Idle]
        /\ write' = [write EXCEPT ![a] = 0]
    BY <1>9 DEF Crash
  <2>2. \A b \in Apps : b # a => Held(b)' = Held(b)
    BY <2>1 DEF Held, TypeOK
  <2>3. Held(a)' \subseteq Held(a) \cup {0}
    BY <2>1 DEF Held, TypeOK, Idle
  <2>4. \A b \in Apps : write'[b] = write[b] \/ write'[b] = 0
    BY <2>1 DEF TypeOK
  <2> QED
    BY <1>0, <2>2, <2>3, <2>4, OwnedStep
<1>10. ASSUME NEW a \in Apps, NEW b \in Apps, Handoff(a, b) PROVE Owned'
  <2>1. leaseState' = leaseState /\ beat' = beat /\ write' = write
    BY <1>10 DEF Handoff, appVars
  <2>2. \A c \in Apps : Held(c)' = Held(c)
    BY <2>1 DEF Held
  <2> QED
    BY <1>0, <2>1, <2>2, OwnedStep
<1>12. ASSUME NEW a \in Apps, BeatThrows(a) PROVE Owned'
  <2>1. /\ beat' = [beat EXCEPT ![a] = [Idle EXCEPT !.st = "refused"]]
        /\ leaseState' = leaseState /\ write' = write
    BY <1>12 DEF BeatThrows
  <2>2. \A b \in Apps : b # a => Held(b)' = Held(b)
    BY <2>1 DEF Held, TypeOK
  <2>3. Held(a)' \subseteq Held(a) \cup {0}
    BY <2>1 DEF Held, TypeOK, Idle
  <2> QED
    BY <1>0, <2>1, <2>2, <2>3, OwnedStep
<1>11. ASSUME Tick PROVE Owned'
  <2>1. UNCHANGED <<row, leaseState, beat, write>>
    BY <1>11 DEF Tick, appVars
  <2> QED
    BY <2>1 DEF Owned, Owns, Held
<1> QED
  BY <1>1, <1>2, <1>3, <1>4, <1>5, <1>6, <1>7, <1>8, <1>9, <1>10, <1>11, <1>12 DEF Next, AppStep

LEMMA NextIInv ==
  ASSUME Atomic
  PROVE  IInv /\ [Next]_vars => IInv'
<1> SUFFICES ASSUME IInv, [Next]_vars PROVE IInv'
  OBVIOUS
<1>1. TypeOK'
  BY TypePreserved DEF IInv
<1>2. CASE Next
  BY <1>1, <1>2, OthersPreserved, OwnedPreserved DEF IInv
<1>3. CASE UNCHANGED vars
  <2> USE <1>3 DEF vars, appVars, IInv
  <2>1. Exclusive' /\ Fresh'
    BY DEF Exclusive, Fresh, Mid, InLifeOp, InBeatOp, InWriteOp
  <2>2. Owned'
    BY DEF Owned, Owns, Held
  <2>3. Checked' /\ SingleWriter'
    BY DEF Checked, SingleWriter, InWriteOp, IsActive
  <2> QED
    BY <1>1, <2>1, <2>2, <2>3
<1> QED
  BY <1>2, <1>3

(* Types and the rest of the invariant, for any apps and any clock, over    *)
(* store operations that are one step.                                      *)
THEOREM LeaseInvariant ==
  ASSUME Atomic
  PROVE  Spec => []IInv
<1>1. IInv /\ [Next]_vars => IInv'
  BY NextIInv
<1> QED
  BY <1>1, InitIInv, PTL DEF Spec

(* The lease module keeps its types; that a row with a holder has a token   *)
(* too needs atomic store operations.                                       *)
THEOREM LeaseTypeCorrect ==
  ASSUME Atomic
  PROVE  Spec => []TypeOK
<1>1. IInv => TypeOK
  BY DEF IInv
<1> QED
  BY <1>1, LeaseInvariant, PTL

(* While a lease is live only its holder's writes are applied: on a store   *)
(* whose operations are one step, in one process on better-sqlite3 or in    *)
(* memory.  The others read the token and then write.                       *)
THEOREM OnlyHolderWrites ==
  ASSUME Atomic
  PROVE  Spec => []SingleWriter
<1>1. IInv => SingleWriter
  BY DEF IInv
<1> QED
  BY <1>1, LeaseInvariant, PTL

(* A fencing token is never believed in by two apps, on the same stores: on *)
(* the others two may read one row and give out one token.                  *)
THEOREM TokensAreUnique ==
  ASSUME Atomic
  PROVE  Spec => []OneHolderPerToken
<1>1. IInv => OneHolderPerToken
  <2> SUFFICES ASSUME IInv, NEW a \in Apps, NEW b \in Apps,
                      leaseState[a] # 0, leaseState[a] = leaseState[b]
               PROVE  a = b
    BY DEF OneHolderPerToken
  <2>1. leaseState[a] \in Held(a) /\ leaseState[a] \in Held(b)
    BY DEF IInv, TypeOK, Held
  <2> QED
    BY <2>1 DEF IInv, Owned
<1> QED
  BY <1>1, LeaseInvariant, PTL

(* The token only grows, and with every change of holder, on the same       *)
(* stores.                                                                  *)
THEOREM TokensGrow ==
  ASSUME Atomic
  PROVE  Spec => TokenMonotone
<1>1. IInv /\ [Next]_vars =>
        [/\ row'.token >= row.token
         /\ row'.holder # row.holder => row'.token > row.token]_vars
  <2> SUFFICES ASSUME IInv, [Next]_vars
               PROVE  /\ row'.token >= row.token
                      /\ row'.holder # row.holder => row'.token > row.token
    OBVIOUS
  <2>1. RowStep /\ row.token \in Nat
    BY RowSteps DEF IInv, TypeOK, Row
  <2> QED
    BY <2>1 DEF RowStep
<1> QED
  BY <1>1, LeaseInvariant, PTL DEF Spec, TokenMonotone

=============================================================================
