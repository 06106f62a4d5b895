----------------------------- MODULE StoreLease -----------------------------
(***************************************************************************)
(* The store-wide single-writer lease and the apps that write under it:     *)
(* the lease row kept by a run store, PromptTrailApp's acquisition,          *)
(* heartbeat and release, and the fence every write carries                  *)
(* (packages/core/src/durable.ts, packages/store-sqlite/src/index.ts).       *)
(*                                                                         *)
(* A lease operation reads the row and then writes it, and a fenced write   *)
(* reads the active token and then writes the data.  With better-sqlite3    *)
(* both halves run in one JS tick of one process (Atomic = TRUE); several    *)
(* processes on one database interleave them (Atomic = FALSE).               *)
(***************************************************************************)
EXTENDS Integers

CONSTANTS
    Apps,       \* the processes; each is a lease holder of its own name
    NoApp,      \* no holder
    Ttl,        \* lease duration, in ticks of the store's clock
    MaxTime,    \* bound on the clock
    MaxToken,   \* bound on takeovers, see TokensLeft
    Atomic      \* whether a read-then-write of the store is one step

ASSUME LeaseAssumption ==
    /\ NoApp \notin Apps
    /\ Ttl \in Nat \ {0}
    /\ MaxTime \in Nat
    /\ MaxToken \in Nat
    /\ Atomic \in BOOLEAN

VARIABLES
    now,        \* the store's clock
    row,        \* the lease row: holder, token, expiresAt; token 0 is no row yet
    life,       \* what each app is doing: "stopped", "starting", "running", "stopping"
    seen,       \* the row an app read in an acquire or release it has not finished
    leaseState, \* app -> the token it believes it holds, 0 for undefined
    leaseLost,  \* app -> handleLeaseLost ran since the last acquisition
    beat,       \* app -> its renewal in flight
    write,      \* app -> the fence of a write that passed its check, 0 for none
    applied     \* history: who made the last data write, and the row it met

appVars == <<life, seen, leaseState, leaseLost, beat, write>>
vars == <<now, row, appVars, applied>>

Row == [holder : Apps \cup {NoApp}, token : Nat, expiresAt : Int]
NoRow == [holder |-> NoApp, token |-> 0, expiresAt |-> 0]

(* A row together with the time at which the operation that read it began.  *)
Reading == [row : Row, at : Nat]
NotReading == [row |-> NoRow, at |-> 0]
Idle == [st |-> "idle", row |-> NoRow, at |-> 0]

Init ==
    /\ now = 1
    /\ row = NoRow
    /\ life = [a \in Apps |-> "stopped"]
    /\ seen = [a \in Apps |-> NotReading]
    /\ leaseState = [a \in Apps |-> 0]
    /\ leaseLost = [a \in Apps |-> FALSE]
    /\ beat = [a \in Apps |-> Idle]
    /\ write = [a \in Apps |-> 0]
    /\ applied = [app |-> NoApp, live |-> FALSE, holder |-> NoApp]

IsActive(r, at) == r.expiresAt > at

(* a is between the two halves of a store operation. *)
Mid(a) == life[a] \in {"starting", "stopping"} \/ beat[a].st = "read" \/ write[a] # 0

(* With Atomic nobody else runs inside somebody's read-then-write. *)
MayStep(a) == Atomic => \A b \in Apps \ {a} : ~Mid(b)

(* The same app does not run between its own halves either. *)
MayBegin(a) == MayStep(a) /\ (Atomic => ~Mid(a))

TokensLeft(r) == r.token < MaxToken

-----------------------------------------------------------------------------
(* handleLeaseLost stops the heartbeat and retains the stale token.          *)
LoseLease(a) == leaseLost' = [leaseLost EXCEPT ![a] = TRUE]

(* start() calls acquire, whose first half reads the row. *)
AcquireRead(a) ==
    /\ life[a] = "stopped"
    /\ TokensLeft(row)
    /\ MayBegin(a)
    /\ life' = [life EXCEPT ![a] = "starting"]
    /\ seen' = [seen EXCEPT ![a] = [row |-> row, at |-> now]]
    /\ UNCHANGED <<now, row, leaseState, leaseLost, beat, write, applied>>

(* Variant: a takeover of an expired lease renews the row it found.          *)
TakeoverKeepsToken(a, r, at) ==
    [holder |-> a, token |-> IF r.token = 0 THEN 1 ELSE r.token, expiresAt |-> at + Ttl]

(* The row acquire writes for a: a renewal of its own live lease keeps the  *)
(* token, a takeover of a free or expired one bumps it.                     *)
AcquiredRow(a, r, at) ==
    [holder |-> a,
     token |-> IF IsActive(r, at) THEN r.token ELSE r.token + 1,
     expiresAt |-> at + Ttl]

HeldByOther(a, r, at) == IsActive(r, at) /\ r.holder # a

(* Refused: another app's lease is live, and start() throws                 *)
(* LeaseUnavailableError.  (Its one retry is a start() of its own here.)    *)
AcquireRefused(a) ==
    /\ life[a] = "starting"
    /\ MayStep(a)
    /\ HeldByOther(a, seen[a].row, seen[a].at)
    /\ life' = [life EXCEPT ![a] = "stopped"]
    /\ seen' = [seen EXCEPT ![a] = NotReading]
    /\ UNCHANGED <<now, row, leaseState, leaseLost, beat, write, applied>>

AcquireWrite(a) ==
    LET acquired == AcquiredRow(a, seen[a].row, seen[a].at)
    IN  /\ life[a] = "starting"
        /\ MayStep(a)
        /\ ~HeldByOther(a, seen[a].row, seen[a].at)
        /\ row' = acquired
        /\ leaseState' = [leaseState EXCEPT ![a] = acquired.token]
        /\ leaseLost' = [leaseLost EXCEPT ![a] = FALSE]
        /\ life' = [life EXCEPT ![a] = "running"]
        /\ seen' = [seen EXCEPT ![a] = NotReading]
        /\ UNCHANGED <<now, beat, write, applied>>

(* The store call throws, before or after it took effect, and start() fails. *)
AcquireThrows(a) ==
    /\ life[a] = "starting"
    /\ MayStep(a)
    /\ \/ UNCHANGED row
       \/ /\ ~HeldByOther(a, seen[a].row, seen[a].at)
          /\ row' = AcquiredRow(a, seen[a].row, seen[a].at)
    /\ life' = [life EXCEPT ![a] = "stopped"]
    /\ seen' = [seen EXCEPT ![a] = NotReading]
    /\ UNCHANGED <<now, leaseState, leaseLost, beat, write, applied>>

-----------------------------------------------------------------------------
(* The heartbeat interval fires and renew reads the row.  It is armed from  *)
(* the acquisition until the lease is lost or released.  One renewal is in  *)
(* flight at a time; that the next interval may pass before a slow renewal  *)
(* is answered is left out.                                                 *)
BeatRead(a) ==
    /\ life[a] = "running" /\ ~leaseLost[a] /\ leaseState[a] # 0
    /\ beat[a] = Idle
    /\ MayBegin(a)
    /\ beat' = [beat EXCEPT ![a] = [st |-> "read", row |-> row, at |-> now]]
    /\ UNCHANGED <<now, row, life, seen, leaseState, leaseLost, write, applied>>

(* renew writes the whole row it read back with a new expiry, or refuses.   *)
BeatWrite(a) ==
    LET r == beat[a].row
        renewed == [r EXCEPT !.expiresAt = beat[a].at + Ttl]
    IN  /\ beat[a].st = "read"
        /\ MayStep(a)
        /\ \/ /\ IsActive(r, beat[a].at) /\ r.holder = a
              /\ row' = renewed
              /\ beat' = [beat EXCEPT ![a] = [st |-> "renewed", row |-> renewed, at |-> 0]]
           \/ /\ ~(IsActive(r, beat[a].at) /\ r.holder = a)
              /\ UNCHANGED row
              /\ beat' = [beat EXCEPT ![a] = [Idle EXCEPT !.st = "refused"]]
        /\ UNCHANGED <<now, life, seen, leaseState, leaseLost, write, applied>>

(* renew throws, before or after it took effect: heartbeat() takes that for a *)
(* refusal, although the lease may still be live and its own.               *)
BeatThrows(a) ==
    /\ beat[a].st = "read"
    /\ MayStep(a)
    /\ \/ UNCHANGED row
       \/ /\ IsActive(beat[a].row, beat[a].at) /\ beat[a].row.holder = a
          /\ row' = [beat[a].row EXCEPT !.expiresAt = beat[a].at + Ttl]
    /\ beat' = [beat EXCEPT ![a] = [Idle EXCEPT !.st = "refused"]]
    /\ UNCHANGED <<now, life, seen, leaseState, leaseLost, write, applied>>

(* heartbeat() resumes after its await, whatever the app did meanwhile.     *)
BeatReply(a) ==
    /\ beat[a].st \in {"renewed", "refused"}
    /\ MayBegin(a)
    /\ beat' = [beat EXCEPT ![a] = Idle]
    /\ \/ /\ beat[a].st = "renewed"
          /\ leaseState' = [leaseState EXCEPT ![a] = beat[a].row.token]
          /\ UNCHANGED leaseLost
       \/ /\ beat[a].st = "refused"
          /\ LoseLease(a)
          /\ UNCHANGED leaseState
    /\ UNCHANGED <<now, row, life, seen, write, applied>>

-----------------------------------------------------------------------------
(* stop() calls releaseLease.  A lost lease is not released.                *)
StopLost(a) ==
    /\ life[a] = "running"
    /\ MayBegin(a)
    /\ leaseLost[a]
    /\ life' = [life EXCEPT ![a] = "stopped"]
    /\ leaseState' = [leaseState EXCEPT ![a] = 0]
    /\ leaseLost' = [leaseLost EXCEPT ![a] = FALSE]
    /\ UNCHANGED <<now, row, seen, beat, write, applied>>

ReleaseRead(a) ==
    /\ life[a] = "running"
    /\ MayBegin(a)
    /\ ~leaseLost[a]
    /\ life' = [life EXCEPT ![a] = "stopping"]
    /\ seen' = [seen EXCEPT ![a] = [row |-> row, at |-> now]]
    /\ UNCHANGED <<now, row, leaseState, leaseLost, beat, write, applied>>

(* Variant: release clears the row, and the token starts over.               *)
ReleaseClearsRow(r) == NoRow

(* The token is retained: only the expiry moves into the past.              *)
ReleasedRow(r) == [r EXCEPT !.expiresAt = 0]

ReleaseWrite(a) ==
    /\ life[a] = "stopping"
    /\ MayStep(a)
    /\ \/ /\ IsActive(seen[a].row, seen[a].at) /\ seen[a].row.holder = a
          /\ row' = ReleasedRow(seen[a].row)
       \/ /\ ~(IsActive(seen[a].row, seen[a].at) /\ seen[a].row.holder = a)
          /\ UNCHANGED row
    /\ life' = [life EXCEPT ![a] = "stopped"]
    /\ seen' = [seen EXCEPT ![a] = NotReading]
    /\ leaseState' = [leaseState EXCEPT ![a] = 0]
    /\ leaseLost' = [leaseLost EXCEPT ![a] = FALSE]
    /\ UNCHANGED <<now, beat, write, applied>>

(* release throws, before or after it took effect: the app keeps the token. *)
ReleaseThrows(a) ==
    /\ life[a] = "stopping"
    /\ MayStep(a)
    /\ \/ UNCHANGED row
       \/ /\ IsActive(seen[a].row, seen[a].at) /\ seen[a].row.holder = a
          /\ row' = ReleasedRow(seen[a].row)
    /\ life' = [life EXCEPT ![a] = "stopped"]
    /\ seen' = [seen EXCEPT ![a] = NotReading]
    /\ UNCHANGED <<now, leaseState, leaseLost, beat, write, applied>>

(* The process dies; its memory goes, the row stays. *)
Crash(a) ==
    /\ life[a] # "stopped"
    /\ life' = [life EXCEPT ![a] = "stopped"]
    /\ seen' = [seen EXCEPT ![a] = NotReading]
    /\ leaseState' = [leaseState EXCEPT ![a] = 0]
    /\ leaseLost' = [leaseLost EXCEPT ![a] = FALSE]
    /\ beat' = [beat EXCEPT ![a] = Idle]
    /\ write' = [write EXCEPT ![a] = 0]
    /\ UNCHANGED <<now, row, applied>>

(* The launcher hands the live lease from blue to green, and back to blue   *)
(* when green fails its health window.  (One step: it reads and writes the  *)
(* row in one store call, and only one launcher exists.)                    *)
Handoff(a, b) ==
    /\ a # b
    /\ MayStep(NoApp)
    /\ IsActive(row, now) /\ row.holder = a /\ TokensLeft(row)
    /\ row' = [holder |-> b, token |-> row.token + 1, expiresAt |-> now + Ttl]
    /\ UNCHANGED <<now, appVars, applied>>

-----------------------------------------------------------------------------
(* Variant: any fence will do while a lease is live.                         *)
AnyFenceAllowed(fence) == IsActive(row, now) => fence > 0

(* A data write of a run, in flight runs of a stopped app included: without *)
(* a lease state requireFence throws; a stale fence is rejected by          *)
(* assertFenceAllowed and tells the app that it lost the lease.             *)
FenceAllowed(fence) == IsActive(row, now) => fence >= row.token

WriteCheck(a) ==
    /\ leaseState[a] # 0
    /\ write[a] = 0
    /\ MayBegin(a)
    /\ \/ /\ FenceAllowed(leaseState[a])
          /\ write' = [write EXCEPT ![a] = leaseState[a]]
          /\ UNCHANGED leaseLost
       \/ /\ ~FenceAllowed(leaseState[a])
          /\ LoseLease(a)
          /\ UNCHANGED write
    /\ UNCHANGED <<now, row, life, seen, leaseState, beat, applied>>

WriteApply(a) ==
    /\ write[a] # 0
    /\ MayStep(a)
    /\ write' = [write EXCEPT ![a] = 0]
    /\ applied' = [app |-> a, live |-> IsActive(row, now), holder |-> row.holder]
    /\ UNCHANGED <<now, row, life, seen, leaseState, leaseLost, beat>>

Tick ==
    /\ now < MaxTime
    /\ MayStep(NoApp)
    /\ now' = now + 1
    /\ UNCHANGED <<row, appVars, applied>>

AppStep(a) ==
    \/ AcquireRead(a) \/ AcquireRefused(a) \/ AcquireWrite(a) \/ AcquireThrows(a)
    \/ BeatRead(a) \/ BeatWrite(a) \/ BeatThrows(a) \/ BeatReply(a)
    \/ StopLost(a) \/ ReleaseRead(a) \/ ReleaseWrite(a) \/ ReleaseThrows(a)
    \/ WriteCheck(a) \/ WriteApply(a)
    \/ Crash(a)

Next ==
    \/ \E a \in Apps : AppStep(a)
    \/ \E a, b \in Apps : Handoff(a, b)
    \/ Tick

Spec == Init /\ [][Next]_vars

-----------------------------------------------------------------------------

(* The shape of the state; a row with a holder has a token. *)
TypeOK ==
    /\ now \in Nat \ {0}
    /\ row \in Row
    /\ row.token = 0 <=> row.holder = NoApp
    /\ life \in [Apps -> {"stopped", "starting", "running", "stopping"}]
    /\ seen \in [Apps -> Reading]
    /\ leaseState \in [Apps -> Nat]
    /\ leaseLost \in [Apps -> BOOLEAN]
    /\ beat \in [Apps -> [st : {"idle", "read", "renewed", "refused"}, row : Row, at : Nat]]
    /\ write \in [Apps -> Nat]
    /\ applied \in [app : Apps \cup {NoApp}, live : BOOLEAN, holder : Apps \cup {NoApp}]

(* The token never goes down and a change of holder always bumps it, across *)
(* expiry, release, crash and handoff: RunStoreLeaseState calls it a        *)
(* monotonic fencing token.                                                 *)
TokenMonotone ==
    [][/\ row'.token >= row.token
       /\ row'.holder # row.holder => row'.token > row.token]_vars

(* No two apps ever believe they hold the same fencing token, although a    *)
(* crashed holder's lease is taken over and handed back and forth.          *)
OneHolderPerToken ==
    \A a, b \in Apps :
        leaseState[a] # 0 /\ leaseState[a] = leaseState[b] => a = b

(* While a lease is live, only its holder's writes reach the store: a       *)
(* paused, stopped or handed-over app's late write is rejected.             *)
SingleWriter == applied.live => applied.app = applied.holder
=============================================================================
