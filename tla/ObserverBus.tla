---------------------------- MODULE ObserverBus -----------------------------
(***************************************************************************)
(* The bus that tells observers of the events of an execution.             *)
(*                                                                         *)
(* Source: packages/core/src/execution.ts, class ObserverBus,              *)
(* createObserverDeliveryBindings, inMemoryObserverDeliveryBindingStore.   *)
(*                                                                         *)
(* Every observer has a queue, found by its key, in which the promises of  *)
(* its deliveries follow one another.  Emissions overlap, observers come   *)
(* and go, handlers fail, and a failure is reported to the other observers.*)
(* The observers, external, write what they show under the key of the      *)
(* event (checkWrite), because an execution that is repeated after a crash *)
(* emits its events again.                                                 *)
(***************************************************************************)
EXTENDS Naturals, Sequences, SequencesExt, FiniteSets

CONSTANTS
  Observers,     \* the observers
  Events,        \* the events, by their idempotency key
  Setups,        \* the circumstances that are explored
  MaxEmissions,  \* how many emissions there are
  MaxFailures,   \* how many handlers fail
  MaxChanges     \* how many observers are added or removed, or
                 \* entries expire

(***************************************************************************)
(* A setup.  named: the observers have names; change: observers are added  *)
(* and removed while the bus is used; strict: strictObservers; capacity:   *)
(* maxDeliveryBindingEntries.                                              *)
(***************************************************************************)
ASSUME ObserverAssumption ==
  /\ Setups \subseteq [named : BOOLEAN, change : BOOLEAN, strict : BOOLEAN,
                       capacity : Nat]
  /\ IsFiniteSet(Observers)
  /\ MaxEmissions \in Nat /\ MaxFailures \in Nat /\ MaxChanges \in Nat

VARIABLES
  setup,      \* the member of Setups this behaviour is about; never changes
  observers,  \* this.observers: the entries with their reference counts
  queues,     \* this.queues: the deliveries that have not ended, by key
  emissions,  \* the calls of emit
  bindings,   \* the entries of the binding store, oldest first
  written,    \* ghost: how often an observer wrote for an event
  forgotten,  \* ghost: how often an entry was pruned
  told,       \* ghost: the deliveries that ended well
  failures, changes

vars == << setup, observers, queues, emissions, bindings, written, forgotten, told,
           failures, changes >>

Pairs == Observers \X Events

(* The keys: the name, or the place among the observers.                    *)
Keys == Observers \cup 1 .. Cardinality(Observers)

Outstanding == UNION {{queues[k][i] : i \in DOMAIN queues[k]} : k \in Keys}

Init ==
  /\ setup \in Setups
  /\ observers = [i \in 1 .. Cardinality(Observers) |->
                    [observer |-> SetToSeq(Observers)[i], refs |-> 1]]
  /\ queues = [k \in Keys |-> << >>]
  /\ emissions = << >> /\ bindings = << >>
  /\ written = [p \in Pairs |-> 0] /\ forgotten = [p \in Pairs |-> 0] /\ told = {}
  /\ failures = 0 /\ changes = 0

-----------------------------------------------------------------------------
(* Registration.                                                            *)

Registered(o) == {i \in DOMAIN observers : observers[i].observer = o}

(* add, and remove, as its disposer calls it: entries are counted.           *)
Add(o) ==
  /\ setup.change /\ changes < MaxChanges /\ changes' = changes + 1
  /\ observers' = IF Registered(o) = {}
                  THEN Append(observers, [observer |-> o, refs |-> 1])
                  ELSE [i \in DOMAIN observers |->
                          IF observers[i].observer = o
                          THEN [observers[i] EXCEPT !.refs = @ + 1] ELSE observers[i]]
  /\ UNCHANGED << setup, queues, emissions, bindings, written, forgotten, told,
                  failures >>

Dispose(i) ==
  /\ setup.change /\ changes < MaxChanges /\ changes' = changes + 1
  /\ observers' = IF observers[i].refs > 1
                  THEN [observers EXCEPT ![i].refs = @ - 1]
                  ELSE RemoveAt(observers, i)
  /\ UNCHANGED << setup, queues, emissions, bindings, written, forgotten, told,
                  failures >>

-----------------------------------------------------------------------------
(* Emission.                                                                *)

KeyByPlace(i) == i

KeyOf(i) == IF setup.named THEN observers[i].observer ELSE i

Delivery(o, k, n, kind) ==
  [observer |-> o, key |-> k, emission |-> n, kind |-> kind, stage |-> "queued"]

(* enqueue, for the observers at the places of who                          *)
Enqueued(all, who, n, kind) ==
  [k \in Keys |->
     LET i == {j \in who : KeyOf(j) = k} IN
       IF i = {} THEN all[k]
       ELSE Append(all[k], Delivery(observers[CHOOSE j \in i : TRUE].observer, k, n, kind))]

(* emit: every observer is enqueued at once.                                *)
Emit(e) ==
  /\ Len(emissions) < MaxEmissions
  /\ emissions' = Append(emissions,
       [event |-> e, waits |-> Len(observers), failed |-> FALSE,
        status |-> IF observers = << >> THEN "done" ELSE "emitting"])
  /\ queues' = Enqueued(queues, DOMAIN observers, Len(emissions) + 1, "event")
  /\ UNCHANGED << setup, observers, bindings, written, forgotten, told, failures,
                  changes >>

(* The outcome of an emission when its last delivery ends.                  *)
Settled(e) ==
  IF e.waits > 0 THEN e
  ELSE [e EXCEPT !.status = IF setup.strict /\ e.failed THEN "thrown" ELSE "done"]

Popped(k) == [queues EXCEPT ![k] = Tail(@)]

(* A delivery ends well, or is a report whose failure is ignored.           *)
Ends(k) ==
  LET n == Head(queues[k]).emission IN
    /\ queues' = Popped(k)
    /\ emissions' = [emissions EXCEPT ![n] =
         Settled([emissions[n] EXCEPT !.waits = @ - 1])]

(* The variant that waits for a report to the observer that failed as well. *)
FailsForAll(k) ==
  LET d == Head(queues[k])
      others == {i \in DOMAIN observers : KeyOf(i) # d.key}
  IN  /\ queues' = Enqueued(Popped(k), others, d.emission, "failed")
      /\ emissions' = [emissions EXCEPT ![d.emission] =
           Settled([emissions[d.emission] EXCEPT !.waits = @ - 1 + Len(observers),
                                                 !.failed = TRUE])]

(* emitObserverFailed: the others are told, and the emission waits for it.  *)
Fails(k) ==
  LET d == Head(queues[k])
      others == {i \in DOMAIN observers : KeyOf(i) # d.key}
  IN  /\ queues' = Enqueued(Popped(k), others, d.emission, "failed")
      /\ emissions' = [emissions EXCEPT ![d.emission] =
           Settled([emissions[d.emission] EXCEPT !.waits = @ - 1 + Cardinality(others),
                                                 !.failed = TRUE])]

-----------------------------------------------------------------------------
(* Delivery, and the binding store.                                         *)

(* pruneObserverDeliveryBindings: the oldest entries go; the ones that have *)
(* expired are Expire.                                                      *)
Pruned(all) ==
  IF Len(all) > setup.capacity
  THEN SubSeq(all, Len(all) - setup.capacity + 1, Len(all)) ELSE all

Entry(k, e) == [key |-> k, event |-> e]

Forgotten(before, after) ==
  forgotten' = [p \in Pairs |->
    forgotten[p] + Cardinality({b \in ToSet(before) \ ToSet(after) :
                     b.event = p[2] /\ (setup.named => b.key = p[1])})]

(* The store has these entries, and prunes them.                            *)
Records(all) == bindings' = Pruned(all) /\ Forgotten(all, Pruned(all))

Running(k) == queues[k] # << >> /\ Head(queues[k]).stage = "running"

Ready(k) == queues[k] # << >> /\ Head(queues[k]).stage = "queued"

(* The variant of claim that looks for writes that were completed only.     *)
ClaimAlways(k, e) == TRUE

Claim(k, e) == ~ Contains(bindings, Entry(k, e))

Event(k) == emissions[Head(queues[k]).emission].event

(* The handler of a report.                                                 *)
HandleReport(k) ==
  /\ Ready(k) /\ Head(queues[k]).kind = "failed"
  /\ Ends(k)
  /\ UNCHANGED << setup, observers, bindings, written, forgotten, told, failures,
                  changes >>

(* The handler of an event begins: checkWrite claims the event's key, and   *)
(* does nothing when it was claimed before.                                 *)
Handle(k) ==
  /\ Ready(k) /\ Head(queues[k]).kind = "event"
  /\ IF Claim(k, Event(k))
     THEN /\ Records(Append(bindings, Entry(k, Event(k))))
          /\ queues' = [queues EXCEPT ![k][1].stage = "running"]
          /\ UNCHANGED << emissions, told >>
     ELSE /\ told' = told \cup {<< Head(queues[k]).observer, Event(k) >>}
          /\ Ends(k)
          /\ UNCHANGED << bindings, forgotten >>
  /\ UNCHANGED << setup, observers, written, failures, changes >>

(* The write succeeds and is completed.                                     *)
Write(k) ==
  /\ Running(k)
  /\ LET d == Head(queues[k])
         own == Entry(k, Event(k))
     IN  /\ written' = [written EXCEPT ![<< d.observer, Event(k) >>] = @ + 1]
         /\ told' = told \cup {<< d.observer, Event(k) >>}
         /\ Records(IF Contains(bindings, own) THEN bindings
                    ELSE Append(bindings, own))
  /\ Ends(k)
  /\ UNCHANGED << setup, observers, failures, changes >>

(* The claims without the one the failed write made.                        *)
Unclaimed(k) ==
  LET own == Entry(k, Event(k)) IN
    IF Contains(bindings, own)
    THEN RemoveAt(bindings, CHOOSE i \in DOMAIN bindings : bindings[i] = own)
    ELSE bindings

(* The write fails and gives up its claim, or the handler fails before it.  *)
HandlerFails(k) ==
  /\ failures < MaxFailures /\ failures' = failures + 1
  /\ \/ Running(k) /\ bindings' = Unclaimed(k)
     \/ Ready(k) /\ Head(queues[k]).kind = "event" /\ UNCHANGED bindings
  /\ Fails(k)
  /\ UNCHANGED << setup, observers, written, forgotten, told, changes >>

(* An entry gets older than deliveryBindingTtlMs.                           *)
Expire ==
  /\ bindings # << >> /\ ~ setup.change /\ changes < MaxChanges /\ changes' = changes + 1
  /\ bindings' = Tail(bindings) /\ Forgotten(bindings, bindings')
  /\ UNCHANGED << setup, observers, queues, emissions, written, told, failures >>

Deliver(k) == HandleReport(k) \/ Handle(k) \/ Write(k) \/ HandlerFails(k)

Next ==
  \/ \E o \in Observers : Add(o)
  \/ \E i \in DOMAIN observers : Dispose(i)
  \/ \E e \in Events : Emit(e)
  \/ \E k \in Keys : Deliver(k)
  \/ Expire

(* Handlers end.                                                            *)
Spec == Init /\ [][Next]_vars /\ \A k \in Keys : WF_vars(Deliver(k))

-----------------------------------------------------------------------------
(* The shape of the state, then the properties.                             *)
TypeOK ==
  /\ setup \in Setups
  /\ observers \in Seq([observer : Observers, refs : Nat \ {0}])
  /\ DOMAIN queues = Keys
  /\ Outstanding \subseteq
       [observer : Observers, key : Keys, emission : DOMAIN emissions,
        kind : {"event", "failed"}, stage : {"queued", "running"}]
  /\ emissions \in Seq([event : Events, waits : Nat, failed : BOOLEAN,
                        status : {"emitting", "done", "thrown"}])
  /\ bindings \in Seq([key : Keys, event : Events])
  /\ written \in [Pairs -> Nat] /\ forgotten \in [Pairs -> Nat] /\ told \subseteq Pairs

(* An event that is emitted again, before or after its first delivery ended *)
(* or failed, is written once by every observer: a second time only after   *)
(* the entry of the first was pruned, and never not at all when the         *)
(* delivery ended well (checkWrite, claim, complete, delete).               *)
WrittenOnce ==
  \A p \in Pairs : /\ written[p] <= 1 + forgotten[p]
                   /\ p \in told => written[p] > 0

(* An observer gets its events one at a time and in the order they were     *)
(* emitted, while emissions overlap and observers come and go (enqueue).    *)
InOrder ==
  \A k \in Keys : Running(k) =>
    \A d \in Outstanding :
      d.observer = Head(queues[k]).observer /\ d.kind = "event"
        => Head(queues[k]).emission <= d.emission

(* Every emission ends, with reports of failures in between, and a report   *)
(* that fails is not reported (emit, emitObserverFailed).                   *)
EmissionsEnd ==
  \A n \in 1 .. MaxEmissions :
    n \in DOMAIN emissions ~> (n \in DOMAIN emissions /\ emissions[n].status # "emitting")
=============================================================================
