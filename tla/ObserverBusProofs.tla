-------------------------- MODULE ObserverBusProofs --------------------------
(***************************************************************************)
(* Proofs about ObserverBus: an event is written once by every observer,   *)
(* and an observer gets its events in the order they were emitted.         *)
(*                                                                         *)
(* The argument has two halves.  A queue belongs to one observer, its      *)
(* deliveries of events are in the order of their emissions, and only its  *)
(* first delivery runs; that is InOrder.  For WrittenOnce there is an      *)
(* account for every key and event: what was written, and what is being    *)
(* written, is covered by the entry of the binding store and by what the   *)
(* store has forgotten.  An entry nobody is writing for was written.       *)
(***************************************************************************)
EXTENDS ObserverBus, FiniteSetTheorems, TLAPS

(* An observer keeps its key: without names the key is the place among the  *)
(* observers, which moves when an observer is removed.                      *)
KeysStay == \A s \in Setups : s.change => s.named

N == Cardinality(Observers)

Order == SetToSeq(Observers)

(* The keys that are in use, and whose they are.                            *)
UsedKeys(named) == IF named THEN Observers ELSE 1 .. N

OwnerOf(named, k) == IF named THEN k ELSE Order[k]

Owner(k) == OwnerOf(setup.named, k)

Registrations == [observer : Observers, refs : Nat \ {0}]

Deliveries == [observer : Observers, key : Keys, emission : Nat,
               kind : {"event", "failed"}, stage : {"queued", "running"}]

Emissions == [event : Events, waits : Int, failed : BOOLEAN,
              status : {"emitting", "done", "thrown"}]

Entries == [key : Keys, event : Events]

TypeInv ==
  /\ setup \in Setups /\ (setup.change => setup.named)
  /\ observers \in Seq(Registrations)
  /\ queues \in [Keys -> Seq(Deliveries)]
  /\ emissions \in Seq(Emissions)
  /\ bindings \in Seq(Entries)
  /\ written \in [Pairs -> Nat] /\ forgotten \in [Pairs -> Nat] /\ told \subseteq Pairs

(* Unnamed observers stay where they are.                                   *)
PlacesInv ==
  ~ setup.named =>
    Len(observers) = N /\ \A i \in 1 .. N : observers[i].observer = Order[i]

(* A delivery in the queue of key k.                                        *)
Proper(q, i, named, k, last) ==
  /\ k \in UsedKeys(named)
  /\ q[i].key = k /\ q[i].observer = OwnerOf(named, k)
  /\ q[i].emission \in 1 .. last
  /\ q[i].stage = "running" => i = 1 /\ q[i].kind = "event"

InTurn(q) ==
  \A i, j \in 1 .. Len(q) :
    i < j /\ q[i].kind = "event" /\ q[j].kind = "event" => q[i].emission <= q[j].emission

Good(q, named, k, last) ==
  /\ q \in Seq(Deliveries)
  /\ \A i \in 1 .. Len(q) : Proper(q, i, named, k, last)
  /\ InTurn(q)

AllGood(all, named, last) == \A k \in Keys : Good(all[k], named, k, last)

QueuesInv == AllGood(queues, setup.named, Len(emissions))

Runs(q) == q # << >> /\ Head(q).stage = "running"

(* What runs in one queue runs in the other.                                *)
GoesOn(q, next) ==
  (Runs(next) <=> Runs(q)) /\ (Runs(q) => Head(next) = Head(q))

Single(s) == \A i, j \in 1 .. Len(s) : s[i] = s[j] => i = j

(* The delivery of event e under key k runs.                                *)
Writing(k, e) == Running(k) /\ Event(k) = e

(* The store has an entry for it.                                           *)
Has(k, e) == Contains(bindings, Entry(k, e))

One(holds) == IF holds THEN 1 ELSE 0

(* What was written and is being written, against what the store knows and  *)
(* what it forgot.                                                          *)
Balanced(k, e) ==
  LET p == << Owner(k), e >> IN
    /\ written[p] + One(Writing(k, e)) <= forgotten[p] + One(Has(k, e))
    /\ Has(k, e) /\ ~ Writing(k, e) => written[p] > 0

AccountsInv ==
  /\ \A k \in UsedKeys(setup.named), e \in Events : Balanced(k, e)
  /\ \A p \in told : written[p] > 0

IInv == TypeInv /\ PlacesInv /\ QueuesInv /\ Single(bindings) /\ AccountsInv

-----------------------------------------------------------------------------
(* Keys and owners.                                                         *)

(* Every observer has one place in the order the observers begin with.      *)
LEMMA OrderIsBijection ==
  /\ N \in Nat
  /\ Order \in [1 .. N -> Observers]
  /\ \A i, j \in 1 .. N : Order[i] = Order[j] => i = j
  /\ \A o \in Observers : \E i \in 1 .. N : Order[i] = o
<1>1. IsFiniteSet(Observers)
  BY ObserverAssumption
<1>2. N \in Nat /\ ExistsBijection(1 .. N, Observers)
  BY <1>1, FS_CardinalityType DEF N
<1>3. PICK f \in Bijection(1 .. N, Observers) : TRUE
  BY <1>2 DEF ExistsBijection
<1>4. f \in [1 .. N -> Observers] /\ IsInjective(f)
  BY <1>3 DEF Bijection, Injection, IsInjective
<1>5. Order \in [1 .. N -> Observers] /\ IsInjective(Order)
  BY <1>4 DEF Order, SetToSeq, N
<1>6. Order \in Injection(1 .. N, Observers)
  BY <1>5 DEF Injection, IsInjective
<1>7. Cardinality(1 .. N) = N
  BY <1>2, FS_Interval
<1>8. Order \in Surjection(1 .. N, Observers)
  BY <1>1, <1>6, <1>7, FS_Injection DEF N
<1>9. QED
  BY <1>2, <1>5, <1>8 DEF Surjection, IsInjective

LEMMA OwnersDiffer ==
  ASSUME NEW named \in BOOLEAN
  PROVE  /\ UsedKeys(named) \subseteq Keys
         /\ \A k \in UsedKeys(named) : OwnerOf(named, k) \in Observers
         /\ \A k, j \in UsedKeys(named) : OwnerOf(named, k) = OwnerOf(named, j) => k = j
         /\ \A o \in Observers : \E k \in UsedKeys(named) : OwnerOf(named, k) = o
BY OrderIsBijection DEF UsedKeys, OwnerOf, Keys, N

-----------------------------------------------------------------------------
(* Queues.                                                                  *)

LEMMA TailElems ==
  ASSUME NEW S, NEW s \in Seq(S), s # << >>
  PROVE  /\ Tail(s) \in Seq(S) /\ Len(Tail(s)) = Len(s) - 1
         /\ \A i \in 1 .. Len(s) - 1 : Tail(s)[i] = s[i + 1]
         /\ Len(s) \in Nat \ {0}
OBVIOUS

(* A delivery that is queued at the end disturbs no order, if it is of the  *)
(* last emission or a report.                                               *)
LEMMA GoodAppend ==
  ASSUME NEW named, NEW k, NEW last \in Nat, NEW next \in Nat, last <= next,
         NEW q, Good(q, named, k, last), NEW d \in Deliveries,
         k \in UsedKeys(named), d.key = k, d.observer = OwnerOf(named, k),
         d.emission \in 1 .. next, d.stage = "queued",
         d.kind = "event" => last <= d.emission
  PROVE  /\ Good(Append(q, d), named, k, next)
         /\ Runs(Append(q, d)) <=> Runs(q)
         /\ Runs(q) => Head(Append(q, d)) = Head(q)
<1>1. q \in Seq(Deliveries)
  BY DEF Good
<1> DEFINE a == Append(q, d)
           m == Len(q)
<1>2. a \in Seq(Deliveries) /\ Len(a) = m + 1 /\ m \in Nat
      /\ a[m + 1] = d /\ \A i \in 1 .. m : a[i] = q[i]
  BY <1>1
<1>3. \A i \in 1 .. m : Proper(q, i, named, k, last)
  BY DEF Good
<1>4. InTurn(q)
  BY DEF Good
<1> HIDE DEF a
<1>5. ASSUME NEW i \in 1 .. Len(a) PROVE Proper(a, i, named, k, next)
  <2>1. CASE i = m + 1
    BY <2>1, <1>2 DEF Proper
  <2>2. CASE i \in 1 .. m
    BY <2>2, <1>2, <1>3 DEF Proper
  <2>3. QED
    BY <2>1, <2>2, <1>2
<1>6. ASSUME NEW i \in 1 .. Len(a), NEW j \in 1 .. Len(a), i < j,
             a[i].kind = "event", a[j].kind = "event"
      PROVE  a[i].emission <= a[j].emission
  <2>1. i \in 1 .. m /\ a[i] = q[i] /\ q[i].emission \in 1 .. last
    BY <1>2, <1>3, <1>6 DEF Proper
  <2>2. CASE j = m + 1
    BY <2>1, <2>2, <1>2, <1>6
  <2>3. CASE j \in 1 .. m
    BY <2>1, <2>3, <1>2, <1>4, <1>6 DEF InTurn
  <2>4. QED
    BY <2>2, <2>3, <1>2
<1>7. Good(a, named, k, next)
  BY <1>2, <1>5, <1>6 DEF Good, InTurn
<1>8. (Runs(a) <=> Runs(q)) /\ (Runs(q) => Head(a) = Head(q))
  <2>1. CASE q = << >>
    BY <2>1, <1>1, <1>2 DEF Runs
  <2>2. CASE q # << >>
    BY <2>2, <1>1, <1>2 DEF Runs
  <2>3. QED
    BY <2>1, <2>2
<1>9. QED
  BY <1>7, <1>8 DEF a

(* More emissions change nothing.                                           *)
LEMMA GoodLater ==
  ASSUME NEW named, NEW k, NEW last \in Nat, NEW next \in Nat, last <= next,
         NEW q, Good(q, named, k, last)
  PROVE  Good(q, named, k, next)
<1>1. ASSUME NEW i \in 1 .. Len(q) PROVE Proper(q, i, named, k, next)
  <2>1. Proper(q, i, named, k, last)
    BY DEF Good
  <2>2. QED
    BY <2>1 DEF Proper
<1>2. QED
  BY <1>1 DEF Good

(* When the first delivery has ended none runs.                             *)
LEMMA GoodTail ==
  ASSUME NEW named, NEW k, NEW last \in Nat, NEW q, Good(q, named, k, last), q # << >>
  PROVE  Good(Tail(q), named, k, last) /\ ~ Runs(Tail(q))
<1>1. q \in Seq(Deliveries)
  BY DEF Good
<1> DEFINE t == Tail(q)
           m == Len(q)
<1>2. t \in Seq(Deliveries) /\ Len(t) = m - 1 /\ m \in Nat \ {0}
      /\ \A i \in 1 .. m - 1 : t[i] = q[i + 1]
  BY <1>1, TailElems
<1>3. \A i \in 1 .. m : Proper(q, i, named, k, last)
  BY DEF Good
<1>4. InTurn(q)
  BY DEF Good
<1> HIDE DEF t
<1>5. ASSUME NEW i \in 1 .. Len(t)
      PROVE  Proper(t, i, named, k, last) /\ t[i].stage # "running"
  <2>1. i + 1 \in 1 .. m /\ t[i] = q[i + 1] /\ i + 1 # 1
    BY <1>2
  <2>2. Proper(q, i + 1, named, k, last)
    BY <2>1, <1>3
  <2>3. QED
    BY <2>1, <2>2 DEF Proper
<1>6. ASSUME NEW i \in 1 .. Len(t), NEW j \in 1 .. Len(t), i < j,
             t[i].kind = "event", t[j].kind = "event"
      PROVE  t[i].emission <= t[j].emission
  <2>1. i + 1 \in 1 .. m /\ j + 1 \in 1 .. m /\ i + 1 < j + 1
        /\ t[i] = q[i + 1] /\ t[j] = q[j + 1]
    BY <1>2, <1>6
  <2>2. QED
    BY <2>1, <1>4, <1>6 DEF InTurn
<1>7. Good(t, named, k, last)
  BY <1>2, <1>5, <1>6 DEF Good, InTurn
<1>8. ~ Runs(t)
  <2>1. CASE t = << >>
    BY <2>1 DEF Runs
  <2>2. CASE t # << >>
    <3>1. 1 \in 1 .. Len(t) /\ Head(t) = t[1]
      BY <2>2, <1>2
    <3>2. QED
      BY <3>1, <1>5 DEF Runs
  <2>3. QED
    BY <2>1, <2>2
<1>9. QED
  BY <1>7, <1>8 DEF t

(* The first delivery of a queue, when it is one of an event, may run.      *)
LEMMA GoodStart ==
  ASSUME NEW named, NEW k, NEW last \in Nat, NEW q, Good(q, named, k, last), q # << >>,
         Head(q).kind = "event"
  PROVE  LET r == [q EXCEPT ![1].stage = "running"] IN
           Good(r, named, k, last) /\ Runs(r) /\ Head(r).emission = Head(q).emission
<1>1. q \in Seq(Deliveries) /\ Len(q) \in Nat \ {0} /\ Head(q) = q[1] /\ 1 \in 1 .. Len(q)
  BY DEF Good
<1> DEFINE r == [q EXCEPT ![1].stage = "running"]
           h == [q[1] EXCEPT !.stage = "running"]
           m == Len(q)
<1>2. q[1] \in Deliveries
  BY <1>1
<1>3. h \in Deliveries /\ h.stage = "running" /\ h.kind = q[1].kind /\ h.key = q[1].key
      /\ h.observer = q[1].observer /\ h.emission = q[1].emission
  BY <1>2 DEF Deliveries
<1> HIDE DEF h
<1>4. r = [q EXCEPT ![1] = h]
  BY DEF h
<1>5. r \in Seq(Deliveries) /\ Len(r) = m /\ r[1] = h
      /\ \A i \in 1 .. m : i # 1 => r[i] = q[i]
  BY <1>1, <1>3, <1>4
<1> HIDE DEF r
<1>6. \A i \in 1 .. m : r[i].kind = q[i].kind /\ r[i].emission = q[i].emission
                        /\ r[i].key = q[i].key /\ r[i].observer = q[i].observer
                        /\ (i # 1 => r[i].stage = q[i].stage)
  BY <1>3, <1>5
<1>7. ASSUME NEW i \in 1 .. Len(r) PROVE Proper(r, i, named, k, last)
  <2>1. Proper(q, i, named, k, last)
    BY <1>5 DEF Good
  <2>2. q[1].kind = "event"
    BY <1>1
  <2>3. QED
    BY <2>1, <2>2, <1>5, <1>6 DEF Proper
<1>8. InTurn(r)
  BY <1>5, <1>6 DEF Good, InTurn
<1>9. Good(r, named, k, last)
  BY <1>5, <1>7, <1>8 DEF Good
<1>10. Runs(r) /\ Head(r).emission = Head(q).emission
  BY <1>1, <1>3, <1>5 DEF Runs
<1>11. QED
  BY <1>9, <1>10 DEF r

(* Some observers are enqueued: the last emission, or a report.             *)
LEMMA GoodEnqueued ==
  ASSUME TypeInv, PlacesInv, NEW last \in Nat, NEW next \in Nat, last <= next,
         NEW all, AllGood(all, setup.named, last),
         NEW who, who \subseteq DOMAIN observers, NEW n \in 1 .. next,
         NEW kind \in {"event", "failed"}, kind = "event" => last <= n,
         NEW k \in Keys
  PROVE  /\ Good(Enqueued(all, who, n, kind)[k], setup.named, k, next)
         /\ GoesOn(all[k], Enqueued(all, who, n, kind)[k])
<1> DEFINE i == {j \in who : KeyOf(j) = k}
           c == CHOOSE j \in i : TRUE
           d == Delivery(observers[c].observer, k, n, kind)
<1>1. Enqueued(all, who, n, kind)[k] = IF i = {} THEN all[k] ELSE Append(all[k], d)
  BY DEF Enqueued
<1> Good(all[k], setup.named, k, last)
  BY DEF AllGood
<1>2. CASE i = {}
  BY <1>1, <1>2, GoodLater DEF GoesOn
<1>3. CASE i # {}
  <2>1. c \in who /\ KeyOf(c) = k
    BY <1>3
  <2>2. c \in 1 .. Len(observers) /\ observers[c] \in Registrations
    BY <2>1 DEF TypeInv
  <2>3. k \in UsedKeys(setup.named) /\ observers[c].observer = OwnerOf(setup.named, k)
    <3>1. CASE setup.named
      BY <3>1, <2>1, <2>2 DEF KeyOf, UsedKeys, OwnerOf, Registrations
    <3>2. CASE ~ setup.named
      BY <3>2, <2>1, <2>2 DEF KeyOf, UsedKeys, OwnerOf, PlacesInv
    <3>3. QED
      BY <3>1, <3>2
  <2>4. d \in Deliveries /\ d.key = k /\ d.observer = OwnerOf(setup.named, k)
        /\ d.emission = n /\ d.stage = "queued" /\ d.kind = kind
    BY <2>2, <2>3 DEF Delivery, Deliveries, Registrations
  <2> HIDE DEF d
  <2>5. QED
    BY <1>1, <1>3, <2>3, <2>4, GoodAppend DEF GoesOn
<1>4. QED
  BY <1>2, <1>3

-----------------------------------------------------------------------------
(* The binding store.                                                       *)

LEMMA AppendEntry ==
  ASSUME NEW s \in Seq(Entries), Single(s), NEW b \in Entries, ~ Contains(s, b)
  PROVE  /\ Append(s, b) \in Seq(Entries) /\ Single(Append(s, b))
         /\ \A x : Contains(Append(s, b), x) <=> Contains(s, x) \/ x = b
<1> DEFINE a == Append(s, b)
           m == Len(s)
<1>1. a \in Seq(Entries) /\ Len(a) = m + 1 /\ m \in Nat
      /\ a[m + 1] = b /\ \A i \in 1 .. m : a[i] = s[i]
  OBVIOUS
<1> HIDE DEF a
<1>2. \A i \in 1 .. m : s[i] # b
  BY DEF Contains
<1>3. Single(a)
  BY <1>1, <1>2 DEF Single
<1>4. ASSUME NEW x PROVE Contains(a, x) <=> Contains(s, x) \/ x = b
  <2>1. Contains(s, x) => Contains(a, x)
    BY <1>1 DEF Contains
  <2>2. x = b => Contains(a, x)
    <3>1. m + 1 \in 1 .. Len(a)
      BY <1>1
    <3>2. QED
      BY <3>1, <1>1 DEF Contains
  <2>3. ASSUME NEW i \in 1 .. Len(a), a[i] = x PROVE Contains(s, x) \/ x = b
    BY <2>3, <1>1 DEF Contains
  <2>4. QED
    BY <2>1, <2>2, <2>3 DEF Contains
<1>5. QED
  BY <1>1, <1>3, <1>4 DEF a

(* The last entries of the store.                                           *)
LEMMA LastEntries ==
  ASSUME NEW s \in Seq(Entries), Single(s), NEW d \in 0 .. Len(s)
  PROVE  LET t == SubSeq(s, d + 1, Len(s)) IN
           /\ t \in Seq(Entries) /\ Single(t)
           /\ \A x : Contains(t, x) => Contains(s, x)
<1> DEFINE t == SubSeq(s, d + 1, Len(s))
           m == Len(s)
<1>1. m \in Nat /\ d \in Nat /\ d <= m
  OBVIOUS
<1>2. t \in Seq(Entries) /\ Len(t) = m - d /\ \A i \in 1 .. m - d : t[i] = s[d + i]
  BY <1>1
<1> HIDE DEF t
<1>3. \A i \in 1 .. Len(t) : d + i \in 1 .. m /\ t[i] = s[d + i]
  BY <1>1, <1>2
<1>4. Single(t)
  <2>1. SUFFICES ASSUME NEW i \in 1 .. Len(t), NEW j \in 1 .. Len(t), t[i] = t[j]
                 PROVE  i = j
    BY DEF Single
  <2>2. d + i = d + j
    BY <2>1, <1>3 DEF Single
  <2>3. QED
    BY <2>2, <1>1, <1>2
<1>5. \A x : Contains(t, x) => Contains(s, x)
  BY <1>3 DEF Contains
<1>6. QED
  BY <1>2, <1>4, <1>5 DEF t

(* An entry that is taken out is gone, and the others stay.                 *)
LEMMA EntryRemoved ==
  ASSUME NEW s \in Seq(Entries), Single(s), NEW i \in 1 .. Len(s)
  PROVE  /\ RemoveAt(s, i) \in Seq(Entries) /\ Single(RemoveAt(s, i))
         /\ \A x : Contains(RemoveAt(s, i), x) <=> Contains(s, x) /\ x # s[i]
<1> DEFINE t == RemoveAt(s, i)
           m == Len(s)
           a == SubSeq(s, 1, i - 1)
           c == SubSeq(s, i + 1, Len(s))
<1>1. m \in Nat \ {0} /\ i \in Nat \ {0} /\ i <= m
  OBVIOUS
<1>2. a \in Seq(Entries) /\ Len(a) = i - 1 /\ \A j \in 1 .. i - 1 : a[j] = s[j]
  BY <1>1
<1>3. c \in Seq(Entries) /\ Len(c) = m - i /\ \A j \in 1 .. m - i : c[j] = s[i + j]
  BY <1>1
<1>4. t = a \o c
  BY DEF RemoveAt
<1> HIDE DEF a, c, t
<1>5. /\ a \o c \in Seq(Entries)
      /\ Len(a \o c) = Len(a) + Len(c)
      /\ \A j \in 1 .. Len(a) + Len(c) :
           (a \o c)[j] = IF j <= Len(a) THEN a[j] ELSE c[j - Len(a)]
  <2>1. a \in Seq(Entries) /\ c \in Seq(Entries)
    BY <1>2, <1>3
  <2>2. QED
    BY <2>1
<1>6. t \in Seq(Entries) /\ Len(t) = m - 1
  BY <1>1, <1>2, <1>3, <1>4, <1>5
<1>7. \A j \in 1 .. m - 1 : t[j] = IF j < i THEN s[j] ELSE s[j + 1]
  <2>1. SUFFICES ASSUME NEW j \in 1 .. m - 1
                 PROVE  t[j] = IF j < i THEN s[j] ELSE s[j + 1]
    OBVIOUS
  <2>2. j \in 1 .. Len(a) + Len(c)
    BY <1>1, <1>2, <1>3
  <2>3. CASE j < i
    <3>1. j <= Len(a) /\ j \in 1 .. i - 1
      BY <2>3, <1>1, <1>2
    <3>2. t[j] = a[j]
      BY <2>2, <3>1, <1>4, <1>5
    <3>3. QED
      BY <3>1, <3>2, <2>3, <1>2
  <2>4. CASE ~ (j < i)
    <3>1. ~ (j <= Len(a)) /\ j - Len(a) \in 1 .. m - i /\ i + (j - Len(a)) = j + 1
      BY <2>4, <1>1, <1>2
    <3>2. t[j] = c[j - Len(a)]
      BY <2>2, <3>1, <1>4, <1>5
    <3>3. QED
      BY <3>1, <3>2, <2>4, <1>3
  <2>5. QED
    BY <2>3, <2>4
<1>8. Single(t)
  <2>1. SUFFICES ASSUME NEW j \in 1 .. Len(t), NEW l \in 1 .. Len(t), t[j] = t[l]
                 PROVE  j = l
    BY DEF Single
  <2>2. PICK jj \in 1 .. m : t[j] = s[jj] /\ jj = IF j < i THEN j ELSE j + 1
    BY <1>1, <1>6, <1>7
  <2>3. PICK ll \in 1 .. m : t[l] = s[ll] /\ ll = IF l < i THEN l ELSE l + 1
    BY <1>1, <1>6, <1>7
  <2>4. jj = ll
    BY <2>1, <2>2, <2>3 DEF Single
  <2>5. QED
    BY <2>2, <2>3, <2>4, <1>1, <1>6
<1>9. ASSUME NEW x, Contains(t, x) PROVE Contains(s, x) /\ x # s[i]
  <2>1. PICK j \in 1 .. Len(t) : t[j] = x
    BY <1>9 DEF Contains
  <2>2. PICK jj \in 1 .. m : x = s[jj] /\ jj # i
    BY <2>1, <1>1, <1>6, <1>7
  <2>3. QED
    BY <2>2 DEF Contains, Single
<1>10. ASSUME NEW x, Contains(s, x), x # s[i] PROVE Contains(t, x)
  <2>1. PICK j \in 1 .. m : s[j] = x
    BY <1>10 DEF Contains
  <2>2. CASE j < i
    <3>1. j \in 1 .. Len(t) /\ j \in 1 .. m - 1
      BY <2>2, <1>1, <1>6
    <3>2. QED
      BY <3>1, <2>1, <2>2, <1>7 DEF Contains
  <2>3. CASE ~ (j < i)
    <3>1. j - 1 \in 1 .. Len(t) /\ j - 1 \in 1 .. m - 1 /\ ~ (j - 1 < i) /\ (j - 1) + 1 = j
      BY <2>1, <2>3, <1>1, <1>6, <1>10
    <3>2. QED
      BY <3>1, <2>1, <1>7 DEF Contains
  <2>4. QED
    BY <2>2, <2>3
<1>11. QED
  BY <1>6, <1>8, <1>9, <1>10 DEF t

(* What goes from the store is counted as forgotten.                        *)
LEMMA ForgottenCounts ==
  ASSUME TypeInv, NEW all \in Seq(Entries), NEW after \in Seq(Entries), Forgotten(all, after)
  PROVE  /\ forgotten' \in [Pairs -> Nat]
         /\ \A p \in Pairs : forgotten[p] <= forgotten'[p]
         /\ \A k \in UsedKeys(setup.named), e \in Events :
              Contains(all, Entry(k, e)) /\ ~ Contains(after, Entry(k, e))
                => forgotten[<< Owner(k), e >>] + 1 <= forgotten'[<< Owner(k), e >>]
<1> DEFINE Gone(p) == {b \in ToSet(all) \ ToSet(after) :
                         b.event = p[2] /\ (setup.named => b.key = p[1])}
<1>1. forgotten' = [p \in Pairs |-> forgotten[p] + Cardinality(Gone(p))]
  BY DEF Forgotten
<1>2. IsFiniteSet(ToSet(all))
  <2>1. IsFiniteSet(1 .. Len(all))
    BY FS_Interval
  <2>2. DOMAIN all = 1 .. Len(all)
    OBVIOUS
  <2>3. ToSet(all) = {all[i] : i \in 1 .. Len(all)}
    BY <2>2 DEF ToSet
  <2> DEFINE f == [i \in 1 .. Len(all) |-> all[i]]
  <2>4. f \in Surjection(1 .. Len(all), ToSet(all))
    BY <2>3 DEF Surjection
  <2>5. QED
    BY <2>1, <2>4, FS_Surjection
<1>3. ASSUME NEW p \in Pairs
      PROVE  IsFiniteSet(Gone(p)) /\ Cardinality(Gone(p)) \in Nat
  BY <1>2, FS_Subset, FS_CardinalityType
<1> HIDE DEF Gone
<1>4. ASSUME NEW p \in Pairs, NEW b \in Gone(p) PROVE 1 <= Cardinality(Gone(p))
  <2>1. Cardinality(Gone(p)) # 0
    BY <1>3, <1>4, FS_EmptySet
  <2>2. QED
    BY <2>1, <1>3
<1>5. forgotten \in [Pairs -> Nat]
  BY DEF TypeInv
<1>6. forgotten' \in [Pairs -> Nat] /\ \A p \in Pairs : forgotten[p] <= forgotten'[p]
  BY <1>1, <1>3, <1>5
<1>7. ASSUME NEW k \in UsedKeys(setup.named), NEW e \in Events,
             Contains(all, Entry(k, e)), ~ Contains(after, Entry(k, e))
      PROVE  forgotten[<< Owner(k), e >>] + 1 <= forgotten'[<< Owner(k), e >>]
  <2> DEFINE p == << Owner(k), e >>
             b == Entry(k, e)
  <2>1. setup.named \in BOOLEAN
    BY ObserverAssumption DEF TypeInv
  <2>2. p \in Pairs /\ p[1] = Owner(k) /\ p[2] = e
    BY <2>1, OwnersDiffer DEF Pairs, Owner
  <2>3. b \in ToSet(all)
    BY <1>7 DEF Contains, ToSet
  <2>4. b \notin ToSet(after)
    BY <1>7 DEF Contains, ToSet
  <2>5. b.event = e /\ b.key = k
    BY DEF Entry
  <2>6. setup.named => k = Owner(k)
    BY DEF Owner, OwnerOf
  <2>7. b \in Gone(p)
    BY <2>2, <2>3, <2>4, <2>5, <2>6 DEF Gone
  <2> HIDE DEF p, b
  <2>8. 1 <= Cardinality(Gone(p)) /\ Cardinality(Gone(p)) \in Nat
    BY <1>3, <1>4, <2>2, <2>7
  <2>9. forgotten'[p] = forgotten[p] + Cardinality(Gone(p)) /\ forgotten[p] \in Nat
    BY <1>1, <1>5, <2>2
  <2>10. forgotten[p] + 1 <= forgotten'[p]
    BY <2>8, <2>9
  <2>11. QED
    BY <2>10 DEF p
<1>8. QED
  BY <1>6, <1>7

-----------------------------------------------------------------------------
(* Steps of the queues.                                                     *)

LEMMA HeadOf ==
  ASSUME TypeInv, QueuesInv, NEW k \in Keys, queues[k] # << >>
  PROVE  LET d == Head(queues[k]) IN
           /\ d \in Deliveries /\ d = queues[k][1]
           /\ k \in UsedKeys(setup.named) /\ d.key = k /\ d.observer = Owner(k)
           /\ d.emission \in 1 .. Len(emissions)
           /\ d.stage = "running" => d.kind = "event"
           /\ Event(k) \in Events
<1> DEFINE q == queues[k]
           d == Head(q)
<1>1. Good(q, setup.named, k, Len(emissions))
  BY DEF QueuesInv, AllGood
<1>2. q \in Seq(Deliveries) /\ Len(q) \in Nat \ {0} /\ d = q[1] /\ 1 \in 1 .. Len(q)
  BY <1>1 DEF Good
<1>3. Proper(q, 1, setup.named, k, Len(emissions))
  BY <1>1, <1>2 DEF Good
<1>4. d \in Deliveries
  BY <1>2
<1>5. d.emission \in 1 .. Len(emissions)
  BY <1>2, <1>3 DEF Proper
<1>6. emissions[d.emission] \in Emissions
  BY <1>5 DEF TypeInv
<1>7. Event(k) \in Events
  BY <1>6 DEF Event, Emissions
<1>8. QED
  BY <1>2, <1>3, <1>4, <1>5, <1>7 DEF Proper, Owner

(* No emission is about another event than before.                          *)
SameEvents ==
  /\ emissions' \in Seq(Emissions) /\ Len(emissions) <= Len(emissions')
  /\ \A n \in 1 .. Len(emissions) : emissions'[n].event = emissions[n].event

(* What runs is the same, if the queue goes on with the same delivery.      *)
LEMMA WritingStays ==
  ASSUME TypeInv, QueuesInv, SameEvents, NEW k \in Keys, NEW e,
         Runs(queues'[k]) <=> Runs(queues[k]),
         Runs(queues[k]) => Head(queues'[k]).emission = Head(queues[k]).emission
  PROVE  Writing(k, e)' <=> Writing(k, e)
<1>1. Running(k) <=> Runs(queues[k])
  BY DEF Running, Runs
<1>2. Running(k)' <=> Runs(queues'[k])
  BY DEF Running, Runs
<1>3. CASE ~ Runs(queues[k])
  BY <1>1, <1>2, <1>3 DEF Writing
<1>4. CASE Runs(queues[k])
  <2>1. Head(queues[k]).emission \in 1 .. Len(emissions)
    BY <1>4, HeadOf DEF Runs
  <2>2. Event(k)' = Event(k)
    BY <2>1, <1>4 DEF Event, SameEvents
  <2>3. QED
    BY <2>2, <1>1, <1>2, <1>4 DEF Writing
<1>5. QED
  BY <1>3, <1>4

LEMMA SettledType ==
  ASSUME NEW e \in Emissions
  PROVE  Settled(e) \in Emissions /\ Settled(e).event = e.event
<1>1. CASE e.waits > 0
  BY <1>1 DEF Settled
<1>2. CASE ~ (e.waits > 0)
  <2> DEFINE s == IF setup.strict /\ e.failed THEN "thrown" ELSE "done"
             r == [e EXCEPT !.status = s]
  <2>1. s \in {"emitting", "done", "thrown"}
    OBVIOUS
  <2> HIDE DEF s
  <2>2. r \in Emissions /\ r.event = e.event
    BY <2>1 DEF Emissions
  <2>3. Settled(e) = r
    BY <1>2 DEF Settled, s
  <2> HIDE DEF r
  <2>4. QED
    BY <2>2, <2>3
<1>3. QED
  BY <1>1, <1>2

LEMMA SettledStep ==
  ASSUME TypeInv, NEW n \in 1 .. Len(emissions), NEW e \in Emissions,
         e.event = emissions[n].event, emissions' = [emissions EXCEPT ![n] = Settled(e)]
  PROVE  SameEvents /\ Len(emissions') = Len(emissions)
<1> DEFINE s == Settled(e)
<1>1. s \in Emissions /\ s.event = emissions[n].event
  BY SettledType
<1>2. emissions \in Seq(Emissions)
  BY DEF TypeInv
<1> HIDE DEF s
<1>3. emissions' = [emissions EXCEPT ![n] = s]
  BY DEF s
<1>4. QED
  BY <1>1, <1>2, <1>3 DEF SameEvents

(* The first delivery of k ends, and others may be enqueued.                *)
LEMMA PoppedStep ==
  ASSUME IInv, NEW k \in Keys, queues[k] # << >>,
         SameEvents, Len(emissions') = Len(emissions), UNCHANGED << setup, observers >>,
         \/ queues' = Popped(k)
         \/ \E who \in SUBSET DOMAIN observers, n \in 1 .. Len(emissions) :
              queues' = Enqueued(Popped(k), who, n, "failed")
  PROVE  /\ queues' \in [Keys -> Seq(Deliveries)] /\ QueuesInv'
         /\ \A j \in Keys, e \in Events : Writing(j, e)' <=> Writing(j, e) /\ j # k
<1> DEFINE m == Len(emissions)
           b == setup.named
<1>1. TypeInv /\ PlacesInv /\ QueuesInv /\ queues \in [Keys -> Seq(Deliveries)]
      /\ m \in Nat
  BY DEF IInv, TypeInv
<1>2. Popped(k) = [queues EXCEPT ![k] = Tail(queues[k])]
  BY DEF Popped
<1>3. \A j \in Keys : Good(queues[j], b, j, m)
  BY <1>1 DEF QueuesInv, AllGood
<1>4. Good(Tail(queues[k]), b, k, m) /\ ~ Runs(Tail(queues[k]))
  BY <1>1, <1>3, GoodTail
<1>5. DOMAIN Popped(k) = Keys /\ Popped(k) = [j \in Keys |-> Popped(k)[j]]
  BY <1>1, <1>2
<1>6. \A j \in Keys : /\ Good(Popped(k)[j], b, j, m)
                      /\ j # k => Popped(k)[j] = queues[j]
                      /\ j = k => ~ Runs(Popped(k)[j])
  BY <1>1, <1>2, <1>3, <1>4
<1>7. /\ DOMAIN queues' = Keys /\ queues' = [j \in Keys |-> queues'[j]]
      /\ \A j \in Keys : Good(queues'[j], b, j, m) /\ GoesOn(Popped(k)[j], queues'[j])
  <2>1. CASE queues' = Popped(k)
    BY <2>1, <1>5, <1>6 DEF GoesOn
  <2>2. ASSUME NEW who \in SUBSET DOMAIN observers, NEW n \in 1 .. m,
               queues' = Enqueued(Popped(k), who, n, "failed")
        PROVE  <1>7!:
    <3> DEFINE all == Popped(k)
               kind == "failed"
    <3>1. m <= m /\ kind \in {"event", "failed"} /\ (kind = "event" => m <= n)
      BY <1>1
    <3>2. AllGood(all, b, m)
      BY <1>6 DEF AllGood
    <3> HIDE DEF m, all, kind
    <3>3. \A j \in Keys : /\ Good(Enqueued(all, who, n, kind)[j], b, j, m)
                          /\ GoesOn(all[j], Enqueued(all, who, n, kind)[j])
      BY <1>1, <3>1, <3>2, GoodEnqueued
    <3>4. DOMAIN queues' = Keys /\ queues' = [j \in Keys |-> queues'[j]]
      BY <2>2 DEF Enqueued
    <3>5. QED
      BY <3>3, <3>4, <2>2 DEF all, kind
  <2>3. QED
    BY <2>1, <2>2
<1>8. queues' \in [Keys -> Seq(Deliveries)]
  BY <1>7 DEF Good
<1>9. QueuesInv'
  BY <1>7 DEF QueuesInv, AllGood
<1>10. ASSUME NEW j \in Keys, NEW e \in Events
       PROVE  Writing(j, e)' <=> Writing(j, e) /\ j # k
  <2>1. CASE j # k
    <3>1. GoesOn(queues[j], queues'[j])
      BY <2>1, <1>6, <1>7
    <3>2. QED
      BY <2>1, <3>1, <1>1, WritingStays DEF GoesOn
  <2>2. CASE j = k
    <3>1. ~ Runs(queues'[j])
      BY <2>2, <1>6, <1>7 DEF GoesOn
    <3>2. QED
      BY <2>2, <3>1 DEF Writing, Running, Runs
  <2>3. QED
    BY <2>1, <2>2
<1>11. QED
  BY <1>8, <1>9, <1>10

-----------------------------------------------------------------------------
(* Steps of the store, and of the accounts.                                 *)

(* After the step the store has some of these entries, and what it lost of  *)
(* them it has forgotten.                                                   *)
StoreCovers(all) ==
  /\ bindings' \in Seq(Entries) /\ Single(bindings') /\ forgotten' \in [Pairs -> Nat]
  /\ \A k \in UsedKeys(setup.named), e \in Events :
       /\ Contains(bindings', Entry(k, e)) => Contains(all, Entry(k, e))
       /\ forgotten[<< Owner(k), e >>] + One(Contains(all, Entry(k, e)))
            <= forgotten'[<< Owner(k), e >>] + One(Contains(bindings', Entry(k, e)))

LEMMA UsedPairs ==
  ASSUME TypeInv
  PROVE  /\ setup.named \in BOOLEAN /\ UsedKeys(setup.named) \subseteq Keys
         /\ \A k \in UsedKeys(setup.named), e \in Events : << Owner(k), e >> \in Pairs
         /\ \A k \in UsedKeys(setup.named), e \in Events : Entry(k, e) \in Entries
         /\ \A k, j \in UsedKeys(setup.named), d, e \in Events :
              << Owner(k), d >> = << Owner(j), e >> => k = j /\ d = e
<1>1. setup.named \in BOOLEAN
  BY ObserverAssumption DEF TypeInv
<1>2. QED
  BY <1>1, OwnersDiffer DEF Owner, Pairs, Entry, Entries

LEMMA CountedStep ==
  ASSUME TypeInv, NEW all \in Seq(Entries), NEW after \in Seq(Entries), Single(after),
         \A x : Contains(after, x) => Contains(all, x),
         bindings' = after, Forgotten(all, after)
  PROVE  StoreCovers(all)
<1>1. forgotten \in [Pairs -> Nat] /\ forgotten' \in [Pairs -> Nat]
  BY ForgottenCounts DEF TypeInv
<1>2. ASSUME NEW k \in UsedKeys(setup.named), NEW e \in Events
      PROVE  forgotten[<< Owner(k), e >>] + One(Contains(all, Entry(k, e)))
               <= forgotten'[<< Owner(k), e >>] + One(Contains(after, Entry(k, e)))
  <2> DEFINE p == << Owner(k), e >>
             f == forgotten[p]
             g == forgotten'[p]
             a == Contains(all, Entry(k, e))
             b == Contains(after, Entry(k, e))
  <2>1. p \in Pairs
    BY UsedPairs
  <2>2. f \in Nat /\ g \in Nat
    BY <1>1, <2>1
  <2>3. f <= g /\ (a /\ ~ b => f + 1 <= g) /\ (b => a)
    BY <2>1, ForgottenCounts
  <2> HIDE DEF f, g, a, b
  <2>4. f + One(a) <= g + One(b)
    BY <2>2, <2>3 DEF One
  <2>5. QED
    BY <2>4 DEF f, g, a, b, p
<1>3. QED
  BY <1>1, <1>2 DEF StoreCovers

LEMMA RecordsStep ==
  ASSUME TypeInv, NEW all \in Seq(Entries), Single(all), Records(all)
  PROVE  StoreCovers(all)
<1>1. setup.capacity \in Nat
  BY ObserverAssumption DEF TypeInv
<1>2. /\ Pruned(all) \in Seq(Entries) /\ Single(Pruned(all))
      /\ \A x : Contains(Pruned(all), x) => Contains(all, x)
  <2>1. CASE Len(all) > setup.capacity
    <3> DEFINE d == Len(all) - setup.capacity
    <3>1. d \in 0 .. Len(all)
      BY <2>1, <1>1
    <3>2. Pruned(all) = SubSeq(all, d + 1, Len(all))
      BY <2>1 DEF Pruned
    <3> HIDE DEF d
    <3>3. QED
      BY <3>1, <3>2, LastEntries
  <2>2. CASE ~ (Len(all) > setup.capacity)
    BY <2>2 DEF Pruned
  <2>3. QED
    BY <2>1, <2>2
<1> DEFINE after == Pruned(all)
<1>3. bindings' = after /\ Forgotten(all, after)
  BY DEF Records
<1> HIDE DEF after
<1>4. QED
  BY <1>2, <1>3, CountedStep DEF after

LEMMA NothingLost ==
  ASSUME TypeInv, bindings' \in Seq(Entries), Single(bindings'), UNCHANGED forgotten
  PROVE  StoreCovers(bindings')
<1>1. forgotten \in [Pairs -> Nat]
  BY DEF TypeInv
<1>2. \A k \in UsedKeys(setup.named), e \in Events :
        forgotten[<< Owner(k), e >>] \in Nat
  BY <1>1, UsedPairs
<1>3. QED
  BY <1>1, <1>2 DEF StoreCovers, One

(* What a step writes, and begins to write, it has an entry for.            *)
LEMMA AccountsStep ==
  ASSUME IInv, UNCHANGED setup, NEW all, StoreCovers(all), written' \in [Pairs -> Nat],
         NEW k \in UsedKeys(setup.named), NEW e \in Events,
         written'[<< Owner(k), e >>] + One(Writing(k, e)') + One(Has(k, e))
           <= written[<< Owner(k), e >>] + One(Writing(k, e))
              + One(Contains(all, Entry(k, e))),
         Contains(all, Entry(k, e)) /\ ~ Writing(k, e)' => written'[<< Owner(k), e >>] > 0
  PROVE  Balanced(k, e)'
<1> DEFINE p == << Owner(k), e >>
           w == written[p]
           v == written'[p]
           f == forgotten[p]
           g == forgotten'[p]
           i == Writing(k, e)
           j == Writing(k, e)'
           h == Has(k, e)
           a == Contains(all, Entry(k, e))
           b == Contains(bindings', Entry(k, e))
<1>1. p \in Pairs /\ TypeInv
  BY UsedPairs DEF IInv
<1>2. w \in Nat /\ v \in Nat /\ f \in Nat /\ g \in Nat
  BY <1>1 DEF TypeInv, StoreCovers
<1>3. w + One(i) <= f + One(h)
  BY DEF IInv, AccountsInv, Balanced
<1>4. f + One(a) <= g + One(b) /\ (b => a)
  BY DEF StoreCovers
<1>5. v + One(j) + One(h) <= w + One(i) + One(a) /\ (a /\ ~ j => v > 0)
  OBVIOUS
<1>6. Balanced(k, e)' <=> (v + One(j) <= g + One(b) /\ (b /\ ~ j => v > 0))
  BY DEF Balanced, Owner, OwnerOf, Has, One, Entry
<1> HIDE DEF p, w, v, f, g, i, j, h, a, b
<1>7. v + One(j) <= g + One(b)
  BY <1>2, <1>3, <1>4, <1>5 DEF One
<1>8. QED
  BY <1>4, <1>5, <1>6, <1>7

(* A step that neither writes nor begins to write, and loses no entry.      *)
LEMMA AccountsStay ==
  ASSUME IInv, UNCHANGED << setup, written, told >>, StoreCovers(bindings),
         \A k \in UsedKeys(setup.named), e \in Events : Writing(k, e)' <=> Writing(k, e)
  PROVE  AccountsInv'
<1>1. TypeInv /\ AccountsInv
  BY DEF IInv
<1>2. written \in [Pairs -> Nat]
  BY <1>1 DEF TypeInv
<1>3. ASSUME NEW k \in UsedKeys(setup.named), NEW e \in Events
      PROVE  Balanced(k, e)'
  <2> DEFINE w == written[<< Owner(k), e >>]
  <2>1. w \in Nat
    BY <1>1, <1>2, UsedPairs
  <2>2. Has(k, e) /\ ~ Writing(k, e) => w > 0
    BY <1>1 DEF AccountsInv, Balanced
  <2>3. Has(k, e) <=> Contains(bindings, Entry(k, e))
    BY DEF Has
  <2>4. written' = written
    OBVIOUS
  <2>5. written'[<< Owner(k), e >>] + One(Writing(k, e)') + One(Has(k, e))
          <= written[<< Owner(k), e >>] + One(Writing(k, e))
             + One(Contains(bindings, Entry(k, e)))
    BY <2>1, <2>3, <2>4 DEF One
  <2>6. QED
    BY <1>2, <2>2, <2>3, <2>4, <2>5, AccountsStep
<1>4. QED
  BY <1>1, <1>3 DEF AccountsInv

-----------------------------------------------------------------------------
(* Every step keeps the invariant.                                          *)

LEMMA InitInv == KeysStay /\ Init => IInv
<1> SUFFICES ASSUME KeysStay, Init PROVE IInv
  OBVIOUS
<1> USE DEF Init
<1>1. N \in Nat /\ Order \in [1 .. N -> Observers] /\ N = Cardinality(Observers)
  BY OrderIsBijection DEF N
<1>2. observers = [i \in 1 .. N |-> [observer |-> Order[i], refs |-> 1]]
  BY DEF N, Order
<1>3. \A i \in 1 .. N : [observer |-> Order[i], refs |-> 1] \in Registrations
  BY <1>1 DEF Registrations
<1>4. observers \in Seq(Registrations) /\ Len(observers) = N
  BY <1>1, <1>2, <1>3
<1>5. setup.named \in BOOLEAN
  BY ObserverAssumption
<1>6. TypeInv
  <2>1. queues \in [Keys -> Seq(Deliveries)]
    OBVIOUS
  <2>2. emissions \in Seq(Emissions) /\ bindings \in Seq(Entries)
    OBVIOUS
  <2>3. written \in [Pairs -> Nat] /\ forgotten \in [Pairs -> Nat] /\ told \subseteq Pairs
    OBVIOUS
  <2>4. QED
    BY <1>4, <2>1, <2>2, <2>3 DEF TypeInv, KeysStay
<1>7. PlacesInv
  BY <1>1, <1>2, <1>4 DEF PlacesInv
<1>8. QueuesInv
  <2>1. \A k \in Keys : queues[k] = << >>
    OBVIOUS
  <2>2. ASSUME NEW named, NEW k, NEW n PROVE Good(<< >>, named, k, n)
    BY DEF Good, InTurn
  <2>3. QED
    BY <2>1, <2>2 DEF QueuesInv, AllGood
<1>9. Single(bindings)
  BY DEF Single
<1>10. AccountsInv
  <2>1. ASSUME NEW k \in UsedKeys(setup.named), NEW e \in Events PROVE Balanced(k, e)
    <3>1. << Owner(k), e >> \in Pairs /\ k \in Keys
      BY <1>6, UsedPairs
    <3>2. ~ Writing(k, e) /\ ~ Has(k, e)
      BY <3>1 DEF Writing, Running, Has, Contains
    <3>3. written[<< Owner(k), e >>] = 0 /\ forgotten[<< Owner(k), e >>] = 0
      BY <3>1
    <3>4. QED
      BY <3>2, <3>3 DEF Balanced, One
  <2>2. QED
    BY <2>1 DEF AccountsInv
<1>11. QED
  BY <1>6, <1>7, <1>8, <1>9, <1>10 DEF IInv

(* Observers come and go only when they have names.                         *)
LEMMA RegistrationInv ==
  ASSUME IInv, \/ \E o \in Observers : Add(o)
               \/ \E i \in DOMAIN observers : Dispose(i)
  PROVE  IInv'
<1>1. TypeInv /\ PlacesInv /\ QueuesInv /\ Single(bindings) /\ AccountsInv
  BY DEF IInv
<1>2. UNCHANGED << setup, queues, emissions, bindings, written, forgotten, told >>
      /\ setup.named
  BY <1>1 DEF Add, Dispose, TypeInv
<1>3. observers' \in Seq(Registrations)
  <2>1. observers \in Seq(Registrations)
    BY <1>1 DEF TypeInv
  <2>2. ASSUME NEW o \in Observers, Add(o) PROVE observers' \in Seq(Registrations)
    <3>1. CASE Registered(o) = {}
      <4>1. [observer |-> o, refs |-> 1] \in Registrations
        BY DEF Registrations
      <4>2. QED
        BY <2>1, <2>2, <3>1, <4>1 DEF Add
    <3>2. CASE Registered(o) # {}
      <4> DEFINE f == [i \in 1 .. Len(observers) |->
                         IF observers[i].observer = o
                         THEN [observers[i] EXCEPT !.refs = @ + 1] ELSE observers[i]]
      <4> HIDE DEF f
      <4>1. observers' = f
        <5>1. DOMAIN observers = 1 .. Len(observers)
          BY <2>1
        <5>2. observers' = [i \in DOMAIN observers |->
                             IF observers[i].observer = o
                             THEN [observers[i] EXCEPT !.refs = @ + 1] ELSE observers[i]]
          BY <2>2, <3>2 DEF Add
        <5>3. QED
          BY <5>1, <5>2 DEF f
      <4> USE DEF f
      <4>2. \A i \in 1 .. Len(observers) : f[i] \in Registrations
        <5>1. SUFFICES ASSUME NEW i \in 1 .. Len(observers) PROVE f[i] \in Registrations
          OBVIOUS
        <5>2. observers[i] \in Registrations
          BY <2>1
        <5>3. [observers[i] EXCEPT !.refs = @ + 1] \in Registrations
          BY <5>2 DEF Registrations
        <5>4. QED
          BY <5>2, <5>3
      <4>3. f \in Seq(Registrations)
        <5>1. Len(observers) \in Nat
          BY <2>1
        <5>2. QED
          BY <4>2, <5>1
      <4>4. QED
        BY <4>1, <4>3
    <3>3. QED
      BY <3>1, <3>2
  <2>3. ASSUME NEW i \in DOMAIN observers, Dispose(i) PROVE observers' \in Seq(Registrations)
    <3>1. i \in 1 .. Len(observers) /\ observers[i] \in Registrations /\ Len(observers) \in Nat
      BY <2>1
    <3>2. CASE observers[i].refs > 1
      <4> DEFINE r == [observers[i] EXCEPT !.refs = @ - 1]
      <4>1. r \in Registrations
        BY <3>1, <3>2 DEF Registrations
      <4>2. observers' = [observers EXCEPT ![i] = r]
        BY <2>3, <3>2 DEF Dispose
      <4> HIDE DEF r
      <4>3. QED
        BY <2>1, <3>1, <4>1, <4>2
    <3>3. CASE ~ (observers[i].refs > 1)
      <4>1. observers' = SubSeq(observers, 1, i - 1) \o SubSeq(observers, i + 1, Len(observers))
        BY <2>3, <3>3 DEF Dispose, RemoveAt
      <4>2. /\ SubSeq(observers, 1, i - 1) \in Seq(Registrations)
            /\ SubSeq(observers, i + 1, Len(observers)) \in Seq(Registrations)
        BY <2>1, <3>1
      <4>3. QED
        BY <4>1, <4>2
    <3>4. QED
      BY <3>2, <3>3
  <2>4. QED
    BY <2>2, <2>3
<1>4. TypeInv'
  BY <1>1, <1>2, <1>3 DEF TypeInv
<1>5. PlacesInv' /\ QueuesInv' /\ Single(bindings)'
  BY <1>1, <1>2 DEF PlacesInv, QueuesInv, Single
<1>6. AccountsInv'
  BY <1>1, <1>2 DEF AccountsInv, Balanced, Owner, Writing, Running, Event, Has
<1>7. QED
  BY <1>4, <1>5, <1>6 DEF IInv

LEMMA EmitInv ==
  ASSUME IInv, NEW e \in Events, Emit(e)
  PROVE  IInv'
<1> DEFINE m == Len(emissions)
           r == [event |-> e, waits |-> Len(observers), failed |-> FALSE,
                 status |-> IF observers = << >> THEN "done" ELSE "emitting"]
           who == DOMAIN observers
<1>1. TypeInv /\ PlacesInv /\ QueuesInv /\ Single(bindings) /\ AccountsInv
  BY DEF IInv
<1>2. UNCHANGED << setup, observers, bindings, written, forgotten, told >>
      /\ emissions' = Append(emissions, r)
      /\ queues' = Enqueued(queues, who, m + 1, "event")
  BY DEF Emit
<1>3. r \in Emissions
  BY <1>1 DEF Emissions, TypeInv
<1>4. emissions \in Seq(Emissions)
  BY <1>1 DEF TypeInv
<1> HIDE DEF r
<1>5. SameEvents /\ Len(emissions') = m + 1 /\ m \in Nat
  BY <1>2, <1>3, <1>4 DEF SameEvents
<1>6. \A k \in Keys : Good(queues'[k], setup.named, k, m + 1) /\ GoesOn(queues[k], queues'[k])
  <2> DEFINE next == m + 1
             kind == "event"
  <2>1. m \in Nat /\ next \in Nat /\ m <= next /\ next \in 1 .. next
        /\ kind \in {"event", "failed"} /\ (kind = "event" => m <= next)
    BY <1>5
  <2>2. AllGood(queues, setup.named, m)
    BY <1>1 DEF QueuesInv
  <2> HIDE DEF m, next, kind, who
  <2>3. \A k \in Keys : /\ Good(Enqueued(queues, who, next, kind)[k], setup.named, k, next)
                        /\ GoesOn(queues[k], Enqueued(queues, who, next, kind)[k])
    BY <1>1, <2>1, <2>2, GoodEnqueued DEF who
  <2>4. QED
    BY <1>2, <2>3 DEF next, kind
<1>7. queues' \in [Keys -> Seq(Deliveries)]
  BY <1>2, <1>6 DEF Enqueued, Good
<1>8. QueuesInv'
  BY <1>2, <1>5, <1>6 DEF QueuesInv, AllGood
<1>9. TypeInv'
  BY <1>1, <1>2, <1>5, <1>7 DEF TypeInv, SameEvents
<1>10. PlacesInv' /\ Single(bindings)'
  BY <1>1, <1>2 DEF PlacesInv, Single
<1>11. \A k \in UsedKeys(setup.named), d \in Events : Writing(k, d)' <=> Writing(k, d)
  BY <1>1, <1>5, <1>6, UsedPairs, WritingStays DEF GoesOn
<1>12. StoreCovers(bindings)
  BY <1>1, <1>2, NothingLost DEF TypeInv
<1>13. AccountsInv'
  BY <1>2, <1>11, <1>12, AccountsStay
<1>14. QED
  BY <1>8, <1>9, <1>10, <1>13 DEF IInv

LEMMA ExpireInv == ASSUME IInv, Expire PROVE IInv'
<1>1. TypeInv /\ PlacesInv /\ QueuesInv /\ Single(bindings) /\ AccountsInv
  BY DEF IInv
<1>2. UNCHANGED << setup, observers, queues, emissions, written, told >>
      /\ bindings # << >> /\ bindings' = Tail(bindings) /\ Forgotten(bindings, bindings')
  BY DEF Expire
<1>3. bindings \in Seq(Entries)
  BY <1>1 DEF TypeInv
<1>4. /\ Tail(bindings) \in Seq(Entries) /\ Single(Tail(bindings))
      /\ \A x : Contains(Tail(bindings), x) => Contains(bindings, x)
  <2>1. PICK d \in 0 .. Len(bindings) : Tail(bindings) = SubSeq(bindings, d + 1, Len(bindings))
    <3>1. 1 \in 0 .. Len(bindings) /\ Tail(bindings) = SubSeq(bindings, 1 + 1, Len(bindings))
      BY <1>2, <1>3
    <3>2. QED
      BY <3>1
  <2> DEFINE t == SubSeq(bindings, d + 1, Len(bindings))
  <2>2. t \in Seq(Entries) /\ Single(t) /\ \A x : Contains(t, x) => Contains(bindings, x)
    BY <1>1, <1>3, LastEntries
  <2>3. Tail(bindings) = t
    BY <2>1
  <2> HIDE DEF t
  <2>4. QED
    BY <2>2, <2>3
<1> DEFINE after == Tail(bindings)
<1>5. bindings' = after /\ Forgotten(bindings, after)
  BY <1>2
<1> HIDE DEF after
<1>6. StoreCovers(bindings)
  BY <1>1, <1>3, <1>4, <1>5, CountedStep DEF after
<1>7. TypeInv'
  BY <1>1, <1>2, <1>6 DEF TypeInv, StoreCovers
<1>8. PlacesInv' /\ QueuesInv' /\ Single(bindings')
  BY <1>1, <1>2, <1>6 DEF PlacesInv, QueuesInv, StoreCovers
<1>9. \A k \in UsedKeys(setup.named), e \in Events : Writing(k, e)' <=> Writing(k, e)
  BY <1>2 DEF Writing, Running, Event
<1>10. AccountsInv'
  BY <1>2, <1>6, <1>9, AccountsStay
<1>11. QED
  BY <1>7, <1>8, <1>10 DEF IInv

(* A delivery that ends well or is a report.                                *)
LEMMA EndsStep ==
  ASSUME IInv, NEW k \in Keys, queues[k] # << >>, Ends(k), UNCHANGED << setup, observers >>
  PROVE  /\ SameEvents /\ queues' \in [Keys -> Seq(Deliveries)] /\ QueuesInv'
         /\ \A j \in Keys, e \in Events : Writing(j, e)' <=> Writing(j, e) /\ j # k
<1> DEFINE d == Head(queues[k])
           n == d.emission
           old == emissions[n]
           new == [old EXCEPT !.waits = @ - 1]
<1>1. TypeInv /\ QueuesInv
  BY DEF IInv
<1>2. n \in 1 .. Len(emissions)
  BY <1>1, HeadOf
<1>3. old \in Emissions /\ emissions \in Seq(Emissions)
  BY <1>1, <1>2 DEF TypeInv
<1>4. queues' = Popped(k) /\ emissions' = [emissions EXCEPT ![n] = Settled(new)]
  BY DEF Ends
<1> HIDE DEF n, old
<1>5. new \in Emissions /\ new.event = old.event
  BY <1>3 DEF Emissions
<1> HIDE DEF new
<1>6. SameEvents /\ Len(emissions') = Len(emissions)
  BY <1>1, <1>2, <1>4, <1>5, SettledStep DEF old
<1>7. QED
  BY <1>2, <1>4, <1>6, PoppedStep

(* One that fails: the others are told.                                     *)
LEMMA FailsStep ==
  ASSUME IInv, NEW k \in Keys, queues[k] # << >>, Fails(k), UNCHANGED << setup, observers >>
  PROVE  /\ SameEvents /\ queues' \in [Keys -> Seq(Deliveries)] /\ QueuesInv'
         /\ \A j \in Keys, e \in Events : Writing(j, e)' <=> Writing(j, e) /\ j # k
<1> DEFINE d == Head(queues[k])
           n == d.emission
           old == emissions[n]
           others == {i \in DOMAIN observers : KeyOf(i) # d.key}
           c == Cardinality(others)
           new == [old EXCEPT !.waits = @ - 1 + c, !.failed = TRUE]
<1>1. TypeInv /\ QueuesInv
  BY DEF IInv
<1>2. n \in 1 .. Len(emissions)
  BY <1>1, HeadOf
<1>3. old \in Emissions /\ emissions \in Seq(Emissions)
  BY <1>1, <1>2 DEF TypeInv
<1>4. others \in SUBSET DOMAIN observers
  OBVIOUS
<1>5. c \in Nat
  <2>1. DOMAIN observers = 1 .. Len(observers) /\ Len(observers) \in Nat
    BY <1>1 DEF TypeInv
  <2>2. IsFiniteSet(DOMAIN observers)
    BY <2>1, FS_Interval
  <2>3. QED
    BY <2>2, <1>4, FS_Subset, FS_CardinalityType
<1>6. /\ queues' = Enqueued(Popped(k), others, n, "failed")
      /\ emissions' = [emissions EXCEPT ![n] = Settled(new)]
  BY DEF Fails
<1> HIDE DEF n, old, others, c
<1>7. new \in Emissions /\ new.event = old.event
  <2> DEFINE w == old.waits - 1 + c
  <2>1. w \in Int
    BY <1>3, <1>5 DEF Emissions
  <2>2. new = [old EXCEPT !.waits = w, !.failed = TRUE]
    OBVIOUS
  <2> HIDE DEF w, new
  <2>3. QED
    BY <1>3, <2>1, <2>2 DEF Emissions
<1> HIDE DEF new
<1>8. SameEvents /\ Len(emissions') = Len(emissions)
  BY <1>1, <1>2, <1>6, <1>7, SettledStep DEF old
<1>9. QED
  BY <1>2, <1>4, <1>6, <1>8, PoppedStep

(* What a step of the queues and the store leaves to show.                  *)
LEMMA RestInv ==
  ASSUME IInv, NEW all, UNCHANGED << setup, observers >>, SameEvents, StoreCovers(all),
         queues' \in [Keys -> Seq(Deliveries)],
         written' \in [Pairs -> Nat], told' \subseteq Pairs
  PROVE  TypeInv' /\ PlacesInv' /\ Single(bindings')
<1>1. TypeInv /\ PlacesInv
  BY DEF IInv
<1>2. QED
  BY <1>1 DEF TypeInv, PlacesInv, SameEvents, StoreCovers

LEMMA HandleReportInv == ASSUME IInv, NEW k \in Keys, HandleReport(k) PROVE IInv'
<1>1. TypeInv /\ QueuesInv /\ AccountsInv /\ Single(bindings)
  BY DEF IInv
<1>2. UNCHANGED << setup, observers, bindings, written, forgotten, told >> /\ Ends(k)
      /\ queues[k] # << >> /\ Head(queues[k]).stage = "queued"
  BY DEF HandleReport, Ready
<1>3. /\ SameEvents /\ queues' \in [Keys -> Seq(Deliveries)] /\ QueuesInv'
      /\ \A j \in Keys, e \in Events : Writing(j, e)' <=> Writing(j, e) /\ j # k
  BY <1>2, EndsStep
<1>4. \A e : ~ Writing(k, e)
  BY <1>2 DEF Writing, Running
<1>5. StoreCovers(bindings)
  BY <1>1, <1>2, NothingLost DEF TypeInv
<1>6. \A j \in UsedKeys(setup.named), e \in Events : Writing(j, e)' <=> Writing(j, e)
  BY <1>1, <1>3, <1>4, UsedPairs
<1>7. AccountsInv'
  BY <1>2, <1>5, <1>6, AccountsStay
<1>8. TypeInv' /\ PlacesInv' /\ Single(bindings')
  <2>1. written' \in [Pairs -> Nat] /\ told' \subseteq Pairs
    BY <1>1, <1>2 DEF TypeInv
  <2>2. QED
    BY <1>2, <1>3, <1>5, <2>1, RestInv
<1>9. QED
  BY <1>3, <1>7, <1>8 DEF IInv

(* A handler that finds the event claimed: it was written.                  *)
LEMMA SkipInv ==
  ASSUME IInv, NEW k \in Keys, Ready(k), ~ Claim(k, Event(k)), Ends(k),
         told' = told \cup {<< Head(queues[k]).observer, Event(k) >>},
         UNCHANGED << setup, observers, bindings, written, forgotten >>
  PROVE  IInv'
<1>1. TypeInv /\ QueuesInv /\ AccountsInv /\ Single(bindings)
  BY DEF IInv
<1>2. queues[k] # << >> /\ \A e : ~ Writing(k, e)
  BY DEF Ready, Writing, Running
<1>3. /\ SameEvents /\ queues' \in [Keys -> Seq(Deliveries)] /\ QueuesInv'
      /\ \A j \in Keys, e \in Events : Writing(j, e)' <=> Writing(j, e) /\ j # k
  BY <1>2, EndsStep
<1>4. StoreCovers(bindings)
  BY <1>1, NothingLost DEF TypeInv
<1> DEFINE p == << Owner(k), Event(k) >>
<1>5. k \in UsedKeys(setup.named) /\ Event(k) \in Events
      /\ Head(queues[k]).observer = Owner(k)
  BY <1>1, <1>2, HeadOf
<1>6. p \in Pairs
  BY <1>1, <1>5, UsedPairs
<1>7. written[p] > 0
  <2>1. Balanced(k, Event(k))
    BY <1>1, <1>5 DEF AccountsInv
  <2>2. Has(k, Event(k))
    BY DEF Claim, Has
  <2>3. QED
    BY <2>1, <2>2, <1>2 DEF Balanced
<1>8. told' = told \cup {p}
  BY <1>5
<1> HIDE DEF p
<1>9. TypeInv' /\ PlacesInv' /\ Single(bindings')
  <2>1. written' \in [Pairs -> Nat] /\ told' \subseteq Pairs
    BY <1>1, <1>6, <1>8 DEF TypeInv
  <2>2. QED
    BY <1>3, <1>4, <2>1, RestInv
<1>10. ASSUME NEW j \in UsedKeys(setup.named), NEW e \in Events
       PROVE  Balanced(j, e)'
  <2>1. Writing(j, e)' <=> Writing(j, e)
    BY <1>1, <1>2, <1>3, UsedPairs
  <2>2. Balanced(j, e)
    BY <1>1 DEF AccountsInv
  <2>3. (Has(j, e)' <=> Has(j, e)) /\ Owner(j)' = Owner(j)
    BY DEF Has, Owner, Entry
  <2>4. written' = written /\ forgotten' = forgotten
    OBVIOUS
  <2> USE DEF One
  <2>5. QED
    BY <2>1, <2>2, <2>3, <2>4 DEF Balanced
<1>11. AccountsInv'
  BY <1>1, <1>7, <1>8, <1>10 DEF AccountsInv
<1>12. QED
  BY <1>3, <1>9, <1>11 DEF IInv

(* A handler that claims the event.                                         *)
LEMMA ClaimInv ==
  ASSUME IInv, NEW k \in Keys, Ready(k), Head(queues[k]).kind = "event",
         Claim(k, Event(k)), Records(Append(bindings, Entry(k, Event(k)))),
         queues' = [queues EXCEPT ![k][1].stage = "running"],
         UNCHANGED << setup, observers, emissions, written, told >>
  PROVE  IInv'
<1> DEFINE c == Event(k)
           own == Entry(k, c)
           all == Append(bindings, own)
           q == queues[k]
           r == [q EXCEPT ![1].stage = "running"]
           n == Len(emissions)
<1>1. TypeInv /\ QueuesInv /\ AccountsInv /\ Single(bindings)
      /\ queues \in [Keys -> Seq(Deliveries)]
  BY DEF IInv, TypeInv
<1>2. q # << >> /\ \A e : ~ Writing(k, e)
  BY DEF Ready, Writing, Running
<1>3. k \in UsedKeys(setup.named) /\ c \in Events
  BY <1>1, <1>2, HeadOf
<1>4. own \in Entries /\ ~ Contains(bindings, own)
  BY <1>1, <1>3, UsedPairs DEF Claim
<1>5. all \in Seq(Entries) /\ Single(all)
      /\ \A x : Contains(all, x) <=> Contains(bindings, x) \/ x = own
  <2>1. bindings \in Seq(Entries)
    BY <1>1 DEF TypeInv
  <2> HIDE DEF own
  <2>2. QED
    BY <1>1, <1>4, <2>1, AppendEntry
<1>6. StoreCovers(all)
  <2>1. Records(all)
    OBVIOUS
  <2> HIDE DEF all
  <2>2. QED
    BY <1>1, <1>5, <2>1, RecordsStep
<1>7. queues' = [queues EXCEPT ![k] = r]
  OBVIOUS
<1>8. Good(q, setup.named, k, n) /\ n \in Nat
  BY <1>1 DEF QueuesInv, AllGood, TypeInv
<1>9. Good(r, setup.named, k, n) /\ Runs(r) /\ Head(r).emission = Head(q).emission
  <2>1. Head(q).kind = "event"
    OBVIOUS
  <2> HIDE DEF q, n
  <2>2. QED
    BY <1>2, <1>8, <2>1, GoodStart
<1> HIDE DEF r
<1>10. /\ queues' \in [Keys -> Seq(Deliveries)] /\ queues'[k] = r
       /\ \A j \in Keys : j # k => queues'[j] = queues[j]
  BY <1>1, <1>7, <1>9 DEF Good
<1>11. QueuesInv'
  <2>1. \A j \in Keys : Good(queues'[j], setup.named, j, n)
    BY <1>1, <1>9, <1>10 DEF QueuesInv, AllGood
  <2>2. QED
    BY <2>1 DEF QueuesInv, AllGood
<1>12. SameEvents
  BY <1>1 DEF SameEvents, TypeInv
<1>13. ASSUME NEW e \in Events PROVE Writing(k, e)' <=> e = c
  <2>1. Running(k)'
    BY <1>9, <1>10 DEF Running, Runs
  <2>2. Event(k)' = c
    BY <1>9, <1>10 DEF Event
  <2>3. QED
    BY <2>1, <2>2 DEF Writing
<1>14. ASSUME NEW j \in Keys, j # k, NEW e \in Events PROVE Writing(j, e)' <=> Writing(j, e)
  BY <1>10, <1>14 DEF Writing, Running, Event
<1>15. TypeInv' /\ PlacesInv' /\ Single(bindings')
  <2>1. written' \in [Pairs -> Nat] /\ told' \subseteq Pairs
    BY <1>1 DEF TypeInv
  <2> HIDE DEF all
  <2>2. QED
    BY <1>6, <1>10, <1>12, <2>1, RestInv
<1>16. ASSUME NEW j \in UsedKeys(setup.named), NEW e \in Events
       PROVE  Balanced(j, e)'
  <2> DEFINE w == written[<< Owner(j), e >>]
             h == Has(j, e)
             a == Contains(all, Entry(j, e))
             i == Writing(j, e)
             x == Writing(j, e)'
  <2>1. w \in Nat /\ j \in Keys
    BY <1>1, UsedPairs DEF TypeInv
  <2>2. a <=> h \/ Entry(j, e) = own
    BY <1>5 DEF Has
  <2>3. Entry(j, e) = own <=> j = k /\ e = c
    BY DEF Entry
  <2>4. j = k /\ e = c => ~ h /\ ~ i /\ x
    BY <1>2, <1>4, <1>13 DEF Has
  <2>5. ~ (j = k /\ e = c) => (x <=> i)
    BY <1>2, <1>13, <1>14, <2>1
  <2>6. h /\ ~ i => w > 0
    BY <1>1 DEF AccountsInv, Balanced
  <2> HIDE DEF w, h, a, i, x, own, all, c
  <2>7. w + One(x) + One(h) <= w + One(i) + One(a)
    BY <2>1, <2>2, <2>3, <2>4, <2>5 DEF One
  <2>8. a /\ ~ x => w > 0
    BY <2>2, <2>3, <2>4, <2>5, <2>6
  <2>9. written' = written /\ written' \in [Pairs -> Nat]
    BY <1>1 DEF TypeInv
  <2>10. QED
    BY <1>6, <2>7, <2>8, <2>9, AccountsStep DEF w, h, a, i, x
<1>17. AccountsInv'
  BY <1>1, <1>16 DEF AccountsInv
<1>18. QED
  BY <1>11, <1>15, <1>17 DEF IInv

LEMMA HandleInv == ASSUME IInv, NEW k \in Keys, Handle(k) PROVE IInv'
BY SkipInv, ClaimInv DEF Handle

(* A write that succeeds: it was claimed, and counts for what it wrote.     *)
LEMMA WriteInv == ASSUME IInv, NEW k \in Keys, Write(k) PROVE IInv'
<1> DEFINE c == Event(k)
           own == Entry(k, c)
           all == IF Contains(bindings, own) THEN bindings ELSE Append(bindings, own)
           p == << Owner(k), c >>
<1>1. TypeInv /\ QueuesInv /\ AccountsInv /\ Single(bindings)
      /\ bindings \in Seq(Entries) /\ written \in [Pairs -> Nat] /\ told \subseteq Pairs
  BY DEF IInv, TypeInv
<1>2. queues[k] # << >> /\ Running(k)
  BY DEF Write, Running
<1>3. k \in UsedKeys(setup.named) /\ c \in Events /\ Head(queues[k]).observer = Owner(k)
  BY <1>1, <1>2, HeadOf
<1>4. own \in Entries /\ p \in Pairs
  BY <1>1, <1>3, UsedPairs
<1>5. /\ written' = [written EXCEPT ![p] = @ + 1]
      /\ told' = told \cup {p}
      /\ Records(all) /\ Ends(k) /\ UNCHANGED << setup, observers >>
  BY <1>3 DEF Write
<1>6. /\ SameEvents /\ queues' \in [Keys -> Seq(Deliveries)] /\ QueuesInv'
      /\ \A j \in Keys, e \in Events : Writing(j, e)' <=> Writing(j, e) /\ j # k
  BY <1>2, <1>5, EndsStep
<1>7. all \in Seq(Entries) /\ Single(all)
      /\ \A x : Contains(all, x) <=> Contains(bindings, x) \/ x = own
  <2> HIDE DEF own
  <2>1. CASE Contains(bindings, own)
    BY <2>1, <1>1
  <2>2. CASE ~ Contains(bindings, own)
    BY <2>2, <1>1, <1>4, AppendEntry
  <2>3. QED
    BY <2>1, <2>2
<1> HIDE DEF all
<1>8. StoreCovers(all)
  BY <1>1, <1>5, <1>7, RecordsStep
<1>9. /\ written' \in [Pairs -> Nat] /\ written'[p] = written[p] + 1 /\ written[p] \in Nat
      /\ \A x \in Pairs : x # p => written'[x] = written[x]
  <2> HIDE DEF p
  <2>1. QED
    BY <1>1, <1>4, <1>5
<1>10. TypeInv' /\ PlacesInv' /\ Single(bindings')
  <2>1. told' \subseteq Pairs
    BY <1>1, <1>4, <1>5
  <2>2. QED
    BY <1>5, <1>6, <1>8, <1>9, <2>1, RestInv
<1>11. ASSUME NEW j \in UsedKeys(setup.named), NEW e \in Events
       PROVE  Balanced(j, e)'
  <2> DEFINE x == << Owner(j), e >>
             w == written[x]
             v == written'[x]
             h == Has(j, e)
             a == Contains(all, Entry(j, e))
             i == Writing(j, e)
             y == Writing(j, e)'
  <2>1. x \in Pairs /\ j \in Keys
    BY <1>1, UsedPairs
  <2>2. w \in Nat /\ v \in Nat
    BY <1>1, <1>9, <2>1
  <2>3. x = p <=> j = k /\ e = c
    BY <1>1, <1>3, UsedPairs
  <2>4. a <=> h \/ (j = k /\ e = c)
    <3>1. Entry(j, e) = own <=> j = k /\ e = c
      BY DEF Entry
    <3>2. QED
      BY <3>1, <1>7 DEF Has
  <2>5. j = k /\ e = c => i /\ ~ y /\ v = w + 1
    BY <1>2, <1>6, <1>9, <2>1, <2>3 DEF Writing
  <2>6. ~ (j = k /\ e = c) => (y <=> i) /\ v = w
    <3>1. j = k /\ e # c => ~ i
      BY DEF Writing
    <3>2. QED
      BY <3>1, <1>6, <1>9, <2>1, <2>3
  <2>7. h /\ ~ i => w > 0
    BY <1>1 DEF AccountsInv, Balanced
  <2> HIDE DEF w, v, h, a, i, y, c, x, p
  <2>8. v + One(y) + One(h) <= w + One(i) + One(a)
    BY <2>2, <2>4, <2>5, <2>6 DEF One
  <2>9. a /\ ~ y => v > 0
    BY <2>2, <2>4, <2>5, <2>6, <2>7
  <2>10. QED
    BY <1>5, <1>8, <1>9, <2>8, <2>9, AccountsStep DEF w, v, h, a, i, y, x
<1>12. ASSUME NEW x \in told' PROVE written'[x] > 0
  <2>1. CASE x = p
    BY <2>1, <1>9
  <2>2. CASE x \in told /\ x # p
    <3>1. written[x] > 0 /\ x \in Pairs
      BY <2>2, <1>1 DEF AccountsInv
    <3>2. QED
      BY <3>1, <2>2, <1>9
  <2>3. QED
    BY <2>1, <2>2, <1>5, <1>12
<1>13. AccountsInv'
  BY <1>5, <1>11, <1>12 DEF AccountsInv
<1>14. QED
  BY <1>6, <1>10, <1>13 DEF IInv

(* The claim of a write that fails is given up, and no other.               *)
LEMMA UnclaimedEntries ==
  ASSUME bindings \in Seq(Entries), Single(bindings), NEW k
  PROVE  /\ Unclaimed(k) \in Seq(Entries) /\ Single(Unclaimed(k))
         /\ \A x : Contains(Unclaimed(k), x)
                     <=> Contains(bindings, x) /\ x # Entry(k, Event(k))
<1> DEFINE own == Entry(k, Event(k))
           i == CHOOSE i \in DOMAIN bindings : bindings[i] = own
<1>1. CASE Contains(bindings, own)
  <2>1. DOMAIN bindings = 1 .. Len(bindings)
    OBVIOUS
  <2>2. \E l \in DOMAIN bindings : bindings[l] = own
    BY <1>1, <2>1 DEF Contains
  <2>3. i \in 1 .. Len(bindings) /\ bindings[i] = own
    BY <2>1, <2>2
  <2>4. Unclaimed(k) = RemoveAt(bindings, i)
    BY <1>1 DEF Unclaimed
  <2> HIDE DEF own, i
  <2>5. QED
    BY <2>3, <2>4, EntryRemoved DEF own
<1>2. CASE ~ Contains(bindings, own)
  <2>1. Unclaimed(k) = bindings
    BY <1>2 DEF Unclaimed
  <2>2. QED
    BY <2>1, <1>2
<1>3. QED
  BY <1>1, <1>2

LEMMA HandlerFailsInv == ASSUME IInv, NEW k \in Keys, HandlerFails(k) PROVE IInv'
<1> DEFINE c == Event(k)
<1>1. TypeInv /\ QueuesInv /\ AccountsInv /\ Single(bindings)
      /\ bindings \in Seq(Entries) /\ written \in [Pairs -> Nat] /\ told \subseteq Pairs
  BY DEF IInv, TypeInv
<1>2. UNCHANGED << setup, observers, written, forgotten, told >> /\ Fails(k)
  BY DEF HandlerFails
<1>3. queues[k] # << >>
  BY DEF HandlerFails, Running, Ready
<1>4. /\ SameEvents /\ queues' \in [Keys -> Seq(Deliveries)] /\ QueuesInv'
      /\ \A j \in Keys, e \in Events : Writing(j, e)' <=> Writing(j, e) /\ j # k
  BY <1>2, <1>3, FailsStep
<1>5. CASE Running(k) /\ bindings' = Unclaimed(k)
  <2>1. /\ bindings' \in Seq(Entries) /\ Single(bindings')
        /\ \A x : Contains(bindings', x) <=> Contains(bindings, x) /\ x # Entry(k, c)
    BY <1>1, <1>5, UnclaimedEntries
  <2>2. StoreCovers(bindings')
    BY <1>1, <1>2, <2>1, NothingLost
  <2>3. TypeInv' /\ PlacesInv' /\ Single(bindings')
    BY <1>1, <1>2, <1>4, <2>2, RestInv
  <2>4. ASSUME NEW j \in UsedKeys(setup.named), NEW e \in Events
        PROVE  Balanced(j, e)'
    <3> DEFINE w == written[<< Owner(j), e >>]
               h == Has(j, e)
               a == Contains(bindings', Entry(j, e))
               i == Writing(j, e)
               y == Writing(j, e)'
    <3>1. w \in Nat /\ j \in Keys
      BY <1>1, UsedPairs
    <3>2. a <=> h /\ ~ (j = k /\ e = c)
      <4>1. Entry(j, e) = Entry(k, c) <=> j = k /\ e = c
        BY DEF Entry
      <4>2. QED
        BY <4>1, <2>1 DEF Has
    <3>3. j = k /\ e = c => i /\ ~ y
      BY <1>4, <1>5, <3>1 DEF Writing
    <3>4. ~ (j = k /\ e = c) => (y <=> i)
      <4>1. j = k /\ e # c => ~ i
        BY DEF Writing
      <4>2. QED
        BY <4>1, <1>4, <3>1
    <3>5. h /\ ~ i => w > 0
      BY <1>1 DEF AccountsInv, Balanced
    <3> HIDE DEF w, h, a, i, y, c
    <3>6. w + One(y) + One(h) <= w + One(i) + One(a)
      BY <3>1, <3>2, <3>3, <3>4 DEF One
    <3>7. a /\ ~ y => w > 0
      BY <3>2, <3>4, <3>5
    <3>8. written' = written
      BY <1>2
    <3>9. QED
      BY <1>1, <1>2, <2>2, <3>6, <3>7, <3>8, AccountsStep DEF w, h, a, i, y
  <2>5. AccountsInv'
    BY <1>1, <1>2, <2>4 DEF AccountsInv
  <2>6. QED
    BY <1>4, <2>3, <2>5 DEF IInv
<1>6. CASE Ready(k) /\ UNCHANGED bindings
  <2>1. StoreCovers(bindings)
    BY <1>1, <1>2, <1>6, NothingLost
  <2>2. TypeInv' /\ PlacesInv' /\ Single(bindings')
    BY <1>1, <1>2, <1>4, <2>1, RestInv
  <2>3. \A j \in UsedKeys(setup.named), e \in Events : Writing(j, e)' <=> Writing(j, e)
    <3>1. \A e : ~ Writing(k, e)
      BY <1>6 DEF Ready, Writing, Running
    <3>2. QED
      BY <3>1, <1>1, <1>4, UsedPairs
  <2>4. AccountsInv'
    BY <1>2, <2>1, <2>3, AccountsStay
  <2>5. QED
    BY <1>4, <2>2, <2>4 DEF IInv
<1>7. QED
  BY <1>5, <1>6 DEF HandlerFails

LEMMA StepInv == IInv /\ [Next]_vars => IInv'
<1> SUFFICES ASSUME IInv, [Next]_vars PROVE IInv'
  OBVIOUS
<1>1. CASE (\E o \in Observers : Add(o)) \/ (\E i \in DOMAIN observers : Dispose(i))
  BY <1>1, RegistrationInv
<1>2. CASE \E e \in Events : Emit(e)
  BY <1>2, EmitInv
<1>3. CASE \E k \in Keys : Deliver(k)
  BY <1>3, HandleReportInv, HandleInv, WriteInv, HandlerFailsInv DEF Deliver
<1>4. CASE Expire
  BY <1>4, ExpireInv
<1>5. CASE UNCHANGED vars
  BY <1>5 DEF vars, IInv, TypeInv, PlacesInv, QueuesInv, AccountsInv, Balanced, Owner,
              Writing, Running, Event, Has, Single
<1>6. QED
  BY <1>1, <1>2, <1>3, <1>4, <1>5 DEF Next

-----------------------------------------------------------------------------
(* The theorems.                                                            *)

(* The accounts balance in every state, when observers that come and go     *)
(* have names (ObserverBus, checkWrite and the binding store).              *)
THEOREM AccountsBalance == KeysStay /\ Spec => []IInv
<1>1. KeysStay /\ Init => IInv
  BY InitInv
<1>2. IInv /\ [Next]_vars => IInv'
  BY StepInv
<1>3. QED
  BY <1>1, <1>2, PTL DEF Spec

(* An event that is emitted again, while its first delivery is queued or    *)
(* runs, or after it failed, is written once by every observer, and again   *)
(* only when the store has forgotten that it was; and a delivery that ended *)
(* well has written (checkWrite, claim, complete, delete).  That no unnamed *)
(* observer is removed is assumed (KeysStay): its index, which is its key,  *)
(* would go to the next one.                                                *)
THEOREM EventsWrittenOnce == KeysStay /\ Spec => []WrittenOnce
<1>1. IInv => WrittenOnce
  <2> SUFFICES ASSUME IInv, NEW p \in Pairs
               PROVE  written[p] <= 1 + forgotten[p] /\ (p \in told => written[p] > 0)
    BY DEF WrittenOnce
  <2>1. TypeInv /\ AccountsInv
    BY DEF IInv
  <2>2. written[p] \in Nat /\ forgotten[p] \in Nat /\ setup.named \in BOOLEAN
    BY <2>1, UsedPairs DEF TypeInv
  <2>3. PICK k \in UsedKeys(setup.named) : Owner(k) = p[1]
    BY <2>2, OwnersDiffer DEF Pairs, Owner
  <2>4. PICK e \in Events : p = << Owner(k), e >>
    BY <2>3 DEF Pairs
  <2>5. Balanced(k, e)
    BY <2>1 DEF AccountsInv
  <2>6. written[p] + One(Writing(k, e)) <= forgotten[p] + One(Has(k, e))
    BY <2>4, <2>5 DEF Balanced
  <2>7. written[p] <= 1 + forgotten[p]
    BY <2>2, <2>6 DEF One
  <2>8. QED
    BY <2>1, <2>7 DEF AccountsInv
<1>2. QED
  BY <1>1, AccountsBalance, PTL

(* An observer handles its events one at a time and in the order they were  *)
(* emitted, while emissions overlap, handlers fail and observers with names *)
(* come and go (enqueue, emit, emitObserverFailed); that no unnamed one is  *)
(* removed is assumed (KeysStay).                                           *)
THEOREM EventsInOrder == KeysStay /\ Spec => []InOrder
<1>1. IInv => InOrder
  <2> SUFFICES ASSUME IInv, NEW k \in Keys, Running(k), NEW d \in Outstanding,
                      d.observer = Head(queues[k]).observer, d.kind = "event"
               PROVE  Head(queues[k]).emission <= d.emission
    BY DEF InOrder
  <2>1. TypeInv /\ QueuesInv
    BY DEF IInv
  <2>2. PICK j \in Keys : \E i \in DOMAIN queues[j] : d = queues[j][i]
    BY DEF Outstanding
  <2>3. Good(queues[j], setup.named, j, Len(emissions))
    BY <2>1 DEF QueuesInv, AllGood
  <2>4. PICK i \in 1 .. Len(queues[j]) : d = queues[j][i] /\ Len(queues[j]) \in Nat
    BY <2>2, <2>3 DEF Good
  <2>5. j \in UsedKeys(setup.named) /\ d.observer = Owner(j)
        /\ d.emission \in 1 .. Len(emissions)
    BY <2>3, <2>4 DEF Good, Proper, Owner
  <2>6. queues[k] # << >> /\ Head(queues[k]).stage = "running"
    BY DEF Running
  <2>7. k \in UsedKeys(setup.named) /\ Head(queues[k]).observer = Owner(k)
        /\ Head(queues[k]).kind = "event"
    BY <2>1, <2>6, HeadOf
  <2>8. j = k
    BY <2>1, <2>5, <2>7, UsedPairs, OwnersDiffer DEF Owner
  <2>9. Head(queues[k]) = queues[k][1] /\ 1 \in 1 .. Len(queues[k])
    BY <2>3, <2>4, <2>6, <2>8 DEF Good
  <2>10. CASE i = 1
    BY <2>4, <2>5, <2>8, <2>9, <2>10
  <2>11. CASE 1 < i
    BY <2>3, <2>4, <2>7, <2>8, <2>9, <2>11 DEF Good, InTurn
  <2>12. QED
    BY <2>4, <2>10, <2>11
<1>2. QED
  BY <1>1, AccountsBalance, PTL
=============================================================================
